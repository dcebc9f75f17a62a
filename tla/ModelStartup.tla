---------------------------- MODULE ModelStartup ----------------------------
(***************************************************************************)
(* How the process comes by its model in offline mode: the download thread *)
(* of dt_image_search/index/dts_model_downloader.py with bm_context.py and *)
(* the preload thread of index/dts_index.py that waits for it.             *)
(*                                                                         *)
(* The download goes to a temporary file and continues from what is there  *)
(* with a Range request, in this run or a later one.  A complete file is   *)
(* verified, unpacked into the model cache and removed.  The preload       *)
(* thread then loads the model and sets the state that indexing and search *)
(* look at.  The temporary file and the cache survive a crash.             *)
(*                                                                         *)
(* The server may publish a new release of the model, may not support      *)
(* Range requests, and may lose the connection.                            *)
(***************************************************************************)
EXTENDS Integers, Sequences

CONSTANTS
    Size,         \* chunks of a model archive
    MaxAttempts,  \* _MAX_DOWNLOAD_ATTEMPTS, and _MAX_ATTEMPTS of the preload (3)
    MaxReleases,  \* bound: releases of the model
    Kinds,        \* the faults that may happen, a subset of AllKinds
    MaxFaults,    \* bound: faults
    MaxCrashes,   \* bound: crashes of the process
    MaxReloads    \* bound: calls of reload_model

\* A lost connection, a server without Range requests, an archive that cannot be
\* unpacked (no space), a load that fails (no memory).
AllKinds == {"lost", "no_range", "unpack", "load"}

ASSUME StartupAssumption ==
    /\ Kinds \subseteq AllKinds
    /\ Size \in Nat \ {0} /\ MaxAttempts \in Nat \ {0} /\ MaxReleases \in Nat \ {0}
    /\ MaxFaults \in Nat /\ MaxCrashes \in Nat /\ MaxReloads \in Nat

VARIABLES
    release,     \* what the server has now
    tmp,         \* the temporary file: the release of each chunk; empty when missing
    cache,       \* the model cache directory and the releases its files come from
    info,        \* _model_file_info, the release whose md5 is expected; 0: not fetched
    dl,          \* the download thread: pc, attempt, the release being sent
    downloaded,  \* model_downloaded_event
    dlFailed,    \* model_download_failed_event
    pre,         \* the preload thread: pc, attempt
    state,       \* _model_state
    model,       \* is _model set?
    faults, crashes, reloads

download == <<tmp, cache, info, dl, downloaded, dlFailed>>
preload == <<pre, state, model>>
counts == <<faults, crashes, reloads>>
vars == <<release, tmp, cache, info, dl, downloaded, dlFailed, pre, state, model,
          faults, crashes, reloads>>

Releases == 1..MaxReleases
NoCache == [state |-> "absent", from |-> {}]

TypeOK ==
    /\ release \in Releases
    /\ tmp \in Seq(Releases) /\ Len(tmp) <= Size
    /\ cache \in [state : {"absent", "partial", "complete"}, from : SUBSET Releases]
    /\ info \in 0..MaxReleases
    /\ dl \in [pc : {"start", "request", "transfer", "check", "unpack", "done"}, attempt : 1..MaxAttempts,
            from : Releases]
    /\ downloaded \in BOOLEAN /\ dlFailed \in BOOLEAN
    /\ pre \in [pc : {"wait", "load", "publish", "ready", "gave_up"}, attempt : 1..MaxAttempts]
    /\ state \in {"ready", "loading", "failed"}
    /\ model \in BOOLEAN
    /\ faults \in 0..MaxFaults /\ crashes \in 0..MaxCrashes /\ reloads \in 0..MaxReloads

ChunksOf(file) == {file[k] : k \in DOMAIN file}

\* Something goes wrong.
Fault(kind) == kind \in Kinds /\ faults < MaxFaults /\ faults' = faults + 1 /\ UNCHANGED <<release, crashes, reloads>>
NoFault == UNCHANGED <<release, counts>>

-----------------------------------------------------------------------------
(* The download thread. *)

\* Mutant: the event is not set when the cache was there before.
DlStartSilent ==
    /\ dl.pc = "start"
    /\ dl' = [dl EXCEPT !.pc = IF cache.state # "absent" THEN "done" ELSE "request"]
    /\ UNCHANGED <<tmp, cache, info, downloaded, dlFailed, preload>> /\ NoFault

\* A cache directory that exists is taken for a valid one.
DlStart ==
    /\ dl.pc = "start"
    /\ IF cache.state # "absent"
       THEN downloaded' = TRUE /\ dl' = [dl EXCEPT !.pc = "done"]
       ELSE dl' = [dl EXCEPT !.pc = "request"] /\ UNCHANGED downloaded
    /\ UNCHANGED <<tmp, cache, info, dlFailed, preload>> /\ NoFault

\* Mutant: no limit.
AttemptFailsEndless ==
    /\ dl' = [dl EXCEPT !.pc = "request", !.attempt = @ + 1]
    /\ UNCHANGED dlFailed

\* The end of a failed attempt; after the last one the cache is cleaned up.
AttemptFails ==
    IF dl.attempt < MaxAttempts
    THEN /\ dl' = [dl EXCEPT !.pc = "request", !.attempt = @ + 1]
         /\ UNCHANGED dlFailed
    ELSE /\ dl' = [dl EXCEPT !.pc = "done"]
         /\ dlFailed' = TRUE

CleanUp(c) == IF dl.attempt < MaxAttempts THEN c ELSE NoCache

\* _load_model_file_info: the URL and the checksum are asked for once.
FetchInfo == info' = IF info = 0 THEN release ELSE info

\* Ask for the rest of the file.  A server without Range support sends all of
\* it (200), one with it has nothing to send after the last byte (416).
DlRequest ==
    /\ dl.pc = "request"
    /\ FetchInfo
    /\ \/ /\ Len(tmp) < Size
          /\ dl' = [dl EXCEPT !.pc = "transfer", !.from = release]
          /\ UNCHANGED <<tmp, cache, dlFailed>> /\ NoFault
       \/ /\ tmp # <<>>
          /\ tmp' = <<>>
          /\ dl' = [dl EXCEPT !.pc = "transfer", !.from = release]
          /\ UNCHANGED <<cache, dlFailed>> /\ Fault("no_range")
       \/ /\ Len(tmp) = Size
          /\ AttemptFails
          /\ cache' = CleanUp(cache)
          /\ UNCHANGED tmp /\ NoFault
    /\ UNCHANGED <<downloaded, preload>>

DlChunk ==
    /\ dl.pc = "transfer"
    /\ tmp' = Append(tmp, dl.from)
    /\ dl' = [dl EXCEPT !.pc = IF Len(tmp) + 1 = Size THEN "check" ELSE "transfer"]
    /\ UNCHANGED <<cache, info, downloaded, dlFailed, preload>> /\ NoFault

\* The connection is lost; the partial file stays for the next attempt.
DlInterrupted ==
    /\ dl.pc = "transfer"
    /\ AttemptFails
    /\ cache' = CleanUp(cache)
    /\ UNCHANGED <<tmp, info, downloaded, preload>> /\ Fault("lost")

\* Mutant: only the size of the file is checked.
DlCheckSize ==
    /\ dl.pc = "check"
    /\ cache' = [state |-> "partial", from |-> cache.from \cup ChunksOf(tmp)]
    /\ dl' = [dl EXCEPT !.pc = "unpack"]
    /\ UNCHANGED <<tmp, info, downloaded, dlFailed, preload>> /\ NoFault

\* The checksum decides between unpacking the file and removing it.
DlCheck ==
    /\ dl.pc = "check"
    /\ IF ChunksOf(tmp) = {info}
       THEN /\ cache' = [state |-> "partial", from |-> cache.from \cup ChunksOf(tmp)]
            /\ dl' = [dl EXCEPT !.pc = "unpack"]
            /\ UNCHANGED <<tmp, dlFailed>>
       ELSE /\ AttemptFails
            /\ cache' = CleanUp(cache)
            /\ tmp' = <<>>
    /\ UNCHANGED <<info, downloaded, preload>> /\ NoFault

DlUnpack ==
    /\ dl.pc = "unpack"
    /\ cache' = [cache EXCEPT !.state = "complete"]
    /\ tmp' = <<>>
    /\ downloaded' = TRUE
    /\ dl' = [dl EXCEPT !.pc = "done"]
    /\ UNCHANGED <<info, dlFailed, preload>> /\ NoFault

\* The archive cannot be unpacked; the temporary file stays.
DlUnpackFails ==
    /\ dl.pc = "unpack"
    /\ AttemptFails
    /\ cache' = CleanUp(cache)
    /\ UNCHANGED <<tmp, info, downloaded, preload>> /\ Fault("unpack")

-----------------------------------------------------------------------------
(* The preload thread. *)

\* The loop around the two events: a failed download sets only the other event,
\* so the thread waits for the first one for ever.
PreWait ==
    /\ pre.pc = "wait"
    /\ downloaded /\ ~dlFailed
    /\ pre' = [pre EXCEPT !.pc = "load"]
    /\ state' = "loading"
    /\ model' = FALSE
    /\ UNCHANGED download /\ NoFault

PreLoad ==
    /\ pre.pc = "load"
    /\ cache.state = "complete"
    /\ model' = TRUE
    /\ pre' = [pre EXCEPT !.pc = "publish"]
    /\ UNCHANGED <<state, download>> /\ NoFault

\* A load fails.  After the last attempt _set_model_failed is called, which
\* assigns a local variable: the state stays as it is.
PreLoadFails ==
    /\ pre.pc = "load"
    /\ IF cache.state = "complete" THEN Fault("load") ELSE NoFault
    /\ pre' = IF pre.attempt < MaxAttempts THEN [pre EXCEPT !.attempt = @ + 1]
              ELSE [pre EXCEPT !.pc = "gave_up"]
    /\ UNCHANGED <<state, model, download>>

PrePublish ==
    /\ pre.pc = "publish"
    /\ state' = "ready"
    /\ pre' = [pre EXCEPT !.pc = "ready"]
    /\ UNCHANGED <<model, download>> /\ NoFault

-----------------------------------------------------------------------------
(* Everybody else. *)

\* reload_model: while the state is "loading" the call returns False.  Otherwise
\* retry_model_download finds the model downloaded and _start_preload finds the
\* state that reload_model has just set.
ReloadModel ==
    /\ reloads < MaxReloads
    /\ reloads' = reloads + 1
    /\ IF state = "loading" THEN UNCHANGED <<state, model>>
       ELSE state' = "loading" /\ model' = FALSE
    /\ UNCHANGED <<release, pre, download, faults, crashes>>

NewRelease ==
    /\ release < MaxReleases
    /\ release' = release + 1
    /\ UNCHANGED <<download, preload, counts>>

Crash ==
    /\ crashes < MaxCrashes
    /\ crashes' = crashes + 1
    /\ info' = 0
    /\ dl' = [pc |-> "start", attempt |-> 1, from |-> 1]
    /\ downloaded' = FALSE /\ dlFailed' = FALSE
    /\ pre' = [pc |-> "wait", attempt |-> 1]
    /\ state' = "loading"
    /\ model' = FALSE
    /\ UNCHANGED <<release, tmp, cache, faults, reloads>>

-----------------------------------------------------------------------------
\* The first start, after the init of both modules.
Init ==
    /\ release = 1
    /\ tmp = <<>>
    /\ cache = NoCache
    /\ info = 0
    /\ dl = [pc |-> "start", attempt |-> 1, from |-> 1]
    /\ downloaded = FALSE /\ dlFailed = FALSE
    /\ pre = [pc |-> "wait", attempt |-> 1]
    /\ state = "loading"
    /\ model = FALSE
    /\ faults = 0 /\ crashes = 0 /\ reloads = 0

DlNext == DlStart \/ DlRequest \/ DlChunk \/ DlInterrupted \/ DlCheck \/ DlUnpack \/ DlUnpackFails
PreNext == PreWait \/ PreLoad \/ PreLoadFails \/ PrePublish
Next == DlNext \/ PreNext \/ ReloadModel \/ NewRelease \/ Crash

Spec == Init /\ [][Next]_vars

\* Both threads keep running.
FairSpec == Spec /\ WF_vars(DlNext) /\ WF_vars(PreNext)

-----------------------------------------------------------------------------
(* Properties. *)

\* The files of the cache come from one release, whatever partial files earlier
\* runs left behind and whenever the server changed the archive.
Unmixed == \A r, s \in cache.from : r = s

\* When the download is reported to be done the cache is complete.
DownloadedMeansComplete == downloaded => cache.state = "complete"

\* Search and indexing see "ready" only with a model, from a downloaded archive.
ReadyMeansLoaded == state = "ready" => model /\ downloaded

\* Fewer faults than attempts do not keep the process from getting its model:
\* an interrupted download continues where it stopped, in the next attempt or
\* the next run.
Starts == <>(state = "ready")

\* Every start comes to an end, with a model, with a preload that has given up
\* or with a failed download that is announced; no fault, crash, new release or
\* half-written file makes a thread try for ever.
Settles == <>[](pre.pc \in {"ready", "gave_up"} \/ dlFailed)

\* When the preload has given up the state says so.
FailureIsReported == pre.pc = "gave_up" => state = "failed"

\* A reload is followed by a preload that ends.
ReloadEnds == reloads > 0 ~> state # "loading"

=============================================================================
