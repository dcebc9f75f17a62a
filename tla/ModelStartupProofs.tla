------------------------- MODULE ModelStartupProofs -------------------------
(***************************************************************************)
(* Proofs about ModelStartup, for archives of any size, any number of      *)
(* attempts, releases, faults, crashes and reloads.                        *)
(***************************************************************************)
EXTENDS ModelStartup, TLAPS, SequenceTheorems

\* The download thread is between its look at the cache and its end.
Downloading == dl.pc \in {"request", "transfer", "check", "unpack"}

\* While it transfers there is room in the temporary file.
Room == dl.pc = "transfer" => Len(tmp) < Size

\* What the thread has put into the cache comes from the release whose checksum
\* it expects.  Only a thread that found no cache puts anything into it.
FromExpected ==
    /\ cache.state = "absent" => cache.from = {}
    /\ Downloading => cache.from \subseteq {info}

\* The preload thread goes on only after the download, publishes only a model it
\* has loaded, and nobody else sets the state to "ready".  Nobody at all sets it to
\* "failed", so reload_model resets a state that is "ready".
Loaded ==
    /\ pre.pc # "wait" => downloaded
    /\ pre.pc = "publish" => model
    /\ state = "ready" => pre.pc = "ready" /\ model
    /\ state # "failed"

\* The inductive invariant.
IInv == TypeOK /\ Room /\ FromExpected /\ Unmixed /\ Loaded

-----------------------------------------------------------------------------
(* Steps on parts of the state. *)

DlOK == dl \in [pc : {"start", "request", "transfer", "check", "unpack", "done"},
                attempt : 1..MaxAttempts, from : Releases]
CacheOK == cache \in [state : {"absent", "partial", "complete"}, from : SUBSET Releases]
TmpOK == tmp \in Seq(Releases) /\ Len(tmp) <= Size

\* An attempt that fails leaves the thread at its next request or at its end
\* (dts_model_downloader.py, the loop in _download_pretrained_model).
LEMMA AttemptFailsFacts ==
    ASSUME TypeOK, AttemptFails
    PROVE  DlOK' /\ dl'.pc \in {"request", "done"} /\ dlFailed' \in BOOLEAN
<1>1. DlOK /\ dlFailed \in BOOLEAN /\ MaxAttempts \in Nat
  BY StartupAssumption DEF TypeOK, DlOK
<1>2. CASE dl.attempt < MaxAttempts
  <2>1. dl' = [dl EXCEPT !.pc = "request", !.attempt = dl.attempt + 1] /\ dlFailed' = dlFailed
    BY <1>2 DEF AttemptFails
  <2>2. dl.attempt \in 1..MaxAttempts
    BY <1>1 DEF DlOK
  <2>3. dl.attempt + 1 \in 1..MaxAttempts
    BY <1>1, <1>2, <2>2
  <2>4. QED
    BY <1>1, <2>1, <2>3 DEF DlOK
<1>3. CASE ~(dl.attempt < MaxAttempts)
  <2>1. dl' = [dl EXCEPT !.pc = "done"] /\ dlFailed' = TRUE
    BY <1>3 DEF AttemptFails
  <2>2. QED
    BY <1>1, <2>1 DEF DlOK
<1>4. QED
  BY <1>2, <1>3

\* _cleanup_partial_download: the cache is as before or gone.
LEMMA CleanUpFacts ==
    ASSUME TypeOK, cache' = CleanUp(cache)
    PROVE  CacheOK' /\ (cache' = cache \/ cache' = NoCache)
<1>1. CacheOK
  BY DEF TypeOK, CacheOK
<1>2. NoCache \in [state : {"absent", "partial", "complete"}, from : SUBSET Releases]
  BY DEF NoCache
<1>3. QED
  BY <1>1, <1>2 DEF CleanUp, CacheOK

\* The chunks of a file with one more chunk.
LEMMA ChunkFacts ==
    ASSUME NEW r \in Releases, TypeOK, Len(tmp) < Size
    PROVE  /\ Append(tmp, r) \in Seq(Releases)
           /\ Len(Append(tmp, r)) = Len(tmp) + 1
           /\ Len(Append(tmp, r)) <= Size
<1>1. tmp \in Seq(Releases) /\ Len(tmp) \in Nat /\ Size \in Nat
  BY StartupAssumption DEF TypeOK
<1>2. QED
  BY <1>1

\* The counters of faults, crashes and reloads, and the release on the server.
Counters ==
    /\ release \in Releases
    /\ faults \in 0..MaxFaults /\ crashes \in 0..MaxCrashes /\ reloads \in 0..MaxReloads

LEMMA CountersKept ==
    ASSUME TypeOK, NoFault \/ \E k \in AllKinds : Fault(k)
    PROVE  Counters'
<1>1. MaxFaults \in Nat
  BY StartupAssumption
<1>2. CASE NoFault
  BY <1>2 DEF TypeOK, NoFault, counts, Counters
<1>3. ASSUME NEW k \in AllKinds, Fault(k) PROVE Counters'
  BY <1>1, <1>3 DEF TypeOK, Fault, Counters
<1>4. QED
  BY <1>2, <1>3

-----------------------------------------------------------------------------
(* The invariant. *)

\* The download thread keeps the invariant.
LEMMA DownloadInv == IInv /\ DlNext => IInv'
<1> SUFFICES ASSUME IInv, DlNext PROVE IInv'
  OBVIOUS
<1>1. TypeOK /\ Room /\ FromExpected /\ Unmixed /\ Loaded
  BY DEF IInv
<1>2. MaxAttempts \in Nat \ {0} /\ Size \in Nat \ {0} /\ MaxReleases \in Nat
  BY StartupAssumption
<1>3. QED
  <2>1. CASE DlStart
    <3>1. Counters'
      BY <2>1, <1>1, CountersKept DEF DlStart, AllKinds
    <3>2. TypeOK'
      BY <2>1, <3>1, <1>1, <1>2 DEF DlStart, TypeOK, Counters, preload
    <3>3. Room' /\ FromExpected' /\ Unmixed'
      BY <2>1, <1>1, <1>2 DEF DlStart, TypeOK, Room, FromExpected, Downloading, Unmixed, NoCache, preload
    <3>4. Loaded'
      BY <2>1, <1>1 DEF DlStart, Loaded, download, preload
    <3>5. QED
      BY <3>2, <3>3, <3>4 DEF IInv
  <2>2. CASE DlRequest
    <3>1. Counters'
      BY <2>2, <1>1, CountersKept DEF DlRequest, AllKinds
    <3>2. TypeOK'
      <4>1. info' \in 0..MaxReleases
        BY <2>2, <1>1, <1>2 DEF DlRequest, FetchInfo, TypeOK, Releases
      <4>2. CASE tmp' \in {tmp, <<>>} /\ dl' = [dl EXCEPT !.pc = "transfer", !.from = release]
                 /\ UNCHANGED <<cache, dlFailed>>
        <5>1. TmpOK'
          <6>1. CASE tmp' = tmp
            BY <6>1, <1>1 DEF TypeOK, TmpOK
          <6>2. CASE tmp' = <<>>
            BY <6>2, <1>2 DEF TmpOK
          <6>3. QED
            BY <4>2, <6>1, <6>2
        <5>2. DlOK'
          BY <4>2, <1>1 DEF TypeOK, DlOK
        <5>3. UNCHANGED <<downloaded, pre, state, model>>
          BY <2>2 DEF DlRequest, preload
        <5>4. QED
          BY <3>1, <4>1, <4>2, <5>1, <5>2, <5>3, <1>1 DEF TypeOK, DlOK, TmpOK, Counters
      <4>3. CASE AttemptFails /\ cache' = CleanUp(cache) /\ UNCHANGED tmp
        <5>1. DlOK' /\ dlFailed' \in BOOLEAN
          BY <4>3, <1>1, AttemptFailsFacts
        <5>2. CacheOK'
          BY <4>3, <1>1, CleanUpFacts
        <5>3. UNCHANGED <<downloaded, pre, state, model>>
          BY <2>2 DEF DlRequest, preload
        <5>4. QED
          BY <3>1, <4>1, <4>3, <5>1, <5>2, <5>3, <1>1 DEF TypeOK, DlOK, CacheOK, Counters
      <4>4. QED
        BY <2>2, <4>2, <4>3 DEF DlRequest
    <3>3. Room' /\ FromExpected' /\ Unmixed'
      <4>1. cache.from \subseteq {info} /\ (cache.state = "absent" => cache.from = {})
        BY <2>2, <1>1 DEF DlRequest, FromExpected, Downloading
      <4>2. cache.from \subseteq {info'}
        <5>1. CASE info = 0
          BY <4>1, <5>1, <1>1 DEF TypeOK, Releases
        <5>2. CASE info # 0
          BY <2>2, <4>1, <5>2 DEF DlRequest, FetchInfo
        <5>3. QED
          BY <5>1, <5>2
      <4>3. cache' = cache \/ cache' = NoCache
        BY <2>2, <1>1, CleanUpFacts DEF DlRequest
      <4>4. cache'.from \subseteq {info'} /\ (cache'.state = "absent" => cache'.from = {})
        BY <4>1, <4>2, <4>3 DEF NoCache
      <4>5. Room'
        <5>1. CASE AttemptFails
          BY <5>1, <1>1, AttemptFailsFacts DEF Room
        <5>2. CASE dl' = [dl EXCEPT !.pc = "transfer", !.from = release] /\ tmp' = <<>>
          BY <5>2, <1>2 DEF Room
        <5>3. CASE dl' = [dl EXCEPT !.pc = "transfer", !.from = release] /\ tmp' = tmp /\ Len(tmp) < Size
          BY <5>3 DEF Room
        <5>4. QED
          BY <2>2, <5>1, <5>2, <5>3 DEF DlRequest
      <4>6. QED
        BY <4>4, <4>5 DEF FromExpected, Unmixed
    <3>4. Loaded'
      BY <2>2, <1>1 DEF DlRequest, Loaded, download, preload
    <3>5. QED
      BY <3>2, <3>3, <3>4 DEF IInv
  <2>3. CASE DlChunk
    <3>1. Counters'
      BY <2>3, <1>1, CountersKept DEF DlChunk, AllKinds
    <3>2. TypeOK'
      <4>1. dl.pc = "transfer" /\ dl.from \in Releases /\ Len(tmp) < Size
        BY <2>3, <1>1 DEF DlChunk, TypeOK, Room
      <4>2. TmpOK'
        BY <2>3, <1>1, <4>1, ChunkFacts DEF DlChunk, TmpOK
      <4>3. DlOK'
        BY <2>3, <1>1 DEF DlChunk, TypeOK, DlOK
      <4>4. UNCHANGED <<cache, info, downloaded, dlFailed, pre, state, model>>
        BY <2>3 DEF DlChunk, preload
      <4>5. QED
        BY <3>1, <4>2, <4>3, <4>4, <1>1 DEF TypeOK, DlOK, TmpOK, Counters
    <3>3. Room' /\ FromExpected' /\ Unmixed'
      BY <2>3, <1>1, <1>2, ChunkFacts DEF DlChunk, TypeOK, Room, FromExpected, Downloading, Unmixed, NoCache, preload
    <3>4. Loaded'
      BY <2>3, <1>1 DEF DlChunk, Loaded, download, preload
    <3>5. QED
      BY <3>2, <3>3, <3>4 DEF IInv
  <2>4. CASE DlInterrupted
    <3>1. Counters'
      BY <2>4, <1>1, CountersKept DEF DlInterrupted, AllKinds
    <3>2. TypeOK'
      <4>1. DlOK' /\ dlFailed' \in BOOLEAN
        BY <2>4, <1>1, AttemptFailsFacts DEF DlInterrupted
      <4>2. CacheOK'
        BY <2>4, <1>1, CleanUpFacts DEF DlInterrupted
      <4>3. UNCHANGED <<tmp, info, downloaded, pre, state, model>>
        BY <2>4 DEF DlInterrupted, preload
      <4>4. QED
        BY <3>1, <4>1, <4>2, <4>3, <1>1 DEF TypeOK, DlOK, CacheOK, Counters
    <3>3. Room' /\ FromExpected' /\ Unmixed'
      BY <2>4, <1>1, <1>2, AttemptFailsFacts, CleanUpFacts DEF DlInterrupted, TypeOK, Room, FromExpected, Downloading, Unmixed, NoCache, preload
    <3>4. Loaded'
      BY <2>4, <1>1 DEF DlInterrupted, Loaded, download, preload
    <3>5. QED
      BY <3>2, <3>3, <3>4 DEF IInv
  <2>5. CASE DlCheck
    <3>1. Counters'
      BY <2>5, <1>1, CountersKept DEF DlCheck, AllKinds
    <3>2. TypeOK' /\ Room' /\ FromExpected' /\ Unmixed'
      <4>1. UNCHANGED <<info, downloaded, pre, state, model>>
        BY <2>5 DEF DlCheck, preload
      <4>2. CASE /\ ChunksOf(tmp) = {info}
                 /\ cache' = [state |-> "partial", from |-> cache.from \cup ChunksOf(tmp)]
                 /\ dl' = [dl EXCEPT !.pc = "unpack"]
                 /\ UNCHANGED <<tmp, dlFailed>>
        <5>1. ChunksOf(tmp) \subseteq Releases
          BY <1>1 DEF TypeOK, ChunksOf
        <5>2. CacheOK' /\ DlOK' /\ dl'.pc = "unpack"
          BY <4>2, <5>1, <1>1 DEF TypeOK, CacheOK, DlOK
        <5>3. cache.from \subseteq {info}
          BY <2>5, <1>1 DEF DlCheck, FromExpected, Downloading
        <5>4. cache'.from \subseteq {info'} /\ cache'.state # "absent"
          BY <4>1, <4>2, <5>3
        <5>5. QED
          BY <3>1, <4>1, <4>2, <5>2, <5>4, <1>1
          DEF TypeOK, CacheOK, DlOK, Counters, Room, FromExpected, Unmixed
      <4>3. CASE AttemptFails /\ cache' = CleanUp(cache) /\ tmp' = <<>>
        <5>1. DlOK' /\ dl'.pc \in {"request", "done"} /\ dlFailed' \in BOOLEAN
          BY <4>3, <1>1, AttemptFailsFacts
        <5>2. CacheOK' /\ (cache' = cache \/ cache' = NoCache)
          BY <4>3, <1>1, CleanUpFacts
        <5>3. TmpOK'
          BY <4>3, <1>2 DEF TmpOK
        <5>4. cache.from \subseteq {info}
          BY <2>5, <1>1 DEF DlCheck, FromExpected, Downloading
        <5>5. QED
          BY <3>1, <4>1, <5>1, <5>2, <5>3, <5>4, <1>1
          DEF TypeOK, CacheOK, DlOK, TmpOK, Counters, Room, FromExpected, Unmixed, NoCache
      <4>4. QED
        BY <2>5, <4>2, <4>3 DEF DlCheck
    <3>4. Loaded'
      BY <2>5, <1>1 DEF DlCheck, Loaded, download, preload
    <3>5. QED
      BY <3>2, <3>4 DEF IInv
  <2>6. CASE DlUnpack
    <3>1. Counters'
      BY <2>6, <1>1, CountersKept DEF DlUnpack, AllKinds
    <3>2. TypeOK'
      BY <2>6, <3>1, <1>1, <1>2 DEF DlUnpack, TypeOK, Counters, preload
    <3>3. Room' /\ FromExpected' /\ Unmixed'
      BY <2>6, <1>1, <1>2 DEF DlUnpack, TypeOK, Room, FromExpected, Downloading, Unmixed, NoCache, preload
    <3>4. Loaded'
      BY <2>6, <1>1 DEF DlUnpack, Loaded, download, preload
    <3>5. QED
      BY <3>2, <3>3, <3>4 DEF IInv
  <2>7. CASE DlUnpackFails
    <3>1. Counters'
      BY <2>7, <1>1, CountersKept DEF DlUnpackFails, AllKinds
    <3>2. TypeOK'
      <4>1. DlOK' /\ dlFailed' \in BOOLEAN
        BY <2>7, <1>1, AttemptFailsFacts DEF DlUnpackFails
      <4>2. CacheOK'
        BY <2>7, <1>1, CleanUpFacts DEF DlUnpackFails
      <4>3. UNCHANGED <<tmp, info, downloaded, pre, state, model>>
        BY <2>7 DEF DlUnpackFails, preload
      <4>4. QED
        BY <3>1, <4>1, <4>2, <4>3, <1>1 DEF TypeOK, DlOK, CacheOK, Counters
    <3>3. Room' /\ FromExpected' /\ Unmixed'
      BY <2>7, <1>1, <1>2, AttemptFailsFacts, CleanUpFacts DEF DlUnpackFails, TypeOK, Room, FromExpected, Downloading, Unmixed, NoCache, preload
    <3>4. Loaded'
      BY <2>7, <1>1 DEF DlUnpackFails, Loaded, download, preload
    <3>5. QED
      BY <3>2, <3>3, <3>4 DEF IInv
  <2>8. QED
    BY <2>1, <2>2, <2>3, <2>4, <2>5, <2>6, <2>7 DEF DlNext

\* The preload thread keeps the invariant.
LEMMA PreloadInv == IInv /\ PreNext => IInv'
<1> SUFFICES ASSUME IInv, PreNext PROVE IInv'
  OBVIOUS
<1>1. TypeOK /\ Room /\ FromExpected /\ Unmixed /\ Loaded
  BY DEF IInv
<1>2. MaxAttempts \in Nat \ {0} /\ Size \in Nat \ {0} /\ MaxReleases \in Nat
  BY StartupAssumption
<1>3. QED
  <2>1. CASE PreWait
    <3>1. Counters'
      BY <2>1, <1>1, CountersKept DEF PreWait, AllKinds
    <3>2. TypeOK'
      BY <2>1, <3>1, <1>1, <1>2 DEF PreWait, TypeOK, Counters, download
    <3>3. Room' /\ FromExpected' /\ Unmixed'
      BY <2>1, <1>1, <1>2 DEF PreWait, TypeOK, Room, FromExpected, Downloading, Unmixed, NoCache, download
    <3>4. Loaded'
      BY <2>1, <1>1 DEF PreWait, Loaded, download, preload
    <3>5. QED
      BY <3>2, <3>3, <3>4 DEF IInv
  <2>2. CASE PreLoad
    <3>1. Counters'
      BY <2>2, <1>1, CountersKept DEF PreLoad, AllKinds
    <3>2. TypeOK'
      BY <2>2, <3>1, <1>1, <1>2 DEF PreLoad, TypeOK, Counters, download
    <3>3. Room' /\ FromExpected' /\ Unmixed'
      BY <2>2, <1>1, <1>2 DEF PreLoad, TypeOK, Room, FromExpected, Downloading, Unmixed, NoCache, download
    <3>4. Loaded'
      BY <2>2, <1>1 DEF PreLoad, Loaded, download, preload
    <3>5. QED
      BY <3>2, <3>3, <3>4 DEF IInv
  <2>3. CASE PreLoadFails
    <3>1. Counters'
      BY <2>3, <1>1, CountersKept DEF PreLoadFails, AllKinds
    <3>2. TypeOK'
      BY <2>3, <3>1, <1>1, <1>2 DEF PreLoadFails, TypeOK, Counters, download
    <3>3. Room' /\ FromExpected' /\ Unmixed'
      BY <2>3, <1>1, <1>2 DEF PreLoadFails, TypeOK, Room, FromExpected, Downloading, Unmixed, NoCache, download
    <3>4. Loaded'
      BY <2>3, <1>1 DEF PreLoadFails, Loaded, download, preload
    <3>5. QED
      BY <3>2, <3>3, <3>4 DEF IInv
  <2>4. CASE PrePublish
    <3>1. Counters'
      BY <2>4, <1>1, CountersKept DEF PrePublish, AllKinds
    <3>2. TypeOK'
      BY <2>4, <3>1, <1>1, <1>2 DEF PrePublish, TypeOK, Counters, download
    <3>3. Room' /\ FromExpected' /\ Unmixed'
      BY <2>4, <1>1, <1>2 DEF PrePublish, TypeOK, Room, FromExpected, Downloading, Unmixed, NoCache, download
    <3>4. Loaded'
      BY <2>4, <1>1 DEF PrePublish, Loaded, download, preload
    <3>5. QED
      BY <3>2, <3>3, <3>4 DEF IInv
  <2>5. QED
    BY <2>1, <2>2, <2>3, <2>4 DEF PreNext

\* Reloads, new releases and crashes keep it: a crash leaves the cache as it is,
\* and the next download thread touches only a cache it did not find.
LEMMA WorldInv == IInv /\ (ReloadModel \/ NewRelease \/ Crash) => IInv'
<1> SUFFICES ASSUME IInv, ReloadModel \/ NewRelease \/ Crash PROVE IInv'
  OBVIOUS
<1>1. TypeOK /\ Room /\ FromExpected /\ Unmixed /\ Loaded
  BY DEF IInv
<1>2. /\ MaxAttempts \in Nat \ {0} /\ MaxReleases \in Nat \ {0}
      /\ MaxCrashes \in Nat /\ MaxReloads \in Nat
  BY StartupAssumption
<1>3. CASE ReloadModel
  <2>1. /\ UNCHANGED <<release, tmp, cache, info, dl, downloaded, dlFailed, pre, faults, crashes>>
        /\ reloads' \in 0..MaxReloads
        /\ \/ UNCHANGED <<state, model>>
           \/ state' = "loading" /\ model' = FALSE /\ state # "loading"
    BY <1>1, <1>2, <1>3 DEF ReloadModel, TypeOK, download
  <2>2. TypeOK'
    BY <1>1, <2>1 DEF TypeOK
  <2>3. Room' /\ FromExpected' /\ Unmixed'
    BY <1>1, <2>1 DEF Room, FromExpected, Downloading, Unmixed
  <2>4. Loaded'
    <3>1. state # "loading" => state = "ready"
      BY <1>1 DEF TypeOK, Loaded
    <3>2. QED
      BY <1>1, <2>1, <3>1 DEF Loaded
  <2>5. QED
    BY <2>2, <2>3, <2>4 DEF IInv
<1>4. CASE NewRelease
  <2>1. /\ UNCHANGED <<tmp, cache, info, dl, downloaded, dlFailed, pre, state, model,
                       faults, crashes, reloads>>
        /\ release' \in Releases
    BY <1>1, <1>2, <1>4 DEF NewRelease, TypeOK, Releases, download, preload, counts
  <2>2. QED
    BY <1>1, <2>1 DEF IInv, TypeOK, Room, FromExpected, Downloading, Unmixed, Loaded
<1>5. CASE Crash
  <2>1. /\ UNCHANGED <<release, tmp, cache, faults, reloads>>
        /\ crashes' \in 0..MaxCrashes
        /\ info' = 0 /\ downloaded' = FALSE /\ dlFailed' = FALSE
        /\ dl' = [pc |-> "start", attempt |-> 1, from |-> 1]
        /\ pre' = [pc |-> "wait", attempt |-> 1]
        /\ state' = "loading" /\ model' = FALSE
    BY <1>1, <1>2, <1>5 DEF Crash, TypeOK
  <2>2. 1 \in 1..MaxAttempts /\ 1 \in Releases /\ 0 \in 0..MaxReleases
    BY <1>2 DEF Releases
  <2>3. TypeOK'
    BY <1>1, <2>1, <2>2 DEF TypeOK
  <2>4. Room' /\ FromExpected' /\ Unmixed' /\ Loaded'
    BY <1>1, <2>1 DEF Room, FromExpected, Downloading, Unmixed, Loaded
  <2>5. QED
    BY <2>3, <2>4 DEF IInv
<1>6. QED
  BY <1>3, <1>4, <1>5

\* The first start has an empty cache and neither a file nor a model.
LEMMA InitInv == Init => IInv
<1> SUFFICES ASSUME Init PROVE IInv
  OBVIOUS
<1>1. /\ 1 \in 1..MaxAttempts /\ 1 \in Releases /\ Size \in Nat
      /\ MaxReleases \in Nat /\ MaxFaults \in Nat /\ MaxCrashes \in Nat /\ MaxReloads \in Nat
  BY StartupAssumption DEF Releases
<1>2. TypeOK
  <2>1. tmp \in Seq(Releases) /\ Len(tmp) <= Size
    BY <1>1 DEF Init
  <2>2. cache \in [state : {"absent", "partial", "complete"}, from : SUBSET Releases]
    BY DEF Init, NoCache
  <2>3. /\ dl \in [pc : {"start", "request", "transfer", "check", "unpack", "done"},
                  attempt : 1..MaxAttempts, from : Releases]
        /\ pre \in [pc : {"wait", "load", "publish", "ready", "gave_up"}, attempt : 1..MaxAttempts]
    BY <1>1 DEF Init
  <2>4. /\ release \in Releases /\ info \in 0..MaxReleases
        /\ faults \in 0..MaxFaults /\ crashes \in 0..MaxCrashes /\ reloads \in 0..MaxReloads
    BY <1>1 DEF Init
  <2>5. QED
    BY <2>1, <2>2, <2>3, <2>4 DEF Init, TypeOK
<1>3. Room /\ FromExpected /\ Unmixed /\ Loaded
  BY DEF Init, Room, FromExpected, Downloading, Unmixed, Loaded, NoCache
<1>4. QED
  BY <1>2, <1>3 DEF IInv

LEMMA NextInv == IInv /\ [Next]_vars => IInv'
<1>1. ASSUME IInv, UNCHANGED vars PROVE IInv'
  BY <1>1 DEF vars, IInv, TypeOK, Room, FromExpected, Downloading, Unmixed, Loaded
<1>2. QED
  BY <1>1, DownloadInv, PreloadInv, WorldInv DEF Next

-----------------------------------------------------------------------------
(* The theorems. *)

\* The inductive invariant holds in every reachable state: the state of
\* dts_model_downloader.py, bm_context.py and the preload of dts_index.py.
THEOREM Invariance == Spec => []IInv
<1>1. QED
  BY InitInv, NextInv, PTL DEF Spec

\* Every variable keeps its type; in particular the attempts are counted up to
\* _MAX_DOWNLOAD_ATTEMPTS and the temporary file never outgrows the archive.
THEOREM TypeCorrect == Spec => []TypeOK
<1>1. IInv => TypeOK
  BY DEF IInv
<1>2. QED
  BY <1>1, Invariance, PTL

\* The files of the model cache come from one release, whatever partial files
\* earlier runs left, whenever the server changes the archive and wherever the
\* process dies (_check_md5 and is_local_cache_valid in bm_context.py).
THEOREM UnmixedHolds == Spec => []Unmixed
<1>1. IInv => Unmixed
  BY DEF IInv
<1>2. QED
  BY <1>1, Invariance, PTL

\* The state "ready" of dts_index.py is seen only with a model that was loaded
\* from a downloaded archive.
THEOREM ReadyMeansLoadedHolds == Spec => []ReadyMeansLoaded
<1>1. IInv => ReadyMeansLoaded
  BY DEF IInv, Loaded, ReadyMeansLoaded
<1>2. QED
  BY <1>1, Invariance, PTL

=============================================================================
