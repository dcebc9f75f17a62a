--------------------------- MODULE MobileTransfer ---------------------------
(***************************************************************************)
(* The backup of a phone's photos to its folder on the PC:                 *)
(* mobile/mobile_transfer_service.py, with the staging of uploads in       *)
(* transport/asset_upload_stream.py, the rows of mobile_pairing_store.py   *)
(* that it works on, and the parts of mobile_folder_controller.py that     *)
(* interfere.                                                              *)
(*                                                                         *)
(* Requests are handled by threads of an HTTP server without a common      *)
(* lock.  A handler commits each statement on its own, so an upload is a   *)
(* chain of steps: the staged body, the checks, the choice of a file name, *)
(* the move of the file, its row.  The phone sends several uploads at a    *)
(* time and may, when the backup is over, delete what was stored.          *)
(***************************************************************************)
EXTENDS Integers, FiniteSets, Sequences

CONSTANTS
    Assets,      \* photos of one phone
    Contents,    \* bytes, with size and date: what a signature tells apart
    Bytes,       \* Bytes[a] is a sequence: the content of each version of photo a
    NameOf,      \* NameOf[a] is its month and file name
    Sessions,    \* backup sessions, the results of successful pairings
    Overlap,     \* may two uploads of one name be between Place and Move at once?
    Numbers,     \* bound: the numbers that make file names unique
    MaxFaults    \* bound: faults and interventions of the user

NoPath == <<>>
NoSession == "no session"
Torn == "torn"  \* a file that was copied in part
Chunks == 2     \* of the body of an upload
Versions == Nat \ {0}

ASSUME TransferAssumption ==
    /\ Bytes \in [Assets -> Seq(Contents)]
    /\ \A a \in Assets : Bytes[a] # <<>>
    /\ Numbers \subseteq Nat \ {0}
    /\ Torn \notin Contents /\ NoSession \notin Sessions
    /\ Overlap \in BOOLEAN /\ MaxFaults \in Nat

VARIABLES
    version,  \* the version of each photo on the phone, 0 when it was deleted there
    phone,    \* what the phone's run of a backup knows of each photo
    running,  \* the phone is in such a run ...
    cur,      \* ... for this session
    session,  \* table mobile_backup_sessions: its status; "gone" when the row is deleted
    shown,    \* mobile_folders.transfer_state
    record,   \* table mobile_assets: what is stored of each photo, and where
    file,     \* the files in the folder: path -> content
    upload,   \* per photo: the pending stream, or the thread that handles the upload
    dialog,   \* the session the user is asked to stop
    deleted,  \* contents the user has deleted in the folder
    faults

pcVars == <<session, shown, record, file, upload, dialog, deleted>>
phoneVars == <<version, phone, running, cur>>
vars == <<phoneVars, pcVars, faults>>

Free == [pc |-> "none", version |-> 0, got |-> <<>>, session |-> NoSession, path |-> NoPath]
NoRecord == [version |-> 0, path |-> NoPath]
Paths == {NameOf[a] : a \in Assets} \X Numbers

TypeOK ==
    /\ version \in [Assets -> Nat] /\ \A a \in Assets : version[a] <= Len(Bytes[a])
    /\ phone \in [Assets -> {"idle", "todo", "sending", "sent", "again", "done", "failed"}]
    /\ running \in BOOLEAN
    /\ cur \in Sessions \cup {NoSession}
    /\ session \in [Sessions -> {"none", "paired", "transferring", "completed", "failed", "stopped", "gone"}]
    /\ shown \in {"none", "paired", "transferring", "transfer_completed", "failed"}
    /\ record \in [Assets -> [version : Versions, path : Paths] \cup {NoRecord}]
    /\ DOMAIN file \subseteq Paths
    /\ \A p \in DOMAIN file : file[p] \in Contents \cup {Torn}
    /\ upload \in [Assets -> [pc : {"none", "stream", "check", "place", "move", "record"},
                              version : Nat, got : Seq(Versions),
                              session : Sessions \cup {NoSession}, path : Paths \cup {NoPath}]]
    /\ dialog \in Sessions \cup {NoSession}
    /\ deleted \subseteq Contents
    /\ faults \in 0..MaxFaults

-----------------------------------------------------------------------------
(* Files, rows and states. *)

Put(p, c) == [q \in DOMAIN file \cup {p} |-> IF q = p THEN c ELSE file[q]]

Stored == {file[p] : p \in DOMAIN file} \cap Contents

\* Mutant: the name as it is.
FirstFreeTaken(name, n) == n = 1

\* _resolve_conflict_safe_path: the name, or the name with the first free number.
FirstFree(name, n) ==
    /\ <<name, n>> \notin DOMAIN file
    /\ \A k \in 1..(n - 1) : <<name, k>> \in DOMAIN file

\* Mutant: a row of any content will do.
HeldAny(c) == \E a \in Assets : record[a] # NoRecord /\ record[a].path \in DOMAIN file

\* A row whose file exists has this content: get_mobile_asset_records_by_signatures.
Held(c) ==
    \E a \in Assets : /\ record[a] # NoRecord
                      /\ Bytes[a][record[a].version] = c
                      /\ record[a].path \in DOMAIN file

\* Mutant: the state of an earlier release.
ShownAfterOld ==
    [transferring |-> "transferring", completed |-> "transfer_completed",
     failed |-> "disconnected", stopped |-> "paired"]

\* update_mobile_transfer_state, with the folder state that
\* mobile_backup_state_machine.py comes to from every state.
ShownAfter ==
    [transferring |-> "transferring", completed |-> "transfer_completed",
     failed |-> "failed", stopped |-> "paired"]

\* The row of a session, which names the device and its key.
HasContext(s) == session[s] \notin {"none", "gone"}

SetStatus(s, status) ==
    /\ session' = [session EXCEPT ![s] = IF HasContext(s) THEN status ELSE @]
    /\ shown' = IF shown = "none" THEN shown ELSE ShownAfter[status]

\* _mark_transfer_failed; it does not look at the session's status again.
MarkTransferFailed(s) == SetStatus(s, "failed")

\* A request is decrypted with the key of its session, or refused.
Decrypts(s) == HasContext(s)

Fault == faults < MaxFaults /\ faults' = faults + 1

\* The answer to the upload of a; it is lost when the phone has given up.
Answer(a, result) ==
    phone' = [phone EXCEPT ![a] = IF @ = "sent" THEN result ELSE @]

-----------------------------------------------------------------------------
(* The phone. *)

\* A pairing (see MobilePairing): the session's row, and the folder bound.
Pair(s) ==
    /\ ~running /\ session[s] = "none"
    /\ session' = [session EXCEPT ![s] = "paired"]
    /\ shown' = "paired"
    /\ cur' = s
    /\ UNCHANGED <<version, phone, running, record, file, upload, dialog, deleted, faults>>

\* The user edits a photo, while no backup runs.
Edit(a) ==
    /\ ~running /\ version[a] # 0
    /\ version[a] < Len(Bytes[a]) /\ version' = [version EXCEPT ![a] = @ + 1]
    /\ UNCHANGED <<phone, running, cur, pcVars, faults>>

\* handle_start_request accepts a session that has not ended.
Startable(s) == session[s] \in {"paired", "transferring"}

\* The phone starts a run.  The answer may be lost.
Start ==
    /\ ~running /\ cur # NoSession
    /\ IF Decrypts(cur) /\ Startable(cur)
       THEN /\ SetStatus(cur, "transferring")
            /\ \/ /\ running' = TRUE
                  /\ phone' = [a \in Assets |-> IF version[a] = 0 THEN "idle" ELSE "todo"]
                  /\ UNCHANGED <<cur, faults>>
               \/ Fault /\ UNCHANGED <<phone, running, cur>>
       ELSE cur' = NoSession /\ UNCHANGED <<phone, running, session, shown, faults>>
    /\ UNCHANGED <<version, record, file, upload, dialog, deleted>>

\* handle_asset_existence_request, for one photo.
Match(a) == session[cur] = "transferring" /\ Held(Bytes[a][version[a]])

\* A match needs no upload.
Exists(a) ==
    /\ running /\ phone[a] = "todo"
    /\ Decrypts(cur) /\ Match(a)
    /\ phone' = [phone EXCEPT ![a] = "done"]
    /\ UNCHANGED <<version, running, cur, pcVars, faults>>

\* The metadata of an upload opens its stream, in place of one left over ...
StreamStart(a) ==
    /\ running /\ phone[a] \in {"todo", "again"} /\ Decrypts(cur)
    /\ upload[a].pc \in {"none", "stream"}
    /\ upload' = [upload EXCEPT ![a] = [pc |-> "stream", version |-> version[a], got |-> <<>>,
                                       session |-> cur, path |-> NoPath]]
    /\ phone' = [phone EXCEPT ![a] = "sending"]
    /\ UNCHANGED <<version, running, cur, session, shown, record, file, dialog, deleted, faults>>

\* ... or is refused.
StreamRefused(a) ==
    /\ running /\ phone[a] \in {"todo", "again"} /\ ~Decrypts(cur)
    /\ phone' = [phone EXCEPT ![a] = "failed"]
    /\ UNCHANGED <<version, running, cur, pcVars, faults>>

\* The phone has lost the connection: it counts the photo as failed, or
\* connects anew and uploads it again.
Lost(a) == \E then \in {"failed", "again"} : phone' = [phone EXCEPT ![a] = then]

\* The chunks of the body are appended to the staged file ...
StreamBody(a) ==
    /\ phone[a] = "sending"
    /\ upload' = [upload EXCEPT ![a].got = @ \o [i \in 1..Chunks |-> version[a]]]
    /\ phone' = [phone EXCEPT ![a] = "sent"]
    /\ UNCHANGED <<version, running, cur, session, shown, record, file, dialog, deleted, faults>>

\* ... some of them, until the connection breaks ...
StreamBreaks(a) ==
    /\ phone[a] = "sending" /\ Fault
    /\ upload' = [upload EXCEPT ![a].got = @ \o <<version[a]>>]
    /\ Lost(a)
    /\ UNCHANGED <<version, running, cur, session, shown, record, file, dialog, deleted>>

\* ... or until the disk with the staged files is full:
\* handle_asset_upload_stream_error.
StreamDiskFull(a) ==
    /\ phone[a] = "sending" /\ Fault
    /\ upload' = [upload EXCEPT ![a] = Free]
    /\ phone' = [phone EXCEPT ![a] = "failed"]
    /\ IF session[upload[a].session] = "transferring"
       THEN MarkTransferFailed(upload[a].session)
       ELSE UNCHANGED <<session, shown>>
    /\ UNCHANGED <<version, running, cur, record, file, dialog, deleted>>

\* The phone stops waiting for the answer to an upload.
GiveUp(a) ==
    /\ phone[a] = "sent" /\ Fault /\ Lost(a)
    /\ UNCHANGED <<version, running, cur, pcVars>>

\* Mutant: the count of failures is ignored.
EndStatusSuccess == "completed"

EndStatus == IF \E a \in Assets : phone[a] = "failed" THEN "failed" ELSE "completed"

\* handle_complete_request ends a session that is transferring.
Ends(s, status) == session[s] = "transferring" /\ SetStatus(s, status)

\* The phone reports the end of its run, and may then delete what it knows is stored.
Complete ==
    /\ running /\ \A a \in Assets : phone[a] \in {"idle", "done", "failed"}
    /\ IF Decrypts(cur) /\ session[cur] = "transferring"
       THEN /\ Ends(cur, EndStatus)
            /\ \E remove \in BOOLEAN :
                  version' = [a \in Assets |-> IF remove /\ phone[a] = "done" THEN 0 ELSE version[a]]
       ELSE UNCHANGED <<version, session, shown>>
    /\ running' = FALSE /\ phone' = [a \in Assets |-> "idle"]
    /\ UNCHANGED <<cur, record, file, upload, dialog, deleted, faults>>

\* The same request, when the user stops the backup on the phone ...
Stop ==
    /\ running /\ Fault
    /\ IF session[cur] = "transferring" THEN Ends(cur, "stopped") ELSE UNCHANGED <<session, shown>>
    /\ running' = FALSE /\ phone' = [a \in Assets |-> "idle"]
    /\ UNCHANGED <<version, cur, record, file, upload, dialog, deleted>>

\* ... and a run that ends without a word: an error in its pipeline, or the app dies.
Abort ==
    /\ running /\ Fault
    /\ running' = FALSE /\ phone' = [a \in Assets |-> "idle"]
    /\ UNCHANGED <<version, cur, pcVars>>

-----------------------------------------------------------------------------
(* The handler of an upload. *)

\* TransferAssetUploadStream.complete: the handler owns the staged file now.
Owns(a) == upload' = [upload EXCEPT ![a].pc = "check"]

StreamComplete(a) ==
    /\ phone[a] = "sent" /\ upload[a].pc = "stream"
    /\ Owns(a)
    /\ UNCHANGED <<phoneVars, session, shown, record, file, dialog, deleted, faults>>

\* handle_asset_upload up to the look-ups of what is stored already.
UploadCheck(a) ==
    LET u == upload[a] IN
    /\ u.pc = "check"
    /\ \/ /\ Len(u.got) # Chunks \/ session[u.session] # "transferring"
          /\ upload' = [upload EXCEPT ![a] = Free] /\ Answer(a, "failed")
       \/ /\ Len(u.got) = Chunks /\ session[u.session] = "transferring"
          /\ Held(Bytes[a][u.version])
          /\ upload' = [upload EXCEPT ![a] = Free] /\ Answer(a, "done")
       \/ /\ Len(u.got) = Chunks /\ session[u.session] = "transferring"
          /\ ~Held(Bytes[a][u.version])
          /\ upload' = [upload EXCEPT ![a].pc = "place"] /\ UNCHANGED phone
    /\ UNCHANGED <<version, running, cur, session, shown, record, file, dialog, deleted, faults>>

\* _move_staged_asset_to_folder looks for a name ...
UploadPlace(a) ==
    /\ upload[a].pc = "place"
    /\ Overlap \/ \A b \in Assets \ {a} : upload[b].pc = "move" => NameOf[b] # NameOf[a]
    /\ \E n \in Numbers :
          /\ FirstFree(NameOf[a], n)
          /\ LET u == upload[a] IN
             upload' = [upload EXCEPT ![a] = [pc |-> "move", version |-> u.version, got |-> u.got,
                                              session |-> u.session, path |-> <<NameOf[a], n>>]]
    /\ UNCHANGED <<phoneVars, session, shown, record, file, dialog, deleted, faults>>

\* ... compares the digest, and replaces whatever has that name.
UploadMove(a) ==
    LET u == upload[a] IN
    /\ u.pc = "move" /\ \A i \in DOMAIN u.got : u.got[i] = u.version
    /\ file' = Put(u.path, Bytes[a][u.version])
    /\ upload' = [upload EXCEPT ![a].pc = "record"]
    /\ UNCHANGED <<phoneVars, session, shown, record, dialog, deleted, faults>>

\* An OSError in there: a wrong digest, a full disk, or os.utime after the
\* move; a move between file systems copies and may leave a part.
UploadFails(a) ==
    LET u == upload[a] IN
    /\ u.pc = "move"
    /\ IF \A i \in DOMAIN u.got : u.got[i] = u.version
       THEN /\ Fault
            /\ file' \in {file, Put(u.path, Torn), Put(u.path, Bytes[a][u.version])}
       ELSE UNCHANGED <<file, faults>>
    /\ MarkTransferFailed(u.session)
    /\ upload' = [upload EXCEPT ![a] = Free] /\ Answer(a, "failed")
    /\ UNCHANGED <<version, running, cur, record, dialog, deleted>>

\* Mutant: only while the session is transferring.
UploadRecordChecked(a) ==
    LET u == upload[a] IN
    /\ u.pc = "record" /\ session[u.session] = "transferring"
    /\ record' = [record EXCEPT ![a] = [version |-> u.version, path |-> u.path]]
    /\ upload' = [upload EXCEPT ![a] = Free] /\ Answer(a, "done")
    /\ UNCHANGED <<version, running, cur, session, shown, file, dialog, deleted, faults>>

\* upsert_mobile_asset_record: one row per photo of the device.
UpsertRecord(a) == record' = [record EXCEPT ![a] = [version |-> upload[a].version, path |-> upload[a].path]]

\* The row of the stored file, and the answer "stored".
UploadRecord(a) ==
    /\ upload[a].pc = "record"
    /\ UpsertRecord(a)
    /\ upload' = [upload EXCEPT ![a] = Free] /\ Answer(a, "done")
    /\ UNCHANGED <<version, running, cur, session, shown, file, dialog, deleted, faults>>

-----------------------------------------------------------------------------
(* The desktop. *)

\* get_active_mobile_backup_session.
IsActive(s) == session[s] = "transferring"

\* MobileFolderCoordinator asks whether to stop the running backup ...
AskToStop(s) ==
    /\ dialog = NoSession /\ IsActive(s)
    /\ dialog' = s
    /\ UNCHANGED <<phoneVars, session, shown, record, file, upload, deleted, faults>>

\* ... and _stop_active_backup_session does not look whether it still runs.
AnswerToStop ==
    /\ dialog # NoSession
    /\ \/ UNCHANGED <<session, shown, faults>>
       \/ HasContext(dialog) /\ SetStatus(dialog, "stopped") /\ Fault
    /\ dialog' = NoSession
    /\ UNCHANGED <<phoneVars, record, file, upload, deleted>>

\* delete_mobile_device_data_for_folder_ids, when the folder is removed.
RemoveFolder ==
    /\ shown # "none" /\ Fault
    /\ session' = [s \in Sessions |-> IF session[s] = "none" THEN "none" ELSE "gone"]
    /\ record' = [a \in Assets |-> NoRecord]
    /\ shown' = "none"
    /\ UNCHANGED <<phoneVars, file, upload, dialog, deleted>>

UserDeletes(p) ==
    /\ p \in DOMAIN file /\ Fault
    /\ file' = [q \in DOMAIN file \ {p} |-> file[q]]
    /\ deleted' = deleted \cup ({file[p]} \ {Torn})
    /\ UNCHANGED <<phoneVars, session, shown, record, upload, dialog>>

\* The process ends; a move that was under way may leave a part of a file.
Crash ==
    /\ Fault
    /\ \/ UNCHANGED file
       \/ \E a \in Assets : upload[a].pc = "move" /\ file' = Put(upload[a].path, Torn)
    /\ upload' = [a \in Assets |-> Free]
    /\ phone' = [a \in Assets |-> IF phone[a] \in {"sending", "sent"} THEN "failed" ELSE phone[a]]
    /\ dialog' = NoSession
    /\ UNCHANGED <<version, running, cur, session, shown, record, deleted>>

-----------------------------------------------------------------------------
Init ==
    /\ version = [a \in Assets |-> 1]
    /\ phone = [a \in Assets |-> "idle"]
    /\ running = FALSE /\ cur = NoSession
    /\ session = [s \in Sessions |-> "none"]
    /\ shown = "none"
    /\ record = [a \in Assets |-> NoRecord]
    /\ file = [p \in {} |-> Torn]
    /\ upload = [a \in Assets |-> Free]
    /\ dialog = NoSession /\ deleted = {} /\ faults = 0

\* What the server routes to the handlers as a whole: do_POST.
Posted == Start \/ Complete \/ Stop \/ \E a \in Assets : Exists(a)

\* The upload of a photo, part by part.
PhoneSends(a) ==
    \/ StreamStart(a) \/ StreamRefused(a) \/ StreamBody(a) \/ StreamBreaks(a) \/ StreamDiskFull(a)

Handler(a) ==
    StreamComplete(a) \/ UploadCheck(a) \/ UploadPlace(a) \/ UploadMove(a) \/ UploadFails(a) \/ UploadRecord(a)

Next ==
    \/ \E s \in Sessions : Pair(s) \/ AskToStop(s)
    \/ \E a \in Assets : Edit(a) \/ PhoneSends(a) \/ GiveUp(a) \/ Handler(a)
    \/ Posted \/ Abort \/ AnswerToStop \/ RemoveFolder \/ Crash
    \/ \E p \in DOMAIN file : UserDeletes(p)

\* Handlers run to their end, and the phone's workers go on while its run lasts.
Fairness == /\ \A a \in Assets : WF_vars(PhoneSends(a)) /\ WF_vars(Handler(a))
            /\ WF_vars(Complete)

Spec == Init /\ [][Next]_vars /\ Fairness

-----------------------------------------------------------------------------
(* What is checked. *)

\* A row names a file with the content it claims, whatever uploads, failures
\* and crashes came between the move of a file and its row, unless the user
\* has deleted such a file (the skips of handle_asset_upload rely on it).
RecordHasContent ==
    \A a \in Assets :
        record[a] # NoRecord /\ record[a].path \in DOMAIN file =>
            LET c == Bytes[a][record[a].version] IN file[record[a].path] = c \/ c \in deleted

\* The backup keeps what it promises: files are only lost to the user's
\* deletions, and the phone gives up only what is stored.
Backup ==
    INSTANCE PhotoBackup WITH
        phone <- {Bytes[a][version[a]] : a \in {b \in Assets : version[b] # 0}},
        pc <- Stored
ImplementsBackup == Backup!Spec

\* When a session becomes "completed", every photo that is on the phone
\* is in the folder, or was deleted there.
CompletedHonest ==
    [][\A s \in Sessions : session'[s] = "completed" /\ session[s] # "completed" =>
          \A a \in Assets : version[a] # 0 => Bytes[a][version[a]] \in Stored \cup deleted]_vars

\* Every run of a backup on the phone comes to an end.
RunEnds == running ~> ~running

\* A file in the folder is not overwritten by an upload of other content.
NothingOverwritten ==
    [][\A p \in DOMAIN file \cap DOMAIN file' : file[p] # Torn => file'[p] = file[p]]_vars
=============================================================================
