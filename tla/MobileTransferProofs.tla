------------------------ MODULE MobileTransferProofs ------------------------
(* Proofs about MobileTransfer. *)
EXTENDS MobileTransfer, TLAPS

USE DEF pcVars, phoneVars, vars

Status == {"none", "paired", "transferring", "completed", "failed", "stopped", "gone"}
Shown == {"none", "paired", "transferring", "transfer_completed", "failed"}
Known == {"idle", "todo", "sending", "sent", "again", "done", "failed"}

\* The bytes of a version that a photo has are contents.
LEMMA ContentOf ==
    ASSUME NEW a \in Assets, NEW v \in 1..Len(Bytes[a])
    PROVE  Bytes[a][v] \in Contents /\ Bytes[a][v] # Torn
BY TransferAssumption

\* update_mobile_transfer_state writes statuses and folder states of the tables only.
LEMMA StatusType ==
    ASSUME session \in [Sessions -> Status], shown \in Shown, NEW s, NEW status \in {"transferring", "completed", "failed", "stopped"},
           SetStatus(s, status)
    PROVE  session' \in [Sessions -> Status] /\ shown' \in Shown
<1>1. status \in Status
    BY DEF Status
<1>2. ShownAfter[status] \in Shown
    <2>1. CASE status = "transferring"  BY <2>1 DEF ShownAfter, Shown
    <2>2. CASE status = "completed"  BY <2>2 DEF ShownAfter, Shown
    <2>3. CASE status = "failed"  BY <2>3 DEF ShownAfter, Shown
    <2>4. CASE status = "stopped"  BY <2>4 DEF ShownAfter, Shown
    <2> QED  BY <2>1, <2>2, <2>3, <2>4
<1> QED
    BY <1>1, <1>2 DEF SetStatus

\* A file that appears keeps the folder well-typed.
LEMMA PutType ==
    ASSUME DOMAIN file \subseteq Paths, \A p \in DOMAIN file : file[p] \in Contents \cup {Torn},
           NEW p \in Paths, NEW c \in Contents \cup {Torn}
    PROVE  /\ DOMAIN Put(p, c) \subseteq Paths
           /\ \A q \in DOMAIN Put(p, c) : Put(p, c)[q] \in Contents \cup {Torn}
BY DEF Put

Uploads == [pc : {"none", "stream", "check", "place", "move", "record"},
            version : Nat, got : Seq(Versions),
            session : Sessions \cup {NoSession}, path : Paths \cup {NoPath}]

\* The changes that handlers make to an upload keep its type.
LEMMA UploadSet ==
    ASSUME upload \in [Assets -> Uploads], NEW a \in Assets
    PROVE  /\ [upload EXCEPT ![a] = Free] \in [Assets -> Uploads]
           /\ \A pc \in {"check", "place", "record"} :
                 [upload EXCEPT ![a].pc = pc] \in [Assets -> Uploads]
           /\ \A p \in Paths : [upload EXCEPT ![a].pc = "move", ![a].path = p] \in [Assets -> Uploads]
           /\ \A got \in Seq(Versions) : [upload EXCEPT ![a].got = got] \in [Assets -> Uploads]
<1> DEFINE u == upload[a]
<1>1. u \in Uploads
    OBVIOUS
<1>2. Free \in Uploads
    BY DEF Free, Uploads
<1>3. \A pc \in {"check", "place", "record"} : [u EXCEPT !.pc = pc] \in Uploads
    BY <1>1 DEF Uploads
<1>4. \A p \in Paths : [u EXCEPT !.pc = "move", !.path = p] \in Uploads
    BY <1>1 DEF Uploads
<1>5. \A got \in Seq(Versions) : [u EXCEPT !.got = got] \in Uploads
    BY <1>1 DEF Uploads
<1> QED
    BY <1>2, <1>3, <1>4, <1>5

\* Chunks are appended to the staged file.
LEMMA Grows ==
    ASSUME upload \in [Assets -> Uploads], NEW a \in Assets, NEW v \in Versions
    PROVE  /\ upload[a].got \o <<v>> \in Seq(Versions)
           /\ upload[a].got \o [i \in 1..Chunks |-> v] \in Seq(Versions)
<1>1. upload[a].got \in Seq(Versions)
    BY DEF Uploads
<1>2. <<v>> \in Seq(Versions) /\ [i \in 1..Chunks |-> v] \in Seq(Versions)
    BY DEF Chunks
<1> QED
    BY <1>1, <1>2

\* The parts of TypeOK.
TypePhone ==
    /\ version \in [Assets -> Nat] /\ \A a \in Assets : version[a] <= Len(Bytes[a])
    /\ phone \in [Assets -> Known]
    /\ running \in BOOLEAN /\ cur \in Sessions \cup {NoSession}
TypeTables ==
    /\ session \in [Sessions -> Status] /\ shown \in Shown
    /\ record \in [Assets -> [version : Versions, path : Paths] \cup {NoRecord}]
    /\ dialog \in Sessions \cup {NoSession}
TypeFiles ==
    /\ DOMAIN file \subseteq Paths
    /\ \A p \in DOMAIN file : file[p] \in Contents \cup {Torn}
    /\ deleted \subseteq Contents
TypeUpload == upload \in [Assets -> Uploads]
TypeFaults == faults \in 0..MaxFaults

\* TypeOK, part by part.
LEMMA TypeParts == TypeOK <=> TypePhone /\ TypeTables /\ TypeFiles /\ TypeUpload /\ TypeFaults
BY DEF TypeOK, TypePhone, TypeTables, TypeFiles, TypeUpload, TypeFaults, Known, Status, Shown, Uploads

\* The bound on faults is kept.
LEMMA FaultStep == ASSUME TypeFaults, Fault PROVE TypeFaults'
BY TransferAssumption DEF TypeFaults, Fault

\* An answer leaves the phone with a known result.
LEMMA AnswerStep ==
    ASSUME phone \in [Assets -> Known], NEW a \in Assets, NEW r \in {"done", "failed"}, Answer(a, r)
    PROVE  phone' \in [Assets -> Known]
BY DEF Answer, Known

\* Versions and paths that are carried along exist.
Ranges ==
    /\ \A a \in Assets : upload[a].pc # "none" => upload[a].version \in 1..Len(Bytes[a])
    /\ \A a \in Assets : upload[a].pc \in {"move", "record"} => upload[a].path \in Paths
    /\ \A a \in Assets : record[a] # NoRecord => record[a].version \in 1..Len(Bytes[a])
    /\ \A a \in Assets : phone[a] # "idle" => version[a] # 0

\* A run of the phone takes all photos it has, which stay as they are while it
\* lasts, and what it waits for is the upload of the present version.
Journey ==
    \A a \in Assets :
        /\ ~running => phone[a] = "idle"
        /\ running => (phone[a] = "idle" <=> version[a] = 0)
        /\ phone[a] \in {"sending", "sent"} /\ upload[a].pc # "none" => upload[a].version = version[a]

\* A file name that was chosen is free until the file is moved there.
Placing ==
    /\ \A a \in Assets : upload[a].pc = "move" =>
            upload[a].path \notin DOMAIN file /\ \E n \in Numbers : upload[a].path = <<NameOf[a], n>>
    /\ \A a, b \in Assets : a # b /\ upload[a].pc = "move" /\ upload[b].pc = "move" => NameOf[a] # NameOf[b]

Safe(p, c) == c \in deleted \/ (p \in DOMAIN file /\ file[p] = c)

\* What is recorded, or about to be, is in its file or was deleted.
Kept ==
    \A a \in Assets :
        /\ record[a] # NoRecord => Safe(record[a].path, Bytes[a][record[a].version])
        /\ upload[a].pc = "record" => Safe(upload[a].path, Bytes[a][upload[a].version])

\* What the phone takes for stored is stored, or was deleted.
DoneStored == \A a \in Assets : phone[a] = "done" => Bytes[a][version[a]] \in Stored \cup deleted

IInv == TypeOK /\ Ranges /\ Journey /\ Placing /\ Kept /\ DoneStored

\* What _resolve_conflict_safe_path makes of an upload.
LEMMA PlaceStep ==
    ASSUME upload \in [Assets -> Uploads], NEW a \in Assets, UploadPlace(a)
    PROVE  \E n \in Numbers, r \in Uploads :
              /\ upload[a].pc = "place" /\ upload' = [upload EXCEPT ![a] = r]
              /\ r.pc = "move" /\ r.version = upload[a].version /\ r.path = <<NameOf[a], n>>
              /\ FirstFree(NameOf[a], n)
<1> DEFINE u == upload[a]
           r(n) == [pc |-> "move", version |-> u.version, got |-> u.got, session |-> u.session,
                    path |-> <<NameOf[a], n>>]
<1>1. PICK n \in Numbers : FirstFree(NameOf[a], n) /\ upload' = [upload EXCEPT ![a] = r(n)]
    BY DEF UploadPlace
<1>2. <<NameOf[a], n>> \in Paths /\ u \in Uploads
    BY DEF Paths
<1>3. r(n) \in Uploads
    BY <1>2 DEF Uploads
<1> QED
    BY <1>1, <1>3 DEF UploadPlace

\* Every step keeps the types.
LEMMA TypeStep ==
    ASSUME TypeOK, Ranges, Next
    PROVE  TypeOK'
<1> DEFINE Good == TypePhone' /\ TypeTables' /\ TypeFiles' /\ TypeUpload' /\ TypeFaults'
<1> USE TransferAssumption
<1>0. TypePhone /\ TypeTables /\ TypeFiles /\ TypeUpload /\ TypeFaults
    BY TypeParts
<1>1. ASSUME NEW s \in Sessions, Pair(s) PROVE Good
    <2>1. TypePhone'
        BY <1>0, <1>1 DEF Pair, TypePhone
    <2>2. TypeTables'
        BY <1>0, <1>1 DEF Pair, TypeTables, Status, Shown
    <2>3. TypeFiles' /\ TypeUpload' /\ TypeFaults'
        BY <1>0, <1>1 DEF Pair, TypeFiles, TypeUpload, TypeFaults
    <2> QED  BY <2>1, <2>2, <2>3
<1>2. ASSUME NEW s \in Sessions, AskToStop(s) PROVE Good
    <2>1. TypeTables'
        BY <1>0, <1>2 DEF AskToStop, TypeTables
    <2>2. TypePhone' /\ TypeFiles' /\ TypeUpload' /\ TypeFaults'
        BY <1>0, <1>2 DEF AskToStop, TypePhone, TypeFiles, TypeUpload, TypeFaults
    <2> QED  BY <2>1, <2>2
<1>3. ASSUME NEW a \in Assets, Edit(a) PROVE Good
    <2>1. TypePhone'
        BY <1>0, <1>3 DEF Edit, TypePhone
    <2>2. TypeTables' /\ TypeFiles' /\ TypeUpload' /\ TypeFaults'
        BY <1>0, <1>3 DEF Edit, TypeTables, TypeFiles, TypeUpload, TypeFaults
    <2> QED  BY <2>1, <2>2
<1>4. ASSUME NEW a \in Assets, StreamStart(a) PROVE Good
    <2>1. TypePhone'
        BY <1>0, <1>4 DEF StreamStart, TypePhone, Known
    <2>2. TypeUpload'
        <3>1. [pc |-> "stream", version |-> version[a], got |-> <<>>, session |-> cur, path |-> NoPath] \in Uploads
            BY <1>0 DEF TypePhone, Uploads
        <3> QED  BY <1>0, <1>4, <3>1 DEF StreamStart, TypeUpload
    <2>3. TypeTables' /\ TypeFiles' /\ TypeFaults'
        BY <1>0, <1>4 DEF StreamStart, TypeTables, TypeFiles, TypeFaults
    <2> QED  BY <2>1, <2>2, <2>3
<1>5. ASSUME NEW a \in Assets, StreamRefused(a) PROVE Good
    <2>1. TypePhone'
        BY <1>0, <1>5 DEF StreamRefused, TypePhone, Known
    <2>2. TypeTables' /\ TypeFiles' /\ TypeUpload' /\ TypeFaults'
        BY <1>0, <1>5 DEF StreamRefused, TypeTables, TypeFiles, TypeUpload, TypeFaults
    <2> QED  BY <2>1, <2>2
<1>6. ASSUME NEW a \in Assets, StreamBody(a) PROVE Good
    <2>1. TypePhone'
        BY <1>0, <1>6 DEF StreamBody, TypePhone, Known
    <2>2. TypeUpload'
        <3>1. version[a] \in Versions
            BY <1>0, <1>6 DEF StreamBody, TypePhone, Ranges, Versions
        <3>2. upload[a].got \o [i \in 1..Chunks |-> version[a]] \in Seq(Versions)
            BY <1>0, <3>1, Grows DEF TypeUpload
        <3>3. upload' = [upload EXCEPT ![a].got = upload[a].got \o [i \in 1..Chunks |-> version[a]]]
            BY <1>0, <1>6 DEF StreamBody, TypeUpload
        <3> QED  BY <1>0, <3>2, <3>3, UploadSet DEF TypeUpload
    <2>3. TypeTables' /\ TypeFiles' /\ TypeFaults'
        BY <1>0, <1>6 DEF StreamBody, TypeTables, TypeFiles, TypeFaults
    <2> QED  BY <2>1, <2>2, <2>3
<1>7. ASSUME NEW a \in Assets, StreamBreaks(a) PROVE Good
    <2>1. TypePhone'
        BY <1>0, <1>7 DEF StreamBreaks, TypePhone, Known, Lost
    <2>2. TypeUpload'
        BY <1>0, <1>7, Grows, UploadSet DEF StreamBreaks, TypeUpload, TypePhone, Ranges, Versions
    <2>3. TypeFaults'
        BY <1>0, <1>7, FaultStep DEF StreamBreaks, TypeFaults
    <2>4. TypeTables' /\ TypeFiles'
        BY <1>0, <1>7 DEF StreamBreaks, TypeTables, TypeFiles
    <2> QED  BY <2>1, <2>2, <2>3, <2>4
<1>8. ASSUME NEW a \in Assets, StreamDiskFull(a) PROVE Good
    <2>1. TypePhone'
        BY <1>0, <1>8 DEF StreamDiskFull, TypePhone, Known
    <2>2. TypeTables'
        BY <1>0, <1>8, StatusType DEF StreamDiskFull, TypeTables, MarkTransferFailed
    <2>3. TypeUpload'
        BY <1>0, <1>8, UploadSet DEF StreamDiskFull, TypeUpload
    <2>4. TypeFaults'
        BY <1>0, <1>8, FaultStep DEF StreamDiskFull, TypeFaults
    <2>5. TypeFiles'
        BY <1>0, <1>8 DEF StreamDiskFull, TypeFiles
    <2> QED  BY <2>1, <2>2, <2>3, <2>4, <2>5
<1>9. ASSUME NEW a \in Assets, GiveUp(a) PROVE Good
    <2>1. TypePhone'
        BY <1>0, <1>9 DEF GiveUp, TypePhone, Known, Lost
    <2>2. TypeFaults'
        BY <1>0, <1>9, FaultStep DEF GiveUp, TypeFaults
    <2>3. TypeTables' /\ TypeFiles' /\ TypeUpload'
        BY <1>0, <1>9 DEF GiveUp, TypeTables, TypeFiles, TypeUpload
    <2> QED  BY <2>1, <2>2, <2>3
<1>10. ASSUME NEW a \in Assets, StreamComplete(a) PROVE Good
    <2>1. TypeUpload'
        BY <1>0, <1>10, UploadSet DEF StreamComplete, TypeUpload, Owns
    <2>2. TypePhone' /\ TypeTables' /\ TypeFiles' /\ TypeFaults'
        BY <1>0, <1>10 DEF StreamComplete, TypePhone, TypeTables, TypeFiles, TypeFaults
    <2> QED  BY <2>1, <2>2
<1>11. ASSUME NEW a \in Assets, UploadCheck(a) PROVE Good
    <2>1. TypePhone'
        BY <1>0, <1>11, AnswerStep DEF UploadCheck, TypePhone
    <2>2. TypeUpload'
        <3>1. \/ upload' = [upload EXCEPT ![a] = Free]
              \/ upload' = [upload EXCEPT ![a].pc = "place"]
            BY <1>11 DEF UploadCheck
        <3>2. /\ [upload EXCEPT ![a] = Free] \in [Assets -> Uploads]
              /\ [upload EXCEPT ![a].pc = "place"] \in [Assets -> Uploads]
            BY <1>0, UploadSet DEF TypeUpload
        <3> QED  BY <3>1, <3>2 DEF TypeUpload
    <2>3. TypeTables' /\ TypeFiles' /\ TypeFaults'
        BY <1>0, <1>11 DEF UploadCheck, TypeTables, TypeFiles, TypeFaults
    <2> QED  BY <2>1, <2>2, <2>3
<1>12. ASSUME NEW a \in Assets, UploadPlace(a) PROVE Good
    <2>1. TypeUpload'
        BY <1>0, <1>12, PlaceStep DEF TypeUpload
    <2>2. TypePhone' /\ TypeTables' /\ TypeFiles' /\ TypeFaults'
        BY <1>0, <1>12 DEF UploadPlace, TypePhone, TypeTables, TypeFiles, TypeFaults
    <2> QED  BY <2>1, <2>2
<1>13. ASSUME NEW a \in Assets, UploadMove(a) PROVE Good
    <2>1. TypeFiles'
        BY <1>0, <1>13, PutType, ContentOf DEF UploadMove, TypeFiles, Ranges
    <2>2. TypeUpload'
        BY <1>0, <1>13, UploadSet DEF UploadMove, TypeUpload
    <2>3. TypePhone' /\ TypeTables' /\ TypeFaults'
        BY <1>0, <1>13 DEF UploadMove, TypePhone, TypeTables, TypeFaults
    <2> QED  BY <2>1, <2>2, <2>3
<1>14. ASSUME NEW a \in Assets, UploadFails(a) PROVE Good
    <2>1. TypePhone'
        BY <1>0, <1>14, AnswerStep DEF UploadFails, TypePhone
    <2>2. TypeTables'
        BY <1>0, <1>14, StatusType DEF UploadFails, TypeTables, MarkTransferFailed
    <2>3. TypeFiles'
        BY <1>0, <1>14, PutType, ContentOf DEF UploadFails, TypeFiles, Ranges
    <2>4. TypeUpload'
        BY <1>0, <1>14, UploadSet DEF UploadFails, TypeUpload
    <2>5. TypeFaults'
        BY <1>0, <1>14, FaultStep DEF UploadFails, TypeFaults
    <2> QED  BY <2>1, <2>2, <2>3, <2>4, <2>5
<1>15. ASSUME NEW a \in Assets, UploadRecord(a) PROVE Good
    <2>1. TypePhone'
        BY <1>0, <1>15, AnswerStep DEF UploadRecord, TypePhone
    <2>2. TypeTables'
        <3>1. upload[a].version \in Versions /\ upload[a].path \in Paths
            BY <1>15 DEF UploadRecord, Ranges, Versions
        <3>2. [version |-> upload[a].version, path |-> upload[a].path] \in [version : Versions, path : Paths]
            BY <3>1
        <3> QED  BY <1>0, <1>15, <3>2 DEF UploadRecord, UpsertRecord, TypeTables
    <2>3. TypeUpload'
        BY <1>0, <1>15, UploadSet DEF UploadRecord, TypeUpload
    <2>4. TypeFiles' /\ TypeFaults'
        BY <1>0, <1>15 DEF UploadRecord, TypeFiles, TypeFaults
    <2> QED  BY <2>1, <2>2, <2>3, <2>4
<1>16. ASSUME Start PROVE Good
    <2>1. TypePhone'
        BY <1>0, <1>16 DEF Start, TypePhone, Known
    <2>2. TypeTables'
        BY <1>0, <1>16, StatusType DEF Start, TypeTables
    <2>3. TypeFaults'
        BY <1>0, <1>16, FaultStep DEF Start, TypeFaults
    <2>4. TypeFiles' /\ TypeUpload'
        BY <1>0, <1>16 DEF Start, TypeFiles, TypeUpload
    <2> QED  BY <2>1, <2>2, <2>3, <2>4
<1>17. ASSUME Complete PROVE Good
    <2>1. TypePhone'
        <3>1. \A a \in Assets : Len(Bytes[a]) \in Nat
            OBVIOUS
        <3>2. phone' \in [Assets -> Known] /\ running' = FALSE /\ cur' = cur
            BY <1>17 DEF Complete, Known
        <3>3. \/ version' = version
              \/ \E remove \in BOOLEAN :
                    version' = [a \in Assets |-> IF remove /\ phone[a] = "done" THEN 0 ELSE version[a]]
            BY <1>17 DEF Complete
        <3>4. version' \in [Assets -> Nat]
            BY <1>0, <3>3 DEF TypePhone
        <3>5. \A a \in Assets : version'[a] \in {0, version[a]}
            BY <1>0, <3>3 DEF TypePhone
        <3>6. \A a \in Assets : version'[a] <= Len(Bytes[a])
            BY <1>0, <3>1, <3>5 DEF TypePhone
        <3> QED  BY <1>0, <3>2, <3>4, <3>6 DEF TypePhone
    <2>2. TypeTables'
        BY <1>0, <1>17, StatusType DEF Complete, TypeTables, Ends, EndStatus
    <2>3. TypeFiles' /\ TypeUpload' /\ TypeFaults'
        BY <1>0, <1>17 DEF Complete, TypeFiles, TypeUpload, TypeFaults
    <2> QED  BY <2>1, <2>2, <2>3
<1>18. ASSUME Stop PROVE Good
    <2>1. TypePhone'
        BY <1>0, <1>18 DEF Stop, TypePhone, Known
    <2>2. TypeTables'
        BY <1>0, <1>18, StatusType DEF Stop, TypeTables, Ends
    <2>3. TypeFaults'
        BY <1>0, <1>18, FaultStep DEF Stop, TypeFaults
    <2>4. TypeFiles' /\ TypeUpload'
        BY <1>0, <1>18 DEF Stop, TypeFiles, TypeUpload
    <2> QED  BY <2>1, <2>2, <2>3, <2>4
<1>19. ASSUME NEW a \in Assets, Exists(a) PROVE Good
    <2>1. TypePhone'
        BY <1>0, <1>19 DEF Exists, TypePhone, Known
    <2>2. TypeTables' /\ TypeFiles' /\ TypeUpload' /\ TypeFaults'
        BY <1>0, <1>19 DEF Exists, TypeTables, TypeFiles, TypeUpload, TypeFaults
    <2> QED  BY <2>1, <2>2
<1>20. ASSUME Abort PROVE Good
    <2>1. TypePhone'
        BY <1>0, <1>20 DEF Abort, TypePhone, Known
    <2>2. TypeFaults'
        BY <1>0, <1>20, FaultStep DEF Abort, TypeFaults
    <2>3. TypeTables' /\ TypeFiles' /\ TypeUpload'
        BY <1>0, <1>20 DEF Abort, TypeTables, TypeFiles, TypeUpload
    <2> QED  BY <2>1, <2>2, <2>3
<1>21. ASSUME AnswerToStop PROVE Good
    <2>1. TypeTables'
        BY <1>0, <1>21, StatusType DEF AnswerToStop, TypeTables
    <2>2. TypeFaults'
        BY <1>0, <1>21, FaultStep DEF AnswerToStop, TypeFaults
    <2>3. TypePhone' /\ TypeFiles' /\ TypeUpload'
        BY <1>0, <1>21 DEF AnswerToStop, TypePhone, TypeFiles, TypeUpload
    <2> QED  BY <2>1, <2>2, <2>3
<1>22. ASSUME RemoveFolder PROVE Good
    <2>1. TypeTables'
        BY <1>0, <1>22 DEF RemoveFolder, TypeTables, Status, Shown
    <2>2. TypeFaults'
        BY <1>0, <1>22, FaultStep DEF RemoveFolder, TypeFaults
    <2>3. TypePhone' /\ TypeFiles' /\ TypeUpload'
        BY <1>0, <1>22 DEF RemoveFolder, TypePhone, TypeFiles, TypeUpload
    <2> QED  BY <2>1, <2>2, <2>3
<1>23. ASSUME NEW p \in DOMAIN file, UserDeletes(p) PROVE Good
    <2>1. TypeFiles'
        BY <1>0, <1>23 DEF UserDeletes, TypeFiles
    <2>2. TypeFaults'
        BY <1>0, <1>23, FaultStep DEF UserDeletes, TypeFaults
    <2>3. TypePhone' /\ TypeTables' /\ TypeUpload'
        BY <1>0, <1>23 DEF UserDeletes, TypePhone, TypeTables, TypeUpload
    <2> QED  BY <2>1, <2>2, <2>3
<1>24. ASSUME Crash PROVE Good
    <2>1. TypePhone'
        BY <1>0, <1>24 DEF Crash, TypePhone, Known
    <2>2. TypeTables'
        BY <1>0, <1>24 DEF Crash, TypeTables
    <2>3. TypeFiles'
        BY <1>0, <1>24, PutType DEF Crash, TypeFiles, Ranges
    <2>4. TypeUpload'
        BY <1>0, <1>24 DEF Crash, TypeUpload, Uploads, Free
    <2>5. TypeFaults'
        BY <1>0, <1>24, FaultStep DEF Crash, TypeFaults
    <2> QED  BY <2>1, <2>2, <2>3, <2>4, <2>5
<1>25. Good
    BY <1>1, <1>2, <1>3, <1>4, <1>5, <1>6, <1>7, <1>8, <1>9, <1>10, <1>11, <1>12, <1>13, <1>14,
       <1>15, <1>16, <1>17, <1>18, <1>19, <1>20, <1>21, <1>22, <1>23, <1>24
    DEF Next, PhoneSends, Handler, Posted
<1> QED
    BY <1>25 DEF TypeOK, TypePhone, TypeTables, TypeFiles, TypeUpload, TypeFaults, Known, Status, Shown, Uploads

\* An upload whose checks are made is over, or looks for a name.
CheckFails(a) == upload' = [upload EXCEPT ![a] = Free] /\ Answer(a, "failed")
CheckFinds(a) ==
    Held(Bytes[a][upload[a].version]) /\ upload' = [upload EXCEPT ![a] = Free] /\ Answer(a, "done")
CheckPasses(a) == upload' = [upload EXCEPT ![a].pc = "place"] /\ UNCHANGED phone

\* The three outcomes of handle_asset_upload before it looks for a name.
LEMMA CheckStep ==
    ASSUME NEW a \in Assets, UploadCheck(a)
    PROVE  /\ upload[a].pc = "check" /\ UNCHANGED <<version, running, cur, session, record, file, deleted>>
           /\ CheckFails(a) \/ CheckFinds(a) \/ CheckPasses(a)
BY DEF UploadCheck, CheckFails, CheckFinds, CheckPasses

\* A step of one handler leaves the other uploads alone.
LEMMA PcStep ==
    ASSUME upload \in [Assets -> Uploads], NEW a \in Assets, NEW pc, upload' = [upload EXCEPT ![a].pc = pc]
    PROVE  /\ \A b \in Assets \ {a} : upload'[b] = upload[b]
           /\ upload'[a].pc = pc /\ upload'[a].version = upload[a].version /\ upload'[a].path = upload[a].path
BY DEF Uploads

\* The name that is chosen is a path of the folder, and nothing else changes.
LEMMA PlacePathStep ==
    ASSUME upload \in [Assets -> Uploads], Ranges, NEW a \in Assets, NEW n \in Numbers, NEW r \in Uploads,
           upload' = [upload EXCEPT ![a] = r], upload[a].pc = "place",
           r.pc = "move", r.version = upload[a].version, r.path = <<NameOf[a], n>>
    PROVE  \A b \in Assets :
             /\ upload'[b].pc # "none" => upload[b].pc # "none" /\ upload'[b].version = upload[b].version
             /\ upload'[b].pc \in {"move", "record"} => upload'[b].path \in Paths
<1>1. upload'[a] = r /\ \A b \in Assets \ {a} : upload'[b] = upload[b]
    OBVIOUS
<1>2. r.path \in Paths
    BY DEF Paths
<1> QED
    BY <1>1, <1>2 DEF Ranges

\* An upload that goes on keeps its version and path.
LEMMA PassPathStep ==
    ASSUME upload \in [Assets -> Uploads], Ranges, NEW a \in Assets,
           upload' = [upload EXCEPT ![a].pc = "place"], upload[a].pc = "check"
    PROVE  \A b \in Assets :
             /\ upload'[b].pc # "none" => upload[b].pc # "none" /\ upload'[b].version = upload[b].version
             /\ upload'[b].pc \in {"move", "record"} => upload'[b].path \in Paths
BY PcStep DEF Ranges

\* Steps of one upload after which Ranges and Placing are as before.
LEMMA RangesSame ==
    ASSUME Ranges, UNCHANGED <<phone, version, record>>,
           \A b \in Assets :
              /\ upload'[b].pc # "none" => upload[b].pc # "none" /\ upload'[b].version = upload[b].version
              /\ upload'[b].pc \in {"move", "record"} => upload'[b].path \in Paths
    PROVE  Ranges'
BY DEF Ranges

\* An upload that has placed its file is the only one with that name.
LEMMA PlacingOne ==
    ASSUME Placing, UNCHANGED file, NEW a \in Assets, NEW n \in Numbers,
           \A b \in Assets \ {a} : upload'[b] = upload[b] /\ (upload[b].pc = "move" => NameOf[b] # NameOf[a]),
           upload'[a].path = <<NameOf[a], n>>, <<NameOf[a], n>> \notin DOMAIN file
    PROVE  Placing'
BY DEF Placing

\* Every step keeps the versions and paths that are carried along.
LEMMA RangesStep ==
    ASSUME TypeOK, Ranges, Journey, Next
    PROVE  Ranges'
<1> USE TransferAssumption DEF TypeOK, Ranges, Journey, Free
<1>1. ASSUME NEW s \in Sessions, Pair(s) PROVE Ranges'
    BY <1>1 DEF Pair
<1>2. ASSUME NEW s \in Sessions, AskToStop(s) PROVE Ranges'
    BY <1>2 DEF AskToStop
<1>3. ASSUME NEW a \in Assets, Edit(a) PROVE Ranges'
    BY <1>3 DEF Edit
<1>4. ASSUME NEW a \in Assets, StreamStart(a) PROVE Ranges'
    BY <1>4 DEF StreamStart
<1>5. ASSUME NEW a \in Assets, StreamRefused(a) PROVE Ranges'
    BY <1>5 DEF StreamRefused
<1>6. ASSUME NEW a \in Assets, StreamBody(a) PROVE Ranges'
    BY <1>6 DEF StreamBody
<1>7. ASSUME NEW a \in Assets, StreamBreaks(a) PROVE Ranges'
    BY <1>7 DEF StreamBreaks, Lost
<1>8. ASSUME NEW a \in Assets, StreamDiskFull(a) PROVE Ranges'
    BY <1>8 DEF StreamDiskFull
<1>9. ASSUME NEW a \in Assets, GiveUp(a) PROVE Ranges'
    BY <1>9 DEF GiveUp, Lost
<1>10. ASSUME NEW a \in Assets, StreamComplete(a) PROVE Ranges'
    BY <1>10 DEF StreamComplete, Owns
<1>11. ASSUME NEW a \in Assets, UploadCheck(a) PROVE Ranges'
    <2>1. CASE CheckFails(a)
        BY <1>11, <2>1, CheckStep DEF CheckFails, Answer
    <2>2. CASE CheckFinds(a)
        BY <1>11, <2>2, CheckStep DEF CheckFinds, Answer
    <2>3. CASE CheckPasses(a)
        <3>1. \A b \in Assets :
                 /\ upload'[b].pc # "none" => upload[b].pc # "none" /\ upload'[b].version = upload[b].version
                 /\ upload'[b].pc \in {"move", "record"} => upload'[b].path \in Paths
            BY <1>11, <2>3, CheckStep, PassPathStep DEF CheckPasses, Uploads
        <3>2. UNCHANGED <<phone, version, record>>
            BY <1>11, <2>3, CheckStep DEF CheckPasses
        <3> QED  BY <3>1, <3>2, RangesSame
    <2> QED  BY <1>11, <2>1, <2>2, <2>3, CheckStep
<1>12. ASSUME NEW a \in Assets, UploadPlace(a) PROVE Ranges'
    <2>1. PICK n \in Numbers, r \in Uploads :
             /\ upload' = [upload EXCEPT ![a] = r]
             /\ r.pc = "move" /\ r.version = upload[a].version /\ r.path = <<NameOf[a], n>>
             /\ upload[a].pc = "place" /\ FirstFree(NameOf[a], n)
        BY <1>12, PlaceStep DEF Uploads
    <2>2. UNCHANGED <<version, phone, running, record, file>>
        BY <1>12 DEF UploadPlace
    <2>3. \A b \in Assets :
             /\ upload'[b].pc # "none" => upload[b].pc # "none" /\ upload'[b].version = upload[b].version
             /\ upload'[b].pc \in {"move", "record"} => upload'[b].path \in Paths
        BY <2>1, PlacePathStep DEF Uploads
    <2> QED  BY <1>12, <2>2, <2>3, RangesSame DEF UploadPlace
<1>13. ASSUME NEW a \in Assets, UploadMove(a) PROVE Ranges'
    BY <1>13 DEF UploadMove
<1>14. ASSUME NEW a \in Assets, UploadFails(a) PROVE Ranges'
    BY <1>14 DEF UploadFails, Answer
<1>15. ASSUME NEW a \in Assets, UploadRecord(a) PROVE Ranges'
    BY <1>15 DEF UploadRecord, Answer, UpsertRecord
<1>16. CASE Start
    BY <1>16 DEF Start
<1>17. CASE Complete
    BY <1>17 DEF Complete
<1>18. CASE Stop
    BY <1>18 DEF Stop
<1>19. ASSUME NEW a \in Assets, Exists(a) PROVE Ranges'
    BY <1>19 DEF Exists
<1>20. CASE Abort
    BY <1>20 DEF Abort
<1>21. CASE AnswerToStop
    BY <1>21 DEF AnswerToStop
<1>22. CASE RemoveFolder
    BY <1>22 DEF RemoveFolder
<1>23. ASSUME NEW p \in DOMAIN file, UserDeletes(p) PROVE Ranges'
    BY <1>23 DEF UserDeletes
<1>24. CASE Crash
    BY <1>24 DEF Crash
<1> QED
    BY <1>1, <1>2, <1>3, <1>4, <1>5, <1>6, <1>7, <1>8, <1>9, <1>10, <1>11, <1>12, <1>13,
       <1>14, <1>15, <1>16, <1>17, <1>18, <1>19, <1>20, <1>21, <1>22, <1>23, <1>24
    DEF Next, PhoneSends, Handler, Posted

\* Every step keeps the relation of the phone's run, its photos and their uploads.
LEMMA JourneyStep ==
    ASSUME TypeOK, Ranges, Journey, Next
    PROVE  Journey'
<1> USE TransferAssumption DEF TypeOK, Ranges, Journey, Free
<1>1. ASSUME NEW s \in Sessions, Pair(s) PROVE Journey'
    BY <1>1 DEF Pair
<1>2. ASSUME NEW s \in Sessions, AskToStop(s) PROVE Journey'
    BY <1>2 DEF AskToStop
<1>3. ASSUME NEW a \in Assets, Edit(a) PROVE Journey'
    BY <1>3 DEF Edit
<1>4. ASSUME NEW a \in Assets, StreamStart(a) PROVE Journey'
    BY <1>4 DEF StreamStart
<1>5. ASSUME NEW a \in Assets, StreamRefused(a) PROVE Journey'
    BY <1>5 DEF StreamRefused
<1>6. ASSUME NEW a \in Assets, StreamBody(a) PROVE Journey'
    BY <1>6 DEF StreamBody
<1>7. ASSUME NEW a \in Assets, StreamBreaks(a) PROVE Journey'
    BY <1>7 DEF StreamBreaks, Lost
<1>8. ASSUME NEW a \in Assets, StreamDiskFull(a) PROVE Journey'
    BY <1>8 DEF StreamDiskFull
<1>9. ASSUME NEW a \in Assets, GiveUp(a) PROVE Journey'
    BY <1>9 DEF GiveUp, Lost
<1>10. ASSUME NEW a \in Assets, StreamComplete(a) PROVE Journey'
    BY <1>10 DEF StreamComplete, Owns
<1>11. ASSUME NEW a \in Assets, UploadCheck(a) PROVE Journey'
    <2>1. CASE CheckFails(a)
        BY <1>11, <2>1, CheckStep DEF CheckFails, Answer
    <2>2. CASE CheckFinds(a)
        BY <1>11, <2>2, CheckStep DEF CheckFinds, Answer
    <2>3. CASE CheckPasses(a)
        BY <1>11, <2>3, CheckStep DEF CheckPasses
    <2> QED  BY <1>11, <2>1, <2>2, <2>3, CheckStep
<1>12. ASSUME NEW a \in Assets, UploadPlace(a) PROVE Journey'
    BY <1>12 DEF UploadPlace
<1>13. ASSUME NEW a \in Assets, UploadMove(a) PROVE Journey'
    BY <1>13 DEF UploadMove
<1>14. ASSUME NEW a \in Assets, UploadFails(a) PROVE Journey'
    BY <1>14 DEF UploadFails, Answer
<1>15. ASSUME NEW a \in Assets, UploadRecord(a) PROVE Journey'
    BY <1>15 DEF UploadRecord, Answer
<1>16. CASE Start
    BY <1>16 DEF Start
<1>17. CASE Complete
    BY <1>17 DEF Complete
<1>18. CASE Stop
    BY <1>18 DEF Stop
<1>19. ASSUME NEW a \in Assets, Exists(a) PROVE Journey'
    BY <1>19 DEF Exists
<1>20. CASE Abort
    BY <1>20 DEF Abort
<1>21. CASE AnswerToStop
    BY <1>21 DEF AnswerToStop
<1>22. CASE RemoveFolder
    BY <1>22 DEF RemoveFolder
<1>23. ASSUME NEW p \in DOMAIN file, UserDeletes(p) PROVE Journey'
    BY <1>23 DEF UserDeletes
<1>24. CASE Crash
    BY <1>24 DEF Crash
<1> QED
    BY <1>1, <1>2, <1>3, <1>4, <1>5, <1>6, <1>7, <1>8, <1>9, <1>10, <1>11, <1>12, <1>13,
       <1>14, <1>15, <1>16, <1>17, <1>18, <1>19, <1>20, <1>21, <1>22, <1>23, <1>24
    DEF Next, PhoneSends, Handler, Posted

\* Every step keeps the chosen names free, when uploads of one name do not overlap.
LEMMA PlacingStep ==
    ASSUME Overlap = FALSE, TypeOK, Ranges, Placing, Next
    PROVE  Placing'
<1> USE TransferAssumption DEF TypeOK, Ranges, Placing, Free
<1>1. ASSUME NEW s \in Sessions, Pair(s) PROVE Placing'
    BY <1>1 DEF Pair
<1>2. ASSUME NEW s \in Sessions, AskToStop(s) PROVE Placing'
    BY <1>2 DEF AskToStop
<1>3. ASSUME NEW a \in Assets, Edit(a) PROVE Placing'
    BY <1>3 DEF Edit
<1>4. ASSUME NEW a \in Assets, StreamStart(a) PROVE Placing'
    BY <1>4 DEF StreamStart
<1>5. ASSUME NEW a \in Assets, StreamRefused(a) PROVE Placing'
    BY <1>5 DEF StreamRefused
<1>6. ASSUME NEW a \in Assets, StreamBody(a) PROVE Placing'
    BY <1>6 DEF StreamBody
<1>7. ASSUME NEW a \in Assets, StreamBreaks(a) PROVE Placing'
    BY <1>7 DEF StreamBreaks
<1>8. ASSUME NEW a \in Assets, StreamDiskFull(a) PROVE Placing'
    BY <1>8 DEF StreamDiskFull
<1>9. ASSUME NEW a \in Assets, GiveUp(a) PROVE Placing'
    BY <1>9 DEF GiveUp
<1>10. ASSUME NEW a \in Assets, StreamComplete(a) PROVE Placing'
    BY <1>10 DEF StreamComplete, Owns
<1>11. ASSUME NEW a \in Assets, UploadCheck(a) PROVE Placing'
    <2>1. CASE CheckFails(a)
        BY <1>11, <2>1, CheckStep DEF CheckFails, Answer
    <2>2. CASE CheckFinds(a)
        BY <1>11, <2>2, CheckStep DEF CheckFinds, Answer
    <2>3. CASE CheckPasses(a)
        BY <1>11, <2>3, CheckStep DEF CheckPasses
    <2> QED  BY <1>11, <2>1, <2>2, <2>3, CheckStep
<1>12. ASSUME NEW a \in Assets, UploadPlace(a) PROVE Placing'
    <2>1. PICK n \in Numbers, r \in Uploads :
             /\ upload' = [upload EXCEPT ![a] = r]
             /\ r.pc = "move" /\ r.version = upload[a].version /\ r.path = <<NameOf[a], n>>
             /\ upload[a].pc = "place" /\ FirstFree(NameOf[a], n)
        BY <1>12, PlaceStep DEF Uploads
    <2>2. UNCHANGED <<version, phone, running, record, file>>
        BY <1>12 DEF UploadPlace
    <2>3. \A b \in Assets \ {a} : upload'[b] = upload[b] /\ (upload[b].pc = "move" => NameOf[b] # NameOf[a])
        BY <1>12, <2>1 DEF UploadPlace
    <2>4. upload'[a].path = <<NameOf[a], n>> /\ <<NameOf[a], n>> \notin DOMAIN file
        BY <2>1 DEF FirstFree
    <2> QED  BY <2>2, <2>3, <2>4, PlacingOne
<1>13. ASSUME NEW a \in Assets, UploadMove(a) PROVE Placing'
    BY <1>13 DEF UploadMove, Put
<1>14. ASSUME NEW a \in Assets, UploadFails(a) PROVE Placing'
    <2>1. upload' = [upload EXCEPT ![a] = Free]
        BY <1>14 DEF UploadFails
    <2>2. CASE file' = file
        BY <1>14, <2>1, <2>2
    <2>3. CASE \E c : file' = Put(upload[a].path, c)
        <3>1. DOMAIN file' = DOMAIN file \cup {upload[a].path} /\ upload[a].pc = "move"
            BY <1>14, <2>3 DEF UploadFails, Put
        <3>2. \A b \in Assets \ {a} : upload[b].pc = "move" => upload[b].path # upload[a].path
            BY <3>1
        <3> QED  BY <2>1, <3>1, <3>2
    <2> QED  BY <1>14, <2>2, <2>3 DEF UploadFails
<1>15. ASSUME NEW a \in Assets, UploadRecord(a) PROVE Placing'
    BY <1>15 DEF UploadRecord
<1>16. CASE Start
    BY <1>16 DEF Start
<1>17. CASE Complete
    BY <1>17 DEF Complete
<1>18. CASE Stop
    BY <1>18 DEF Stop
<1>19. ASSUME NEW a \in Assets, Exists(a) PROVE Placing'
    BY <1>19 DEF Exists
<1>20. CASE Abort
    BY <1>20 DEF Abort
<1>21. CASE AnswerToStop
    BY <1>21 DEF AnswerToStop
<1>22. CASE RemoveFolder
    BY <1>22 DEF RemoveFolder
<1>23. ASSUME NEW p \in DOMAIN file, UserDeletes(p) PROVE Placing'
    BY <1>23 DEF UserDeletes
<1>24. CASE Crash
    BY <1>24 DEF Crash, Put
<1> QED
    BY <1>1, <1>2, <1>3, <1>4, <1>5, <1>6, <1>7, <1>8, <1>9, <1>10, <1>11, <1>12, <1>13,
       <1>14, <1>15, <1>16, <1>17, <1>18, <1>19, <1>20, <1>21, <1>22, <1>23, <1>24
    DEF Next, PhoneSends, Handler, Posted

-----------------------------------------------------------------------------
(* What is stored stays, or is deleted by the user. *)

SafeKept == \A p \in Paths, c \in Contents : Safe(p, c) => Safe(p, c)'
StoredKept == \A c \in Contents : c \in Stored \cup deleted => c \in Stored' \cup deleted'

\* A file under a free name overwrites nothing.
LEMMA PutKeeps ==
    ASSUME NEW p, p \notin DOMAIN file, NEW c, file' = Put(p, c), deleted' = deleted
    PROVE  SafeKept /\ StoredKept /\ Safe(p, c)' /\ Stored' = Stored \cup ({c} \cap Contents)
<1>1. /\ DOMAIN file' = DOMAIN file \cup {p} /\ file'[p] = c
      /\ \A q \in DOMAIN file : q # p /\ file'[q] = file[q]
    BY DEF Put
<1>2. Stored' = Stored \cup ({c} \cap Contents)
    BY <1>1 DEF Stored
<1> QED
    BY <1>1, <1>2 DEF SafeKept, StoredKept, Safe

\* A deletion removes one file, and its content is noted as deleted.
LEMMA DeleteKeeps ==
    ASSUME NEW p \in DOMAIN file, file' = [q \in DOMAIN file \ {p} |-> file[q]],
           deleted' = deleted \cup ({file[p]} \ {Torn})
    PROVE  SafeKept /\ StoredKept /\ Stored' \subseteq Stored /\ Stored \ {file[p]} \subseteq Stored'
<1>1. DOMAIN file' = DOMAIN file \ {p} /\ \A q \in DOMAIN file' : file'[q] = file[q]
    OBVIOUS
<1>2. Stored' \subseteq Stored /\ Stored \ {file[p]} \subseteq Stored'
    BY <1>1 DEF Stored
<1>3. Torn \notin Contents
    BY TransferAssumption
<1> QED
    BY <1>1, <1>2, <1>3 DEF SafeKept, StoredKept, Safe

FilesSame == UNCHANGED <<file, deleted>>

\* Steps that touch no file keep what is stored.
LEMMA SameKeeps == ASSUME FilesSame PROVE SafeKept /\ StoredKept /\ Stored' = Stored
BY DEF FilesSame, SafeKept, StoredKept, Safe, Stored

\* A file that an upload moves has a name that is free.
LEMMA FreshMove ==
    ASSUME Placing, NEW a \in Assets, upload[a].pc = "move"
    PROVE  upload[a].path \notin DOMAIN file
BY DEF Placing

\* The steps that touch the files.
LEMMA FileSteps ==
    ASSUME Next
    PROVE  \/ FilesSame
           \/ \E a \in Assets : UploadMove(a) \/ UploadFails(a)
           \/ Crash \/ \E p \in DOMAIN file : UserDeletes(p)
<1> DEFINE Goal == FilesSame
<1> USE DEF FilesSame
<1>1. ASSUME NEW s \in Sessions, Pair(s) PROVE Goal
    BY <1>1 DEF Pair
<1>2. ASSUME NEW s \in Sessions, AskToStop(s) PROVE Goal
    BY <1>2 DEF AskToStop
<1>3. ASSUME NEW a \in Assets, Edit(a) PROVE Goal
    BY <1>3 DEF Edit
<1>4. ASSUME NEW a \in Assets, StreamStart(a) PROVE Goal
    BY <1>4 DEF StreamStart
<1>5. ASSUME NEW a \in Assets, StreamRefused(a) PROVE Goal
    BY <1>5 DEF StreamRefused
<1>6. ASSUME NEW a \in Assets, StreamBody(a) PROVE Goal
    BY <1>6 DEF StreamBody
<1>7. ASSUME NEW a \in Assets, StreamBreaks(a) PROVE Goal
    BY <1>7 DEF StreamBreaks
<1>8. ASSUME NEW a \in Assets, StreamDiskFull(a) PROVE Goal
    BY <1>8 DEF StreamDiskFull
<1>9. ASSUME NEW a \in Assets, GiveUp(a) PROVE Goal
    BY <1>9 DEF GiveUp
<1>10. ASSUME NEW a \in Assets, StreamComplete(a) PROVE Goal
    BY <1>10 DEF StreamComplete
<1>11. ASSUME NEW a \in Assets, UploadCheck(a) PROVE Goal
    BY <1>11 DEF UploadCheck
<1>12. ASSUME NEW a \in Assets, UploadPlace(a) PROVE Goal
    BY <1>12 DEF UploadPlace
<1>13. ASSUME NEW a \in Assets, UploadRecord(a) PROVE Goal
    BY <1>13 DEF UploadRecord
<1>14. ASSUME Start PROVE Goal
    BY <1>14 DEF Start
<1>15. ASSUME Complete PROVE Goal
    BY <1>15 DEF Complete
<1>16. ASSUME Stop PROVE Goal
    BY <1>16 DEF Stop
<1>17. ASSUME NEW a \in Assets, Exists(a) PROVE Goal
    BY <1>17 DEF Exists
<1>18. ASSUME Abort PROVE Goal
    BY <1>18 DEF Abort
<1>19. ASSUME AnswerToStop PROVE Goal
    BY <1>19 DEF AnswerToStop
<1>20. ASSUME RemoveFolder PROVE Goal
    BY <1>20 DEF RemoveFolder
<1> QED
    BY <1>1, <1>2, <1>3, <1>4, <1>5, <1>6, <1>7, <1>8, <1>9, <1>10, <1>11, <1>12, <1>13,
       <1>14, <1>15, <1>16, <1>17, <1>18, <1>19, <1>20
    DEF Next, PhoneSends, Handler, Posted

\* No step loses a file but a deletion by the user.
LEMMA FilesStep ==
    ASSUME Placing, Next
    PROVE  SafeKept /\ StoredKept
<1>1. CASE FilesSame
    BY <1>1, SameKeeps
<1>2. ASSUME NEW a \in Assets, UploadMove(a) PROVE SafeKept /\ StoredKept
    BY <1>2, PutKeeps, FreshMove DEF UploadMove
<1>3. ASSUME NEW a \in Assets, UploadFails(a) PROVE SafeKept /\ StoredKept
    <2>1. /\ upload[a].pc = "move" /\ deleted' = deleted
          /\ file' = file \/ \E c : file' = Put(upload[a].path, c)
        BY <1>3 DEF UploadFails
    <2> QED  BY <2>1, PutKeeps, SameKeeps, FreshMove DEF FilesSame
<1>4. CASE Crash
    <2>1. CASE FilesSame
        BY <2>1, SameKeeps
    <2>2. ASSUME NEW a \in Assets, upload[a].pc = "move", file' = Put(upload[a].path, Torn)
          PROVE  SafeKept /\ StoredKept
        BY <1>4, <2>2, PutKeeps, FreshMove DEF Crash
    <2> QED  BY <1>4, <2>1, <2>2 DEF Crash, FilesSame
<1>5. ASSUME NEW p \in DOMAIN file, UserDeletes(p) PROVE SafeKept /\ StoredKept
    BY <1>5, DeleteKeeps DEF UserDeletes
<1> QED
    BY <1>1, <1>2, <1>3, <1>4, <1>5, FileSteps

-----------------------------------------------------------------------------
(* Records. *)

RecordsSame ==
    \A a \in Assets : /\ record'[a] # NoRecord => record'[a] = record[a]
                      /\ upload'[a].pc = "record" => /\ upload[a].pc = "record" /\ upload'[a].path = upload[a].path
                                                     /\ upload'[a].version = upload[a].version

\* The steps that touch the records and the uploads about to be recorded.
LEMMA RecordSteps ==
    ASSUME TypeOK, Next
    PROVE  RecordsSame \/ \E a \in Assets : UploadMove(a) \/ UploadRecord(a)
<1> DEFINE Goal == RecordsSame
<1> USE DEF TypeOK, RecordsSame, Free
<1>1. ASSUME NEW s \in Sessions, Pair(s) PROVE Goal
    BY <1>1 DEF Pair
<1>2. ASSUME NEW s \in Sessions, AskToStop(s) PROVE Goal
    BY <1>2 DEF AskToStop
<1>3. ASSUME NEW a \in Assets, Edit(a) PROVE Goal
    BY <1>3 DEF Edit
<1>4. ASSUME NEW a \in Assets, StreamStart(a) PROVE Goal
    BY <1>4 DEF StreamStart
<1>5. ASSUME NEW a \in Assets, StreamRefused(a) PROVE Goal
    BY <1>5 DEF StreamRefused
<1>6. ASSUME NEW a \in Assets, StreamBody(a) PROVE Goal
    BY <1>6 DEF StreamBody
<1>7. ASSUME NEW a \in Assets, StreamBreaks(a) PROVE Goal
    BY <1>7 DEF StreamBreaks
<1>8. ASSUME NEW a \in Assets, StreamDiskFull(a) PROVE Goal
    BY <1>8 DEF StreamDiskFull
<1>9. ASSUME NEW a \in Assets, GiveUp(a) PROVE Goal
    BY <1>9 DEF GiveUp
<1>10. ASSUME NEW a \in Assets, StreamComplete(a) PROVE Goal
    BY <1>10 DEF StreamComplete, Owns
<1>11. ASSUME NEW a \in Assets, UploadPlace(a) PROVE Goal
    BY <1>11 DEF UploadPlace
<1>12. ASSUME NEW a \in Assets, UploadFails(a) PROVE Goal
    BY <1>12 DEF UploadFails
<1>13. ASSUME Start PROVE Goal
    BY <1>13 DEF Start
<1>14. ASSUME Complete PROVE Goal
    BY <1>14 DEF Complete
<1>15. ASSUME Stop PROVE Goal
    BY <1>15 DEF Stop
<1>16. ASSUME NEW a \in Assets, Exists(a) PROVE Goal
    BY <1>16 DEF Exists
<1>17. ASSUME Abort PROVE Goal
    BY <1>17 DEF Abort
<1>18. ASSUME AnswerToStop PROVE Goal
    BY <1>18 DEF AnswerToStop
<1>19. ASSUME RemoveFolder PROVE Goal
    BY <1>19 DEF RemoveFolder
<1>20. ASSUME NEW p \in DOMAIN file, UserDeletes(p) PROVE Goal
    BY <1>20 DEF UserDeletes
<1>21. ASSUME Crash PROVE Goal
    BY <1>21 DEF Crash
<1>22. ASSUME NEW a \in Assets, UploadCheck(a) PROVE Goal
    <2>1. CASE CheckFails(a) \/ CheckFinds(a)
        <3>1. upload' = [upload EXCEPT ![a] = Free] /\ record' = record
            BY <1>22, <2>1, CheckStep DEF CheckFails, CheckFinds
        <3> QED  BY <3>1
    <2>2. CASE CheckPasses(a)
        <3>1. /\ \A b \in Assets \ {a} : upload'[b] = upload[b]
              /\ upload'[a].pc = "place"
            BY <2>2, PcStep DEF CheckPasses, Uploads
        <3> QED  BY <1>22, <3>1, CheckStep
    <2> QED  BY <1>22, <2>1, <2>2, CheckStep
<1> QED
    BY <1>1, <1>2, <1>3, <1>4, <1>5, <1>6, <1>7, <1>8, <1>9, <1>10, <1>11, <1>12, <1>13,
       <1>14, <1>15, <1>16, <1>17, <1>18, <1>19, <1>20, <1>21, <1>22
    DEF Next, PhoneSends, Handler, Posted

\* Every step keeps the agreement of rows, uploads about to be recorded, and files.
LEMMA KeptStep ==
    ASSUME TypeOK, Ranges, Placing, Kept, Next
    PROVE  Kept'
<1>0. SafeKept
    BY FilesStep
<1>1. \A a \in Assets : /\ record[a] # NoRecord => record[a].path \in Paths /\ Bytes[a][record[a].version] \in Contents
                        /\ upload[a].pc \in {"move", "record"} =>
                              upload[a].path \in Paths /\ Bytes[a][upload[a].version] \in Contents
    BY ContentOf DEF Ranges, TypeOK
<1>2. CASE RecordsSame
    BY <1>0, <1>1, <1>2 DEF Kept, RecordsSame, SafeKept
<1>3. ASSUME NEW a \in Assets, UploadMove(a) PROVE Kept'
    <2>0. PICK p, c : p = upload[a].path /\ c = Bytes[a][upload[a].version]
        OBVIOUS
    <2>1. upload[a].pc = "move" /\ deleted' = deleted /\ record' = record /\ file' = Put(p, c)
        BY <1>3, <2>0 DEF UploadMove
    <2>2. Safe(p, c)'
        BY <2>0, <2>1, PutKeeps, FreshMove
    <2>3. \A b \in Assets : upload'[b].path = upload[b].path /\ upload'[b].version = upload[b].version
        BY <1>3, PcStep DEF UploadMove, TypeOK, Uploads
    <2>4. \A b \in Assets \ {a} : upload'[b] = upload[b]
        BY <1>3, PcStep DEF UploadMove, TypeOK, Uploads
    <2> QED  BY <1>0, <1>1, <2>0, <2>1, <2>2, <2>3, <2>4 DEF Kept, SafeKept, Safe
<1>4. ASSUME NEW a \in Assets, UploadRecord(a) PROVE Kept'
    <2>1. /\ upload[a].pc = "record" /\ file' = file /\ deleted' = deleted
          /\ record' = [record EXCEPT ![a] = [version |-> upload[a].version, path |-> upload[a].path]]
          /\ upload' = [upload EXCEPT ![a] = Free]
        BY <1>4 DEF UploadRecord, UpsertRecord
    <2>2. \A p, c : Safe(p, c)' <=> Safe(p, c)
        BY <2>1 DEF Safe
    <2>3. /\ record'[a].version = upload[a].version /\ record'[a].path = upload[a].path
          /\ \A b \in Assets \ {a} : record'[b] = record[b] /\ upload'[b] = upload[b]
          /\ upload'[a].pc = "none"
        BY <2>1 DEF TypeOK, Free
    <2> QED  BY <2>1, <2>2, <2>3 DEF Kept
<1> QED
    BY <1>2, <1>3, <1>4, RecordSteps

-----------------------------------------------------------------------------
(* What the phone takes for stored. *)

DoneSame == \A a \in Assets : phone'[a] = "done" => phone[a] = "done" /\ version'[a] = version[a]

\* The steps after which the phone takes more photos for stored.
LEMMA DoneSteps ==
    ASSUME TypeOK, Journey, Next
    PROVE  DoneSame \/ \E a \in Assets : Exists(a) \/ UploadCheck(a) \/ UploadRecord(a)
<1> DEFINE Goal == DoneSame
<1> USE DEF TypeOK, DoneSame, Journey
<1>1. ASSUME NEW s \in Sessions, Pair(s) PROVE Goal
    BY <1>1 DEF Pair
<1>2. ASSUME NEW s \in Sessions, AskToStop(s) PROVE Goal
    BY <1>2 DEF AskToStop
<1>3. ASSUME NEW a \in Assets, Edit(a) PROVE Goal
    BY <1>3 DEF Edit
<1>4. ASSUME NEW a \in Assets, StreamStart(a) PROVE Goal
    BY <1>4 DEF StreamStart
<1>5. ASSUME NEW a \in Assets, StreamRefused(a) PROVE Goal
    BY <1>5 DEF StreamRefused
<1>6. ASSUME NEW a \in Assets, StreamBody(a) PROVE Goal
    BY <1>6 DEF StreamBody
<1>7. ASSUME NEW a \in Assets, StreamBreaks(a) PROVE Goal
    BY <1>7 DEF StreamBreaks, Lost
<1>8. ASSUME NEW a \in Assets, StreamDiskFull(a) PROVE Goal
    BY <1>8 DEF StreamDiskFull
<1>9. ASSUME NEW a \in Assets, GiveUp(a) PROVE Goal
    BY <1>9 DEF GiveUp, Lost
<1>10. ASSUME NEW a \in Assets, StreamComplete(a) PROVE Goal
    BY <1>10 DEF StreamComplete
<1>11. ASSUME NEW a \in Assets, UploadPlace(a) PROVE Goal
    BY <1>11 DEF UploadPlace
<1>12. ASSUME NEW a \in Assets, UploadMove(a) PROVE Goal
    BY <1>12 DEF UploadMove
<1>13. ASSUME NEW a \in Assets, UploadFails(a) PROVE Goal
    BY <1>13 DEF UploadFails, Answer
<1>14. ASSUME Start PROVE Goal
    BY <1>14 DEF Start
<1>15. ASSUME Complete PROVE Goal
    BY <1>15 DEF Complete
<1>16. ASSUME Stop PROVE Goal
    BY <1>16 DEF Stop
<1>17. ASSUME Abort PROVE Goal
    BY <1>17 DEF Abort
<1>18. ASSUME AnswerToStop PROVE Goal
    BY <1>18 DEF AnswerToStop
<1>19. ASSUME RemoveFolder PROVE Goal
    BY <1>19 DEF RemoveFolder
<1>20. ASSUME NEW p \in DOMAIN file, UserDeletes(p) PROVE Goal
    BY <1>20 DEF UserDeletes
<1>21. ASSUME Crash PROVE Goal
    BY <1>21 DEF Crash
<1> QED
    BY <1>1, <1>2, <1>3, <1>4, <1>5, <1>6, <1>7, <1>8, <1>9, <1>10, <1>11, <1>12, <1>13,
       <1>14, <1>15, <1>16, <1>17, <1>18, <1>19, <1>20, <1>21
    DEF Next, PhoneSends, Handler, Posted

\* A row with a file stands for content that is stored, or was deleted.
LEMMA HeldStored ==
    ASSUME TypeOK, Kept, NEW c \in Contents, Held(c)
    PROVE  c \in Stored \cup deleted
<1>1. PICK a \in Assets : /\ record[a] # NoRecord /\ Bytes[a][record[a].version] = c
                          /\ record[a].path \in DOMAIN file
    BY DEF Held
<1>2. Safe(record[a].path, c)
    BY <1>1 DEF Kept
<1> QED
    BY <1>1, <1>2 DEF Safe, Stored

\* Every step keeps what the phone takes for stored stored.
LEMMA DoneStoredStep ==
    ASSUME TypeOK, Ranges, Journey, Placing, Kept, DoneStored, Next
    PROVE  DoneStored'
<1>0. StoredKept
    BY FilesStep
<1>1. \A a \in Assets : phone[a] # "idle" => Bytes[a][version[a]] \in Contents
    BY ContentOf DEF Ranges, TypeOK
<1>2. CASE DoneSame
    BY <1>0, <1>1, <1>2 DEF DoneSame, DoneStored, StoredKept
<1>3. ASSUME NEW a \in Assets, Exists(a) PROVE DoneStored'
    <2>1. /\ phone[a] # "idle" /\ version' = version /\ Held(Bytes[a][version[a]])
          /\ phone' = [phone EXCEPT ![a] = "done"]
        BY <1>3 DEF Exists, Match
    <2>2. Bytes[a][version[a]] \in Stored \cup deleted
        BY <1>1, <2>1, HeldStored
    <2> QED  BY <1>0, <1>1, <2>1, <2>2 DEF DoneStored, StoredKept, TypeOK
<1>4. ASSUME NEW a \in Assets, UploadCheck(a) PROVE DoneStored'
    <2>1. CASE CheckFinds(a) /\ phone[a] = "sent"
        <3>1. /\ version' = version /\ Held(Bytes[a][upload[a].version]) /\ upload[a].pc = "check"
              /\ phone' = [phone EXCEPT ![a] = "done"]
            BY <1>4, <2>1, CheckStep DEF CheckFinds, Answer
        <3>2. upload[a].version = version[a]
            BY <2>1, <3>1 DEF Journey
        <3>3. Bytes[a][version[a]] \in Stored \cup deleted
            BY <1>1, <2>1, <3>1, <3>2, HeldStored
        <3>4. version' = version /\ \A b \in Assets \ {a} : phone'[b] = phone[b]
            BY <3>1 DEF TypeOK
        <3>5. phone[a] # "idle" /\ Bytes[a][version[a]] \in Contents
            BY <1>1, <2>1
        <3> QED  BY <1>0, <1>1, <3>3, <3>4, <3>5 DEF DoneStored, StoredKept
    <2>2. CASE ~(CheckFinds(a) /\ phone[a] = "sent")
        <3>1. version' = version /\ \A b \in Assets : phone'[b] = "done" => phone[b] = "done"
            BY <1>4, <2>2, CheckStep DEF CheckFails, CheckFinds, CheckPasses, Answer, TypeOK
        <3> QED  BY <1>0, <1>1, <3>1 DEF DoneStored, StoredKept
    <2> QED  BY <2>1, <2>2
<1>5. ASSUME NEW a \in Assets, UploadRecord(a) PROVE DoneStored'
    <2>1. /\ version' = version /\ upload[a].pc = "record"
          /\ phone' = [phone EXCEPT ![a] = IF @ = "sent" THEN "done" ELSE @]
        BY <1>5 DEF UploadRecord, Answer
    <2>2. CASE phone[a] = "sent"
        <3>1. upload[a].version = version[a]
            BY <2>1, <2>2 DEF Journey
        <3>2. Bytes[a][version[a]] \in Stored \cup deleted
            BY <1>1, <2>1, <2>2, <3>1 DEF Kept, Safe, Stored
        <3> QED  BY <1>0, <1>1, <2>1, <3>2 DEF DoneStored, StoredKept, TypeOK
    <2>3. CASE phone[a] # "sent"
        BY <1>0, <1>1, <2>1, <2>3 DEF DoneStored, StoredKept, TypeOK
    <2> QED  BY <2>2, <2>3
<1> QED
    BY <1>2, <1>3, <1>4, <1>5, DoneSteps

-----------------------------------------------------------------------------
(* The theorems. *)

\* Uploads of one name are not between Place and Move at once.
NoOverlap == Overlap = FALSE

\* The invariant holds at first, with nothing paired and nothing stored.
LEMMA InitInv == Init => IInv
<1> SUFFICES ASSUME Init PROVE IInv
    OBVIOUS
<1>1. \A a \in Assets : Len(Bytes[a]) \in Nat /\ 1 <= Len(Bytes[a])
    BY TransferAssumption
<1>2. Free \in Uploads /\ Free.pc = "none"
    BY DEF Free, Uploads
<1>3. TypePhone
    BY <1>1 DEF Init, TypePhone, Known
<1>4. TypeTables /\ TypeFiles /\ TypeFaults
    BY TransferAssumption DEF Init, TypeTables, TypeFiles, TypeFaults, Status, Shown
<1>5. TypeUpload
    BY <1>2 DEF Init, TypeUpload
<1>6. TypeOK
    BY <1>3, <1>4, <1>5, TypeParts
<1>7. Ranges /\ Journey /\ Placing /\ Kept /\ DoneStored
    BY <1>2 DEF Init, Ranges, Journey, Placing, Kept, DoneStored
<1> QED
    BY <1>6, <1>7 DEF IInv

\* Every step keeps the invariant.
LEMMA StepInv == NoOverlap /\ IInv /\ [Next]_vars => IInv'
<1> SUFFICES ASSUME NoOverlap, IInv, [Next]_vars PROVE IInv'
    OBVIOUS
<1>1. CASE Next
    BY <1>1, TypeStep, RangesStep, JourneyStep, PlacingStep, KeptStep, DoneStoredStep DEF IInv, NoOverlap
<1>2. CASE UNCHANGED vars
    <2>1. TypeOK'
        BY <1>2 DEF IInv, TypeOK
    <2>2. Ranges' /\ Journey' /\ Placing'
        BY <1>2 DEF IInv, Ranges, Journey, Placing
    <2>3. Kept' /\ DoneStored'
        BY <1>2 DEF IInv, Kept, DoneStored, Safe, Stored
    <2> QED  BY <2>1, <2>2, <2>3 DEF IInv
<1> QED
    BY <1>1, <1>2

\* The inductive invariant, for backups whose uploads of one name do not
\* choose their file names at the same time.
THEOREM Invariance == NoOverlap => (Spec => []IInv)
<1> SUFFICES ASSUME NoOverlap PROVE Spec => []IInv
    OBVIOUS
<1>1. Init => IInv
    BY InitInv
<1>2. IInv /\ [Next]_vars => IInv'
    BY StepInv
<1> QED
    BY <1>1, <1>2, PTL DEF Spec

\* The tables, files and uploads keep their types through retries, faults and crashes.
THEOREM TypeCorrect == NoOverlap => (Spec => []TypeOK)
<1>1. IInv => TypeOK
    BY DEF IInv
<1> QED
    BY <1>1, Invariance, PTL

\* A row names a file with the content it claims, in whatever order files are
\* moved, rows are written, and uploads fail.
THEOREM RecordHasContentHolds == NoOverlap => (Spec => []RecordHasContent)
<1>1. IInv => RecordHasContent
    BY DEF IInv, Kept, Safe, RecordHasContent
<1> QED
    BY <1>1, Invariance, PTL

-----------------------------------------------------------------------------
(* The end of a session. *)

NoneCompletes == \A s \in Sessions : session'[s] = "completed" => session[s] = "completed"

\* Only the phone's report lets a session become "completed".
LEMMA CompletingSteps ==
    ASSUME TypeOK, Next
    PROVE  NoneCompletes \/ Complete
<1> DEFINE Goal == NoneCompletes
<1> USE DEF TypeOK, NoneCompletes, SetStatus, MarkTransferFailed
<1>1. ASSUME NEW s \in Sessions, Pair(s) PROVE Goal
    BY <1>1 DEF Pair
<1>2. ASSUME NEW a \in Assets, StreamDiskFull(a) PROVE Goal
    BY <1>2 DEF StreamDiskFull
<1>3. ASSUME NEW a \in Assets, UploadFails(a) PROVE Goal
    BY <1>3 DEF UploadFails
<1>4. CASE Start
    BY <1>4 DEF Start
<1>5. CASE Stop
    BY <1>5 DEF Stop, Ends
<1>6. CASE AnswerToStop
    BY <1>6 DEF AnswerToStop
<1>7. CASE RemoveFolder
    BY <1>7 DEF RemoveFolder
<1>8. CASE UNCHANGED session
    BY <1>8
<1> QED
    BY <1>1, <1>2, <1>3, <1>4, <1>5, <1>6, <1>7, <1>8
    DEF Next, PhoneSends, Handler, Posted, AskToStop, Edit, StreamStart, StreamRefused, StreamBody, StreamBreaks,
        GiveUp, StreamComplete, UploadCheck, UploadPlace, UploadMove, UploadRecord, Exists, Abort, Crash, UserDeletes

\* A report that nothing has failed is a report that all photos are stored.
LEMMA CompleteIsHonest ==
    ASSUME TypeOK, Journey, DoneStored, Complete, ~NoneCompletes, NEW a \in Assets, version[a] # 0
    PROVE  Bytes[a][version[a]] \in Stored \cup deleted
<1>1. session[cur] = "transferring" /\ Ends(cur, EndStatus)
    BY DEF Complete, NoneCompletes
<1>2. EndStatus = "completed"
    BY <1>1 DEF TypeOK, NoneCompletes, Ends, SetStatus, EndStatus
<1>3. phone[a] = "done"
    BY <1>2 DEF EndStatus, Complete, Journey
<1> QED
    BY <1>3 DEF DoneStored

\* The steps of CompletedHonest.
LEMMA HonestStep ==
    ASSUME IInv, [Next]_vars
    PROVE  [\A s \in Sessions : session'[s] = "completed" /\ session[s] # "completed" =>
               \A a \in Assets : version[a] # 0 => Bytes[a][version[a]] \in Stored \cup deleted]_vars
<1>1. CASE UNCHANGED vars
    BY <1>1
<1>2. CASE Next /\ NoneCompletes
    BY <1>2 DEF NoneCompletes
<1>3. CASE Complete /\ ~NoneCompletes
    BY <1>3, CompleteIsHonest DEF IInv
<1> QED
    BY <1>1, <1>2, <1>3, CompletingSteps DEF IInv

\* A backup is reported as completed only when every photo of the phone has
\* reached the folder: handle_complete_request believes the phone's counts.
THEOREM CompletedHonestHolds == NoOverlap => (Spec => CompletedHonest)
<1> SUFFICES ASSUME NoOverlap PROVE Spec => CompletedHonest
    OBVIOUS
<1>1. Spec => []IInv
    BY Invariance
<1>2. IInv /\ [Next]_vars =>
          [\A s \in Sessions : session'[s] = "completed" /\ session[s] # "completed" =>
              \A a \in Assets : version[a] # 0 => Bytes[a][version[a]] \in Stored \cup deleted]_vars
    BY HonestStep
<1> QED
    BY <1>1, <1>2, PTL DEF Spec, CompletedHonest

-----------------------------------------------------------------------------
(* The backup implements PhotoBackup. *)

\* What the phone holds.
Holds == {Bytes[a][version[a]] : a \in {b \in Assets : version[b] # 0}}

BackupStep == [Backup!Edit \/ Backup!Arrive \/ Backup!Delete \/ Backup!Free]_<<Holds, Stored, deleted>>

\* The steps of PhotoBackup, about this phone and this folder.
LEMMA BackupSteps ==
    /\ Backup!Edit <=> \E c \in Holds, d \in Contents :
          Holds' \in {Holds \cup {d}, (Holds \ {c}) \cup {d}} /\ UNCHANGED <<Stored, deleted>>
    /\ Backup!Delete <=> \E c \in Stored :
          Stored' \in {Stored, Stored \ {c}} /\ deleted' = deleted \cup {c} /\ UNCHANGED Holds
    /\ Backup!Free <=> \E freed \in SUBSET (Holds \cap (Stored \cup deleted)) :
          Holds' = Holds \ freed /\ UNCHANGED <<Stored, deleted>>
BY DEF Backup!Edit, Backup!Delete, Backup!Free, Holds

VersionSame == UNCHANGED version

\* The steps that touch the photos on the phone.
LEMMA VersionSteps ==
    ASSUME Next
    PROVE  VersionSame \/ Complete \/ \E a \in Assets : Edit(a)
BY DEF VersionSame, Next, PhoneSends, Handler, Posted, Pair, AskToStop, StreamStart, StreamRefused, StreamBody,
       StreamBreaks, StreamDiskFull, GiveUp, StreamComplete, UploadCheck, UploadPlace, UploadMove, UploadFails,
       UploadRecord, Start, Stop, Exists, Abort, AnswerToStop, RemoveFolder, Crash, UserDeletes

\* A file that appears under a free name adds its content to the folder.
LEMMA PutArrives ==
    ASSUME NEW p, p \notin DOMAIN file, NEW c, file' = Put(p, c), deleted' = deleted, version' = version
    PROVE  BackupStep
<1>1. Stored' = Stored \cup ({c} \cap Contents)
    BY PutKeeps
<1>2. Holds' = Holds
    BY DEF Holds
<1>3. CASE c \in Contents
    BY <1>1, <1>2, <1>3 DEF BackupStep, Backup!Arrive
<1>4. CASE c \notin Contents
    BY <1>1, <1>2, <1>4 DEF BackupStep
<1> QED
    BY <1>3, <1>4

\* A file that the user deletes may be one of several with its content.
LEMMA DeleteDeletes ==
    ASSUME TypeOK, NEW p \in DOMAIN file, UserDeletes(p)
    PROVE  BackupStep
<1>1. /\ file' = [q \in DOMAIN file \ {p} |-> file[q]] /\ version' = version
      /\ deleted' = deleted \cup ({file[p]} \ {Torn})
    BY DEF UserDeletes
<1>2. Stored' \subseteq Stored /\ Stored \ {file[p]} \subseteq Stored' /\ Holds' = Holds
    BY <1>1, DeleteKeeps DEF Holds
<1>3. Torn \notin Contents
    BY TransferAssumption
<1>4. CASE file[p] = Torn
    <2>1. file[p] \notin Stored /\ deleted' = deleted
        BY <1>1, <1>3, <1>4 DEF Stored
    <2>2. Stored' = Stored
        BY <1>2, <2>1
    <2> QED  BY <1>2, <2>1, <2>2 DEF BackupStep
<1>5. CASE file[p] # Torn
    <2>1. file[p] \in Stored /\ deleted' = deleted \cup {file[p]}
        BY <1>1, <1>5 DEF Stored, TypeOK
    <2>2. Stored' \in {Stored, Stored \ {file[p]}}
        BY <1>2
    <2>3. Backup!Delete
        BY <1>2, <2>1, <2>2, BackupSteps
    <2> QED  BY <2>3 DEF BackupStep
<1> QED
    BY <1>4, <1>5

\* An edit replaces a content of the phone by another.
LEMMA EditEdits ==
    ASSUME TypeOK, NEW a \in Assets, Edit(a)
    PROVE  BackupStep
<1> DEFINE old == Bytes[a][version[a]]
           new == Bytes[a][version[a] + 1]
<1>1. /\ version' = [version EXCEPT ![a] = version[a] + 1] /\ version[a] # 0
      /\ version[a] < Len(Bytes[a]) /\ UNCHANGED <<file, deleted>>
    BY DEF Edit
<1>2. old \in Holds /\ new \in Contents
    <2>1. version[a] + 1 \in 1..Len(Bytes[a])
        BY <1>1, TransferAssumption DEF TypeOK
    <2> QED  BY <1>1, <2>1, ContentOf DEF Holds
<1>3. version'[a] = version[a] + 1 /\ version'[a] # 0 /\ \A b \in Assets \ {a} : version'[b] = version[b]
    BY <1>1 DEF TypeOK
<1>4. Holds' \in {Holds \cup {new}, (Holds \ {old}) \cup {new}}
    <2>1. new \in Holds' /\ Holds' \subseteq Holds \cup {new} /\ Holds \ {old} \subseteq Holds'
        BY <1>3 DEF Holds
    <2> QED  BY <2>1
<1>5. Stored' = Stored
    BY <1>1 DEF Stored
<1>6. Backup!Edit
    BY <1>1, <1>2, <1>4, <1>5, BackupSteps
<1> QED
    BY <1>6 DEF BackupStep

\* The phone deletes its copies of what it takes for stored.
LEMMA CompleteFrees ==
    ASSUME TypeOK, DoneStored, Complete
    PROVE  BackupStep
<1>1. Stored' = Stored /\ deleted' = deleted
    BY DEF Complete, Stored
<1>2. \A a \in Assets : \/ version'[a] = version[a]
                        \/ version'[a] = 0 /\ phone[a] = "done"
    BY DEF Complete, TypeOK
<1>3. Holds' \subseteq Holds
    BY <1>2 DEF Holds
<1>4. \A c \in Holds \ Holds' : c \in Stored \cup deleted
    <2>1. SUFFICES ASSUME NEW a \in Assets, version[a] # 0, Bytes[a][version[a]] \notin Holds'
                   PROVE  Bytes[a][version[a]] \in Stored \cup deleted
        BY DEF Holds
    <2>2. version'[a] # version[a]
        BY <2>1 DEF Holds
    <2> QED  BY <1>2, <2>2 DEF DoneStored
<1> DEFINE freed == Holds \ Holds'
<1>5. freed \in SUBSET (Holds \cap (Stored \cup deleted)) /\ Holds' = Holds \ freed
    BY <1>3, <1>4
<1>6. Backup!Free
    BY <1>1, <1>5, BackupSteps
<1> QED
    BY <1>6 DEF BackupStep

\* Every step of the backup is a step of PhotoBackup, or leaves it as it is.
LEMMA BackupStepHolds ==
    ASSUME IInv, [Next]_vars
    PROVE  BackupStep
<1>1. CASE UNCHANGED vars
    BY <1>1 DEF BackupStep, Holds, Stored
<1>2. CASE Complete
    BY <1>2, CompleteFrees DEF IInv
<1>3. ASSUME NEW a \in Assets, Edit(a) PROVE BackupStep
    BY <1>3, EditEdits DEF IInv
<1>4. CASE VersionSame /\ FilesSame
    BY <1>4 DEF BackupStep, Holds, Stored, VersionSame, FilesSame
<1>5. ASSUME VersionSame, NEW a \in Assets, UploadMove(a) PROVE BackupStep
    BY <1>5, PutArrives, FreshMove DEF UploadMove, IInv, VersionSame
<1>6. ASSUME VersionSame, NEW a \in Assets, UploadFails(a) PROVE BackupStep
    <2>1. /\ upload[a].pc = "move" /\ deleted' = deleted
          /\ file' = file \/ \E c : file' = Put(upload[a].path, c)
        BY <1>6 DEF UploadFails
    <2> QED  BY <1>4, <1>6, <2>1, PutArrives, FreshMove DEF IInv, FilesSame, VersionSame
<1>7. CASE VersionSame /\ Crash
    <2>1. ASSUME NEW a \in Assets, upload[a].pc = "move", file' = Put(upload[a].path, Torn)
          PROVE  BackupStep
        BY <1>7, <2>1, PutArrives, FreshMove DEF Crash, IInv, VersionSame
    <2> QED  BY <1>4, <1>7, <2>1 DEF Crash, FilesSame
<1>8. ASSUME NEW p \in DOMAIN file, UserDeletes(p) PROVE BackupStep
    BY <1>8, DeleteDeletes DEF IInv
<1> QED
    BY <1>1, <1>2, <1>3, <1>4, <1>5, <1>6, <1>7, <1>8, FileSteps, VersionSteps

\* Every behaviour of the backup, with its crashes, retries, refused and torn
\* uploads, keeps the promise of PhotoBackup: what has been moved into the folder
\* is lost only to the user's deletions, and the phone gives up only what is there.
THEOREM ImplementsBackupHolds == NoOverlap => (Spec => ImplementsBackup)
<1> SUFFICES ASSUME NoOverlap PROVE Spec => ImplementsBackup
    OBVIOUS
<1>1. Init => Backup!Init
    BY InitInv, TransferAssumption, ContentOf DEF Init, Backup!Init, Stored, TypeOK, IInv
<1>2. Spec => []IInv
    BY Invariance
<1>3. IInv /\ [Next]_vars =>
          [Backup!Edit \/ Backup!Arrive \/ Backup!Delete \/ Backup!Free]_<<Holds, Stored, deleted>>
    BY BackupStepHolds DEF BackupStep
<1> QED
    BY <1>1, <1>2, <1>3, PTL DEF Spec, ImplementsBackup, Backup!Spec, Holds
=============================================================================
