---------------------------- MODULE MobilePairing ----------------------------
(***************************************************************************)
(* Pairing a phone with the PC: mobile/mobile_pairing_service.py with      *)
(* mobile_pairing_session.py, the tables of mobile_pairing_store.py, and   *)
(* what mobile_folder_controller.py and mobile_dialogs.py do with it.      *)
(*                                                                         *)
(* The user opens a session, whose code phones scan and claim.  A claim is *)
(* checked under the lock of the service, and accepted without it, one     *)
(* database commit at a time; then the lock is taken again and the session *)
(* looked at once more.  A "backup again" session expects the phone of one *)
(* folder; another phone makes a thread ask the user what to do.           *)
(***************************************************************************)
EXTENDS Integers, FiniteSets

CONSTANTS
    Sessions, Devices,
    Threads,      \* bound: claims and questions to the user at one time
    LateClaims,   \* may a thread of one session still run in the next one?
    RemoveInside, \* may a folder be removed while a session is open?
    MaxCodes,     \* bound: codes of a session
    MaxFolders,   \* bound: ids of folders
    MaxFaults     \* bound: removals of folders and ends of the process

None == "none"

ASSUME PairingAssumption ==
    /\ None \notin Sessions \cup Devices
    /\ LateClaims \in BOOLEAN /\ RemoveInside \in BOOLEAN
    /\ MaxCodes \in Nat \ {0} /\ MaxFolders \in Nat \ {0} /\ MaxFaults \in Nat

VARIABLES
    active,   \* _active_session
    again,    \* _active_backup_again_context: the folder (0: no such context) and its device
    code,     \* the current token of each session: its generation, and is it expired
    result,   \* _pairing_result
    told,     \* _pairing_state_by_session_id: what claims and polls are answered
    busy,     \* _pairing_request_in_progress
    thread,   \* threads that handle claims or resolve a mismatch
    key,      \* table mobile_devices: the session and code that the trust key comes from
    folders,  \* table folders: the ids of its rows (of phones)
    made,     \* the last id
    bound,    \* table mobile_folders: folder -> device
    row,      \* table mobile_backup_sessions
    assets,   \* devices with rows in table mobile_assets
    removing, \* a folder whose removal is half done, or 0
    faults

memory == <<active, again, code, result, told, busy>>
tables == <<key, folders, made, bound, row, assets>>
vars == <<memory, thread, tables, removing, faults>>

Folders == 1..MaxFolders
Codes == 1..MaxCodes
NoKey == <<>>
NoRow == [device |-> None, folder |-> 0]
Gone == [device |-> None, folder |-> 1]  \* a row that was deleted
NoContext == [folder |-> 0, device |-> None]
Idle == [pc |-> "idle", session |-> None, device |-> None, code |-> 0, again |-> NoContext,
         choice |-> "new", asked |-> FALSE, folder |-> 0]

TypeOK ==
    /\ active \in Sessions \cup {None}
    /\ again \in [folder : Folders, device : Devices] \cup {NoContext}
    /\ code \in [Sessions -> [at : 0..MaxCodes, expired : BOOLEAN]]
    /\ result \in [state : {"waiting", "accepted", "mismatched", "stopped", "expired"},
                   session : Sessions \cup {None}, device : Devices \cup {None}]
    /\ told \in [Sessions -> [state : {None, "pending", "completed", "mismatched", "stopped", "expired"},
                              device : Devices \cup {None}]]
    /\ busy \in BOOLEAN
    /\ thread \in [Threads ->
          [pc : {"idle", "route", "ask", "check", "device", "folder", "bind", "session", "publish", "end"},
           session : Sessions \cup {None}, device : Devices \cup {None}, code : 0..MaxCodes,
           again : [folder : Folders, device : Devices] \cup {NoContext},
           choice : {"new", "continue"}, asked : BOOLEAN, folder : 0..MaxFolders]]
    /\ key \in [Devices -> (Sessions \X Codes) \cup {NoKey}]
    /\ made \in 0..MaxFolders /\ folders \subseteq 1..made
    /\ bound \in [Folders -> Devices \cup {None}]
    /\ row \in [Sessions -> [device : Devices, folder : Folders] \cup {NoRow, Gone}]
    /\ assets \subseteq Devices
    /\ removing \in 0..MaxFolders
    /\ faults \in 0..MaxFaults

-----------------------------------------------------------------------------
(* The tables. *)

\* Mutant: the device keeps its rows of sessions.
PurgeKeepsSessions(D, F) ==
    /\ bound' = [f \in Folders |-> IF f \in F \/ bound[f] \in D THEN None ELSE bound[f]]
    /\ key' = [d \in Devices |-> IF d \in D THEN NoKey ELSE key[d]]
    /\ assets' = assets \ D
    /\ UNCHANGED row

\* delete_mobile_device_data_for_folder_ids(F), where D is bound to F.
Purge(D, F) ==
    /\ bound' = [f \in Folders |-> IF f \in F \/ bound[f] \in D THEN None ELSE bound[f]]
    /\ key' = [d \in Devices |-> IF d \in D THEN NoKey ELSE key[d]]
    /\ assets' = assets \ D
    /\ row' = [s \in Sessions |->
          IF row[s] \notin {NoRow, Gone} /\ (row[s].device \in D \/ row[s].folder \in F)
          THEN Gone ELSE row[s]]

\* Folders of d whose row in table folders is missing.
Stale(d) == {f \in Folders : bound[f] = d /\ f \notin folders}

\* The device a session's requests are served for, and the key they are
\* decrypted with: get_mobile_transfer_context.
Served(s) == row[s] \notin {NoRow, Gone} /\ key[row[s].device] # NoKey /\ row[s].folder \in folders

-----------------------------------------------------------------------------
(* The desktop. *)

NewCode == [at |-> 1, expired |-> FALSE]

\* What phones are told of a result.
ToldAs == [waiting |-> "pending", accepted |-> "completed", mismatched |-> "mismatched",
           stopped |-> "stopped", expired |-> "expired"]

\* The result of session s, and the answer to whoever claims or polls it.
Publish(s, state, d) ==
    /\ result' = [state |-> state, session |-> s, device |-> d]
    /\ told' = [told EXCEPT ![s] = [state |-> ToldAs[state], device |-> d]]

\* handle_pairing_state_request: what phone d is told of session s.
Polled(s, d) ==
    IF told[s].state = None THEN "unknown"
    ELSE IF told[s].device \in {None, d} THEN told[s].state ELSE "refused"

\* start_pairing_session, for a new folder or for one that is to be used again.
StartSession(s, a) ==
    /\ active = None /\ code[s].at = 0
    /\ LateClaims \/ \A t \in Threads : thread[t].pc = "idle"
    /\ RemoveInside \/ removing = 0
    /\ active' = s /\ again' = a
    /\ code' = [code EXCEPT ![s] = NewCode]
    /\ Publish(s, "waiting", None)
    /\ busy' = FALSE
    /\ UNCHANGED <<thread, tables, removing, faults>>

\* Mutant: folders that no phone is bound to, too.
ContextsAll == {NoContext} \cup {[folder |-> f, device |-> bound[f]] : f \in folders}

\* get_mobile_folder_binding_by_path finds the phone of a folder.
BoundFolders == {f \in folders : bound[f] # None}

\* start_backup_again_flow: a new folder, or one that is bound to a phone.
Contexts == {NoContext} \cup {[folder |-> f, device |-> bound[f]] : f \in BoundFolders}

\* The dialog offers a new code until a phone is accepted.
MayRefresh == active # None /\ result.state # "accepted"

\* refresh_token; the new code is shown in place of the old one.
Refresh ==
    /\ MayRefresh /\ code[active].at < MaxCodes
    /\ code' = [code EXCEPT ![active] = [at |-> @.at + 1, expired |-> FALSE]]
    /\ UNCHANGED <<active, again, result, told, busy, thread, tables, removing, faults>>

Expire ==
    /\ active # None /\ ~code[active].expired
    /\ code' = [code EXCEPT ![active].expired = TRUE]
    /\ UNCHANGED <<active, again, result, told, busy, thread, tables, removing, faults>>

\* close_active_session: the user closes the dialog, or the transfer has started.
Close ==
    /\ active # None
    /\ IF result.state = "accepted"
       THEN /\ result' = [state |-> "waiting", session |-> None, device |-> None]
            /\ UNCHANGED told
       ELSE Publish(active, "stopped", None)
    /\ active' = None /\ again' = NoContext /\ busy' = FALSE
    /\ UNCHANGED <<code, thread, tables, removing, faults>>

\* delete_folders: the data of the phone first, and in a second commit the folder.
RemoveData(f) ==
    /\ removing = 0 /\ f \in folders /\ faults < MaxFaults /\ faults' = faults + 1
    /\ RemoveInside \/ (active = None /\ \A t \in Threads : thread[t].pc = "idle")
    /\ Purge({bound[f]} \cap Devices, {f})
    /\ removing' = f
    /\ UNCHANGED <<memory, thread, folders, made>>

RemoveRow ==
    /\ removing # 0
    /\ folders' = folders \ {removing} /\ removing' = 0
    /\ UNCHANGED <<memory, thread, key, made, bound, row, assets, faults>>

\* A phone that was paired transfers a photo (see MobileTransfer).
Transfer(s) ==
    /\ Served(s) /\ row[s].device \notin assets
    /\ assets' = assets \cup {row[s].device}
    /\ UNCHANGED <<memory, thread, key, folders, made, bound, row, removing, faults>>

\* The process ends: what is in memory is lost.
Restart ==
    /\ faults < MaxFaults /\ faults' = faults + 1
    /\ active' = None /\ again' = NoContext /\ busy' = FALSE
    /\ result' = [state |-> "waiting", session |-> None, device |-> None]
    /\ told' = [s \in Sessions |-> [state |-> None, device |-> None]]
    /\ thread' = [t \in Threads |-> Idle]
    /\ removing' = 0
    /\ UNCHANGED <<code, tables>>

-----------------------------------------------------------------------------
(* A claim. *)

Goto(t, pc) == thread' = [thread EXCEPT ![t].pc = pc]

\* Mutant: an expired session stays so.
DecidedExpired == result.state \in {"accepted", "mismatched", "stopped", "expired"}

\* Mutant: an accepted session may be claimed again.
DecidedNotAccepted == result.state \in {"mismatched", "stopped"}

\* A claim is answered what the session has come to.
Decided == result.state \in {"accepted", "mismatched", "stopped"}

\* The locked part of handle_pairing_request, for a phone that scanned the
\* current code.  An earlier code, another session, a session that is decided
\* already and a claim while another one is busy are answered, and change nothing.
Claim(t, d) ==
    /\ thread[t].pc = "idle" /\ active # None /\ ~busy
    /\ ~Decided
    /\ IF code[active].expired
       THEN /\ Publish(active, "expired", None)
            /\ UNCHANGED <<busy, thread>>
       ELSE /\ thread' = [thread EXCEPT ![t] =
                  [pc |-> "route", session |-> active, device |-> d, code |-> code[active].at,
                   again |-> again, choice |-> "new", asked |-> FALSE, folder |-> 0]]
            /\ busy' = TRUE
            /\ UNCHANGED <<result, told>>
    /\ UNCHANGED <<active, again, code, tables, removing, faults>>

\* The phone is not the one that the folder was paired with: it is told so,
\* and another thread asks the user.
Mismatch(t) ==
    LET r == thread[t] IN
    /\ r.pc = "route" /\ r.again # NoContext /\ r.again.device # r.device
    /\ IF active = r.session
       THEN /\ Publish(active, "mismatched", r.device)
            /\ \E u \in Threads \ {t} :
                  /\ thread[u].pc = "idle"
                  /\ thread' = [thread EXCEPT ![t].pc = "end", ![u] = [r EXCEPT !.pc = "ask", !.asked = TRUE]]
       ELSE Goto(t, "end") /\ UNCHANGED <<result, told>>
    /\ UNCHANGED <<active, again, code, busy, tables, removing, faults>>

Match(t) ==
    LET r == thread[t] IN
    /\ r.pc = "route" /\ (r.again = NoContext \/ r.again.device = r.device)
    /\ Goto(t, "check")
    /\ UNCHANGED <<memory, tables, removing, faults>>

\* _resolve_backup_again_mismatch: the user decides ...
Choose(t, choice) ==
    /\ thread[t].pc = "ask"
    /\ thread' = [thread EXCEPT ![t].pc = "check", ![t].choice = choice]
    /\ UNCHANGED <<memory, tables, removing, faults>>

\* ... or cancels, or does not answer for five minutes, or the prompt fails:
\* _complete_pairing_stopped.
Cancel(t) ==
    LET r == thread[t] IN
    /\ r.pc = "ask"
    /\ IF active = r.session
       THEN Publish(active, "stopped", r.device)
       ELSE UNCHANGED <<result, told>>
    /\ thread' = [thread EXCEPT ![t] = Idle]
    /\ UNCHANGED <<active, again, code, busy, tables, removing, faults>>

\* _complete_pairing_acceptance, step by step: the session is still active ...
AcceptCheck(t) ==
    /\ thread[t].pc = "check"
    /\ Goto(t, IF active = thread[t].session THEN "device" ELSE "end")
    /\ UNCHANGED <<memory, tables, removing, faults>>

\* Mutant: a known device keeps its key.
AcceptDeviceKeeps(t) ==
    LET r == thread[t] IN
    /\ r.pc = "device"
    /\ key' = [key EXCEPT ![r.device] = IF @ = NoKey THEN <<r.session, r.code>> ELSE @]
    /\ Goto(t, "folder")
    /\ UNCHANGED <<memory, folders, made, bound, row, assets, removing, faults>>

\* ... upsert_mobile_device, with a key from the code that was claimed ...
AcceptDevice(t) ==
    LET r == thread[t] IN
    /\ r.pc = "device"
    /\ key' = [key EXCEPT ![r.device] = <<r.session, r.code>>]
    /\ Goto(t, "folder")
    /\ UNCHANGED <<memory, folders, made, bound, row, assets, removing, faults>>

Repairing(r) == r.again # NoContext /\ r.again.device # r.device /\ r.choice = "continue"

\* The sessions of the previous phone become sessions of the new one.
RepairRows(r) ==
    row' = [s \in Sessions |->
        IF row[s] \notin {NoRow, Gone} /\ row[s].device = r.again.device
        THEN [device |-> r.device, folder |-> r.again.folder] ELSE row[s]]

\* ... repair_mobile_folder_device_binding, which gives all that belongs to
\* the previous phone to the new one, unless that one has a folder of its own ...
AcceptRepair(t) ==
    LET r == thread[t]
        p == r.again.device
        f == r.again.folder
    IN
    /\ r.pc = "folder" /\ Repairing(r)
    /\ IF \E g \in Folders \ {f} : bound[g] = r.device
       THEN Goto(t, "end") /\ UNCHANGED <<key, bound, row, assets>>
       ELSE /\ RepairRows(r)
            /\ bound' = [bound EXCEPT ![f] = IF @ = None THEN @ ELSE r.device]
            /\ key' = [key EXCEPT ![p] = NoKey]
            /\ assets' = IF p \in assets THEN (assets \ {p}) \cup {r.device} ELSE assets
            /\ thread' = [thread EXCEPT ![t].pc = "session", ![t].folder = f]
    /\ UNCHANGED <<memory, folders, made, removing, faults>>

\* ... or get_or_create_mobile_folder: stale rows of the phone go, its folder
\* is used again, or a folder is made ...
AcceptFolder(t) ==
    LET r == thread[t] IN
    /\ r.pc = "folder" /\ ~Repairing(r)
    /\ IF Stale(r.device) # {}
       THEN Purge({r.device}, Stale(r.device)) ELSE UNCHANGED <<bound, key, assets, row>>
    /\ \/ \E f \in folders :
             /\ bound[f] = r.device /\ Stale(r.device) = {}
             /\ thread' = [thread EXCEPT ![t].pc = "session", ![t].folder = f]
             /\ UNCHANGED <<folders, made>>
       \/ /\ \A f \in folders : bound[f] = r.device => Stale(r.device) # {}
          /\ made < MaxFolders
          /\ made' = made + 1 /\ folders' = folders \cup {made'}
          /\ thread' = [thread EXCEPT ![t].pc = "bind", ![t].folder = made']
    /\ UNCHANGED <<memory, removing, faults>>

\* ... which is bound to the phone, unless the phone has got another one ...
AcceptBind(t) ==
    LET r == thread[t] IN
    /\ r.pc = "bind"
    /\ IF \E f \in Folders : bound[f] = r.device
       THEN Goto(t, "end") /\ UNCHANGED bound
       ELSE /\ bound' = [bound EXCEPT ![r.folder] = r.device]
            /\ Goto(t, "session")
    /\ UNCHANGED <<memory, key, folders, made, row, assets, removing, faults>>

\* ... insert_mobile_backup_session, which fails when there is such a row ...
AcceptSession(t) ==
    LET r == thread[t] IN
    /\ r.pc = "session"
    /\ IF row[r.session] \in {NoRow, Gone}
       THEN /\ row' = [row EXCEPT ![r.session] = [device |-> r.device, folder |-> r.folder]]
            /\ Goto(t, "publish")
       ELSE Goto(t, "end") /\ UNCHANGED row
    /\ UNCHANGED <<memory, key, folders, made, bound, assets, removing, faults>>

\* ... and under the lock, if the session is still active, the result.
AcceptPublish(t) ==
    LET r == thread[t] IN
    /\ r.pc = "publish"
    /\ IF active = r.session
       THEN Publish(active, "accepted", r.device)
       ELSE UNCHANGED <<result, told>>
    /\ Goto(t, "end")
    /\ UNCHANGED <<active, again, code, busy, tables, removing, faults>>

\* `finally` of handle_pairing_request, whichever session is active by now; a
\* thread that has asked the user just ends.
End(t) ==
    /\ thread[t].pc = "end"
    /\ busy' = (busy /\ thread[t].asked)
    /\ thread' = [thread EXCEPT ![t] = Idle]
    /\ UNCHANGED <<active, again, code, result, told, tables, removing, faults>>

-----------------------------------------------------------------------------
Init ==
    /\ active = None /\ again = NoContext
    /\ code = [s \in Sessions |-> [at |-> 0, expired |-> FALSE]]
    /\ result = [state |-> "waiting", session |-> None, device |-> None]
    /\ told = [s \in Sessions |-> [state |-> None, device |-> None]]
    /\ busy = FALSE
    /\ thread = [t \in Threads |-> Idle]
    /\ key = [d \in Devices |-> NoKey]
    /\ folders = {} /\ made = 0
    /\ bound = [f \in Folders |-> None]
    /\ row = [s \in Sessions |-> NoRow]
    /\ assets = {} /\ removing = 0 /\ faults = 0

Step(t) ==
    \/ Mismatch(t) \/ Match(t) \/ AcceptCheck(t) \/ AcceptDevice(t) \/ AcceptRepair(t)
    \/ AcceptFolder(t) \/ AcceptBind(t) \/ AcceptSession(t) \/ AcceptPublish(t) \/ End(t)

Decide(t) == Cancel(t) \/ \E choice \in {"new", "continue"} : Choose(t, choice)

\* _run_pairing_flow: the session of a dialog, from its opening to its end.
Dialog == Refresh \/ Close \/ \E s \in Sessions, a \in Contexts : StartSession(s, a)

Next ==
    \/ \E s \in Sessions : Transfer(s)
    \/ Dialog \/ Expire \/ RemoveRow \/ Restart
    \/ \E f \in Folders : RemoveData(f)
    \/ \E t \in Threads : Step(t) \/ Decide(t) \/ \E d \in Devices : Claim(t, d)

\* Threads run, a question to the user ends after five minutes at the latest,
\* and a phone that has the current code claims it again and again.
Fairness ==
    /\ \A t \in Threads : WF_vars(Step(t)) /\ WF_vars(Decide(t))
    /\ SF_vars(\E t \in Threads, d \in Devices : Claim(t, d))

Spec == Init /\ [][Next]_vars /\ Fairness

-----------------------------------------------------------------------------
(* What is checked. *)

\* The references that the schema of mobile_pairing_store.py declares, and
\* that SQLite does not enforce here, hold between any two commits: folders
\* and sessions belong to known devices, and asset rows too.
ReferencesHold ==
    /\ \A f \in Folders : bound[f] # None => key[bound[f]] # NoKey /\ f \in folders
    /\ \A s \in Sessions : row[s] \notin {NoRow, Gone} => Served(s)
    /\ \A d \in assets : key[d] # NoKey

\* As long as the dialog shows "accepted", the phone's requests are served:
\* its session's row is there, for it and for the folder bound to it, and the
\* key is the one the phone derives from the code it has scanned (unless the
\* folder was removed).
AcceptedIsServed ==
    result.state = "accepted" =>
        LET r == row[result.session] IN
        r = Gone \/ /\ Served(result.session)
                    /\ r.device = result.device
                    /\ bound[r.folder] = r.device
                    /\ key[r.device][1] = result.session

\* A phone that polls is told the same from its acceptance on, as long as the
\* process lives: no other claim, question to the user or end of the dialog
\* takes the pairing back.
AnswerStable ==
    [][\A s \in Sessions, d \in Devices :
          Polled(s, d) = "completed" => Polled(s, d)' \in {"completed", "unknown"}]_vars

\* A mismatch is resolved.
MismatchResolved == result.state = "mismatched" ~> result.state # "mismatched"

\* A code that is neither expired nor replaced leads to a decision.
CodeLeadsToDecision ==
    (active # None /\ ~code[active].expired)
        ~> \/ active = None \/ code[active].expired
           \/ result.state \in {"accepted", "mismatched", "stopped"}
=============================================================================
