------------------------- MODULE MobilePairingProofs -------------------------
(* Proofs about MobilePairing. *)
EXTENDS MobilePairing, TLAPS

USE DEF memory, tables

ThreadType ==
    [pc : {"idle", "route", "ask", "check", "device", "folder", "bind", "session", "publish", "end"},
     session : Sessions \cup {None}, device : Devices \cup {None}, code : 0..MaxCodes,
     again : [folder : Folders, device : Devices] \cup {NoContext},
     choice : {"new", "continue"}, asked : BOOLEAN, folder : 0..MaxFolders]

\* The parts of TypeOK.
TypeThread == thread \in [Threads -> ThreadType]
TypeMemory ==
    /\ active \in Sessions \cup {None}
    /\ again \in [folder : Folders, device : Devices] \cup {NoContext}
    /\ code \in [Sessions -> [at : 0..MaxCodes, expired : BOOLEAN]]
    /\ result \in [state : {"waiting", "accepted", "mismatched", "stopped", "expired"},
                   session : Sessions \cup {None}, device : Devices \cup {None}]
    /\ told \in [Sessions -> [state : {None, "pending", "completed", "mismatched", "stopped", "expired"},
                              device : Devices \cup {None}]]
    /\ busy \in BOOLEAN
TypeTables ==
    /\ key \in [Devices -> (Sessions \X Codes) \cup {NoKey}]
    /\ made \in 0..MaxFolders /\ folders \subseteq 1..made
    /\ bound \in [Folders -> Devices \cup {None}]
    /\ row \in [Sessions -> [device : Devices, folder : Folders] \cup {NoRow, Gone}]
    /\ assets \subseteq Devices
TypeCounts == removing \in 0..MaxFolders /\ faults \in 0..MaxFaults

\* TypeOK, part by part.
LEMMA TypeParts == TypeOK <=> TypeThread /\ TypeMemory /\ TypeTables /\ TypeCounts
BY DEF TypeOK, TypeThread, ThreadType, TypeMemory, TypeTables, TypeCounts

\* The same, after a step.
LEMMA TypeParts2 == TypeThread' /\ TypeMemory' /\ TypeTables' /\ TypeCounts' => TypeOK'
BY DEF TypeOK, TypeThread, ThreadType, TypeMemory, TypeTables, TypeCounts

-----------------------------------------------------------------------------
(* The inductive invariant. *)

Working(r) == r.pc \notin {"idle", "end"}
Open == {"waiting", "expired"}

\* One thread works at a time: a claim, or the thread that asks the user, next to
\* which the claim that has met the wrong phone may still be about to end.
Turns ==
    /\ \A t, u \in Threads : t # u /\ Working(thread[t]) /\ thread[u].pc # "idle" =>
          thread[t].asked /\ thread[u].pc = "end" /\ ~thread[u].asked
    /\ active # None => \A t \in Threads : thread[t].pc # "idle" =>
          /\ thread[t].session = active
          /\ ~thread[t].asked => busy
          /\ \A u \in Threads \ {t} : thread[u].pc # "idle" => thread[t].asked \/ thread[u].asked
          /\ thread[t].asked => result.state \in {"mismatched", "accepted"}
          /\ Working(thread[t]) => (IF thread[t].asked THEN result.state = "mismatched" ELSE result.state \in Open)

\* What a thread has written so far is still in the tables.
ClaimOK(r) ==
    /\ r.pc # "idle" => r.session \in Sessions /\ r.device \in Devices /\ r.code \in Codes
    /\ r.pc = "ask" \/ r.choice = "continue" => r.asked
    /\ r.pc = "route" => ~r.asked
    /\ r.pc \in {"route", "ask", "check", "device", "folder"} /\ r.again # NoContext =>
          bound[r.again.folder] = r.again.device
    /\ r.pc \in {"folder", "bind", "session", "publish"} => key[r.device] = <<r.session, r.code>>
    /\ r.pc = "bind" => r.folder \in folders /\ bound[r.folder] = None
    /\ r.pc \in {"session", "publish"} => r.folder \in folders /\ bound[r.folder] = r.device
    /\ r.pc = "publish" => row[r.session] = [device |-> r.device, folder |-> r.folder]
Claims == \A t \in Threads : ClaimOK(thread[t])

\* What phones are told of the open session, and what an acceptance stands for.
Answers ==
    /\ \A s \in Sessions : code[s].at = 0 => told[s].state = None
    /\ active # None =>
          /\ result.session = active /\ code[active].at \in Codes
          /\ told[active] = [state |-> ToldAs[result.state], device |-> result.device]
          /\ again # NoContext /\ result.state \in Open => bound[again.folder] = again.device
    /\ result.state = "accepted" =>
          /\ active # None
          /\ row[active] \notin {NoRow, Gone} /\ row[active].device = result.device
          /\ bound[row[active].folder] = result.device
          /\ key[result.device] # NoKey /\ key[result.device][1] = active

\* A phone has one folder.
OneFolder == \A f, g \in Folders : bound[f] # None /\ bound[f] = bound[g] => f = g

\* While a folder is removed no session is open, and nothing refers to it.
Removing ==
    removing # 0 =>
        /\ active = None /\ \A t \in Threads : thread[t].pc = "idle"
        /\ bound[removing] = None
        /\ \A s \in Sessions : row[s] \notin {NoRow, Gone} => row[s].folder # removing

Refs == ReferencesHold /\ OneFolder /\ Removing
IInv == TypeOK /\ Turns /\ Claims /\ Answers /\ Refs

\* Threads of one session have ended before the next is opened, and folders are
\* removed when no session is open.
OneAtATime == LateClaims = FALSE /\ RemoveInside = FALSE

\* Values that stand for "none" differ from all others.
LEMMA Nones ==
    /\ None \notin Sessions /\ None \notin Devices
    /\ NoContext.folder = 0 /\ NoContext \notin [folder : Folders, device : Devices]
    /\ NoRow \notin [device : Devices, folder : Folders] /\ Gone \notin [device : Devices, folder : Folders]
    /\ NoKey \notin Sessions \X Codes
    /\ 1 \in Codes /\ MaxCodes \in Nat /\ MaxFolders \in Nat /\ MaxFaults \in Nat
<1>1. None \notin Sessions /\ None \notin Devices
    BY PairingAssumption
<1>2. 1 \in Codes /\ MaxCodes \in Nat /\ MaxFolders \in Nat /\ MaxFaults \in Nat
    BY PairingAssumption DEF Codes
<1>3. NoKey \notin Sessions \X Codes
    BY DEF NoKey
<1>4. NoContext.folder = 0 /\ NoContext \notin [folder : Folders, device : Devices]
    BY DEF NoContext, Folders
<1>5. NoRow \notin [device : Devices, folder : Folders] /\ Gone \notin [device : Devices, folder : Folders]
    BY <1>1 DEF NoRow, Gone
<1> QED
    BY <1>1, <1>2, <1>3, <1>4, <1>5

\* A thread that goes on keeps all that it carries.
Moved(t, pc) ==
    /\ \A u \in Threads \ {t} : thread'[u] = thread[u]
    /\ thread'[t].pc = pc
    /\ thread'[t].session = thread[t].session /\ thread'[t].device = thread[t].device
    /\ thread'[t].code = thread[t].code /\ thread'[t].again = thread[t].again
    /\ thread'[t].asked = thread[t].asked

Pcs == {"idle", "route", "ask", "check", "device", "folder", "bind", "session", "publish", "end"}

\* A step of one thread leaves the others alone.
LEMMA GotoStep ==
    ASSUME TypeThread, NEW t \in Threads, NEW pc \in Pcs, Goto(t, pc)
    PROVE  /\ Moved(t, pc) /\ TypeThread'
           /\ thread'[t].choice = thread[t].choice /\ thread'[t].folder = thread[t].folder
<1>1. thread[t] \in ThreadType /\ thread' = [thread EXCEPT ![t].pc = pc]
    BY DEF TypeThread, Goto
<1>2. [thread[t] EXCEPT !.pc = pc] \in ThreadType
    BY <1>1 DEF ThreadType, Pcs
<1>3. thread' = [thread EXCEPT ![t] = [thread[t] EXCEPT !.pc = pc]]
    BY <1>1
<1>4. TypeThread'
    BY <1>2, <1>3 DEF TypeThread
<1>5. Moved(t, pc) /\ thread'[t].choice = thread[t].choice /\ thread'[t].folder = thread[t].folder
    BY <1>1 DEF TypeThread, ThreadType, Moved
<1> QED
    BY <1>4, <1>5

\* A thread that ends is idle.
LEMMA IdleStep ==
    ASSUME TypeThread, NEW t \in Threads, thread' = [thread EXCEPT ![t] = Idle]
    PROVE  TypeThread' /\ thread'[t] = Idle /\ \A u \in Threads \ {t} : thread'[u] = thread[u]
<1>1. Idle \in ThreadType
    BY Nones DEF Idle, ThreadType
<1> QED
    BY <1>1 DEF TypeThread

\* A thread that has ended is idle and relies on nothing.
LEMMA IdleOK == Idle.pc = "idle" /\ ClaimOK(Idle) /\ ~Working(Idle)
BY DEF Idle, ClaimOK, Working

\* What a published result is, in memory and for phones.
LEMMA PublishStep ==
    ASSUME TypeMemory, NEW s \in Sessions, NEW d \in Devices \cup {None},
           NEW state \in {"waiting", "accepted", "mismatched", "stopped", "expired"}, Publish(s, state, d)
    PROVE  /\ result'.state = state /\ result'.session = s /\ result'.device = d
           /\ told'[s] = [state |-> ToldAs[state], device |-> d]
           /\ \A q \in Sessions \ {s} : told'[q] = told[q]
           /\ result' \in [state : {"waiting", "accepted", "mismatched", "stopped", "expired"},
                   session : Sessions \cup {None}, device : Devices \cup {None}]
           /\ told' \in [Sessions -> [state : {None, "pending", "completed", "mismatched", "stopped", "expired"},
                              device : Devices \cup {None}]]
<1>1. ToldAs[state] \in {None, "pending", "completed", "mismatched", "stopped", "expired"}
    BY DEF ToldAs
<1> QED
    BY <1>1 DEF Publish, TypeMemory

-----------------------------------------------------------------------------
(* Steps that leave parts of the invariant alone. *)

\* The tables and the threads decide what has been written.
LEMMA SameClaims == ASSUME Claims, UNCHANGED <<thread, bound, key, folders, row>> PROVE Claims'
BY DEF Claims, ClaimOK

\* The tables and the open session decide what refers to what.
LEMMA SameRefs == ASSUME Refs, UNCHANGED <<tables, removing, active, thread>> PROVE Refs'
BY DEF Refs, ReferencesHold, OneFolder, Removing, Served, Stale

\* The threads and the open session decide whose turn it is.
LEMMA SameTurns == ASSUME Turns, UNCHANGED <<thread, active, busy, result>> PROVE Turns'
BY DEF Turns, Working

\* The open session and the tables decide what phones are told.
LEMMA SameAnswers == ASSUME Answers, UNCHANGED <<active, again, code, result, told, bound, row, key>> PROVE Answers'
BY DEF Answers

\* A context of a new session is a folder with the phone bound to it.
LEMMA ContextFacts ==
    ASSUME TypeTables, NEW a \in Contexts
    PROVE  /\ a \in [folder : Folders, device : Devices] \cup {NoContext}
           /\ a # NoContext => bound[a.folder] = a.device
<1>1. CASE a = NoContext
    BY <1>1
<1>2. CASE a # NoContext
    <2>1. PICK f \in BoundFolders : a = [folder |-> f, device |-> bound[f]]
        BY <1>2 DEF Contexts
    <2>2. f \in Folders /\ bound[f] \in Devices
        BY <2>1, Nones DEF BoundFolders, TypeTables, Folders
    <2> QED  BY <2>1, <2>2
<1> QED
    BY <1>1, <1>2

-----------------------------------------------------------------------------
(* The desktop. *)

\* A session is opened when no thread runs, and nobody was told anything of it.
LEMMA StartInv ==
    ASSUME OneAtATime, IInv, NEW s \in Sessions, NEW a \in Contexts, StartSession(s, a)
    PROVE  IInv'
<1>0. TypeThread /\ TypeMemory /\ TypeTables /\ TypeCounts
    BY TypeParts DEF IInv
<1>1. /\ active' = s /\ again' = a /\ code' = [code EXCEPT ![s] = NewCode]
      /\ Publish(s, "waiting", None) /\ busy' = FALSE /\ UNCHANGED <<thread, tables, removing, faults>>
      /\ \A t \in Threads : thread[t].pc = "idle"
      /\ removing = 0
    BY DEF StartSession, OneAtATime
<1>2. /\ result'.state = "waiting" /\ result'.session = s /\ result'.device = None
      /\ told'[s] = [state |-> ToldAs["waiting"], device |-> None]
      /\ \A q \in Sessions \ {s} : told'[q] = told[q]
    BY <1>0, <1>1, PublishStep
<1>3. TypeOK'
    <2>1. TypeMemory'
        <3>1. code' \in [Sessions -> [at : 0..MaxCodes, expired : BOOLEAN]]
            BY <1>0, <1>1, Nones DEF TypeMemory, NewCode, Codes
        <3>2. a \in [folder : Folders, device : Devices] \cup {NoContext}
            BY <1>0, ContextFacts
        <3> QED  BY <1>0, <1>1, <3>1, <3>2, PublishStep DEF TypeMemory
    <2>2. TypeThread' /\ TypeTables' /\ TypeCounts'
        BY <1>0, <1>1 DEF TypeThread, TypeTables, TypeCounts
    <2> QED  BY <2>1, <2>2, TypeParts2
<1>4. Turns'
    BY <1>1 DEF Turns, Working
<1>5. Claims'
    BY <1>1, SameClaims DEF IInv
<1>6. Answers'
    <2>1. \A q \in Sessions \ {s} : code'[q] = code[q]
        BY <1>0, <1>1 DEF TypeMemory
    <2>2. code'[s].at = 1 /\ 1 \in Codes
        BY <1>0, <1>1, Nones DEF TypeMemory, NewCode
    <2>3. bound' = bound /\ (a # NoContext => bound[a.folder] = a.device)
        BY <1>0, <1>1, ContextFacts
    <2> QED  BY <1>1, <1>2, <2>1, <2>2, <2>3 DEF Answers, IInv, Open
<1>7. Refs'
    BY <1>1 DEF Refs, IInv, ReferencesHold, OneFolder, Removing, Served, Stale
<1> QED
    BY <1>3, <1>4, <1>5, <1>6, <1>7 DEF IInv

\* A new code, or an expired one.
LEMMA CodeInv ==
    ASSUME IInv, Refresh \/ Expire
    PROVE  IInv'
<1>0. TypeThread /\ TypeMemory /\ TypeTables /\ TypeCounts
    BY TypeParts DEF IInv
<1>1. /\ active # None /\ UNCHANGED <<active, again, result, told, busy, thread, tables, removing, faults>>
      /\ \/ code' = [code EXCEPT ![active] = [at |-> code[active].at + 1, expired |-> FALSE]]
            /\ code[active].at < MaxCodes
         \/ code' = [code EXCEPT ![active].expired = TRUE]
    BY <1>0 DEF Refresh, Expire, MayRefresh, TypeMemory
<1>2. active \in Sessions /\ code[active].at \in Codes
    BY <1>0, <1>1 DEF TypeMemory, IInv, Answers
<1>3. /\ code' \in [Sessions -> [at : 0..MaxCodes, expired : BOOLEAN]]
      /\ code'[active].at \in Codes /\ \A q \in Sessions \ {active} : code'[q] = code[q]
    <2>1. PICK c \in [at : 0..MaxCodes, expired : BOOLEAN] : c = code[active]
        BY <1>0, <1>2 DEF TypeMemory
    <2>2. PICK d : /\ \/ d = [at |-> c.at + 1, expired |-> FALSE] /\ c.at < MaxCodes
                      \/ d = [c EXCEPT !.expired = TRUE]
                   /\ code' = [code EXCEPT ![active] = d]
        BY <1>1, <2>1
    <2>3. d \in [at : 0..MaxCodes, expired : BOOLEAN] /\ d.at \in Codes
        <3>1. CASE d = [at |-> c.at + 1, expired |-> FALSE] /\ c.at < MaxCodes
            <4>1. c.at + 1 \in Codes /\ Codes \subseteq 0..MaxCodes
                BY <2>1, <3>1, Nones DEF Codes
            <4> QED  BY <3>1, <4>1
        <3>2. CASE d = [c EXCEPT !.expired = TRUE]
            BY <1>2, <2>1, <3>2
        <3> QED  BY <2>2, <3>1, <3>2
    <2> QED  BY <1>0, <1>2, <2>2, <2>3 DEF TypeMemory
<1>4. TypeOK'
    <2>1. TypeMemory'
        BY <1>0, <1>1, <1>3 DEF TypeMemory
    <2>2. TypeThread' /\ TypeTables' /\ TypeCounts'
        BY <1>0, <1>1 DEF TypeThread, TypeTables, TypeCounts
    <2> QED  BY <2>1, <2>2, TypeParts2
<1>5. Answers'
    <2>1. 0 \notin Codes
        BY DEF Codes
    <2> QED  BY <1>1, <1>2, <1>3, <2>1 DEF Answers, IInv
<1> QED
    BY <1>1, <1>4, <1>5, SameTurns, SameClaims, SameRefs DEF IInv

\* Threads of a session that is closed go on, for nobody.
LEMMA CloseInv ==
    ASSUME IInv, Close
    PROVE  IInv'
<1>0. TypeThread /\ TypeMemory /\ TypeTables /\ TypeCounts
    BY TypeParts DEF IInv
<1>1. /\ active \in Sessions /\ active' = None /\ again' = NoContext /\ busy' = FALSE
      /\ UNCHANGED <<code, thread, tables, removing, faults>>
    BY <1>0 DEF Close, TypeMemory
<1>2. /\ result' \in [state : {"waiting", "accepted", "mismatched", "stopped", "expired"},
                   session : Sessions \cup {None}, device : Devices \cup {None}]
      /\ told' \in [Sessions -> [state : {None, "pending", "completed", "mismatched", "stopped", "expired"},
                              device : Devices \cup {None}]]
      /\ result'.state # "accepted"
      /\ \A q \in Sessions \ {active} : told'[q] = told[q]
    <2>1. CASE result.state = "accepted"
        BY <1>0, <2>1 DEF Close, TypeMemory
    <2>2. CASE result.state # "accepted"
        BY <1>0, <1>1, <2>2, PublishStep DEF Close
    <2> QED  BY <2>1, <2>2
<1>3. TypeOK'
    <2>1. TypeMemory'
        BY <1>0, <1>1, <1>2 DEF TypeMemory
    <2>2. TypeThread' /\ TypeTables' /\ TypeCounts'
        BY <1>0, <1>1 DEF TypeThread, TypeTables, TypeCounts
    <2> QED  BY <2>1, <2>2, TypeParts2
<1>4. Turns'
    BY <1>1 DEF Turns, IInv, Working
<1>5. Claims'
    BY <1>1, SameClaims DEF IInv
<1>6. Answers'
    <2>1. code[active].at # 0
        BY <1>1, Nones DEF IInv, Answers, Codes
    <2> QED  BY <1>1, <1>2, <2>1 DEF Answers, IInv
<1>7. Refs'
    BY <1>1 DEF Refs, IInv, ReferencesHold, OneFolder, Removing, Served, Stale
<1> QED
    BY <1>3, <1>4, <1>5, <1>6, <1>7 DEF IInv

\* The end of the process forgets the session and the threads.
LEMMA RestartInv ==
    ASSUME IInv, Restart
    PROVE  IInv'
<1>0. TypeThread /\ TypeMemory /\ TypeTables /\ TypeCounts
    BY TypeParts DEF IInv
<1>1. /\ active' = None /\ again' = NoContext /\ busy' = FALSE /\ removing' = 0
      /\ result' = [state |-> "waiting", session |-> None, device |-> None]
      /\ told' = [s \in Sessions |-> [state |-> None, device |-> None]]
      /\ thread' = [t \in Threads |-> Idle]
      /\ UNCHANGED <<code, tables>> /\ faults' = faults + 1 /\ faults < MaxFaults
    BY DEF Restart
<1>2. TypeOK'
    <2>1. TypeMemory'
        BY <1>0, <1>1 DEF TypeMemory
    <2>2. TypeThread'
        BY <1>1, Nones DEF TypeThread, Idle, ThreadType
    <2>3. TypeTables' /\ TypeCounts'
        BY <1>0, <1>1, Nones DEF TypeTables, TypeCounts
    <2> QED  BY <2>1, <2>2, <2>3, TypeParts2
<1>3. Turns' /\ Claims'
    BY <1>1, IdleOK DEF Turns, Claims, Working, ClaimOK, Idle
<1>4. Answers'
    BY <1>1 DEF Answers
<1>5. Refs'
    BY <1>1 DEF Refs, IInv, ReferencesHold, OneFolder, Removing, Served, Stale
<1> QED
    BY <1>2, <1>3, <1>4, <1>5 DEF IInv

\* What a removal purges is referred to by nothing afterwards.
LEMMA RemoveDataInv ==
    ASSUME OneAtATime, IInv, NEW f \in Folders, RemoveData(f)
    PROVE  IInv'
<1> DEFINE D == {bound[f]} \cap Devices
<1>0. TypeThread /\ TypeMemory /\ TypeTables /\ TypeCounts
    BY TypeParts DEF IInv
<1>1. /\ removing' = f /\ f \in folders /\ faults' = faults + 1 /\ faults < MaxFaults
      /\ active = None /\ \A t \in Threads : thread[t].pc = "idle"
      /\ Purge(D, {f}) /\ UNCHANGED <<memory, thread, folders, made>>
    BY DEF RemoveData, OneAtATime
<1>2. /\ bound' = [g \in Folders |-> IF g \in {f} \/ bound[g] \in D THEN None ELSE bound[g]]
      /\ key' = [d \in Devices |-> IF d \in D THEN NoKey ELSE key[d]]
      /\ assets' = assets \ D
      /\ row' = [s \in Sessions |->
            IF row[s] \notin {NoRow, Gone} /\ (row[s].device \in D \/ row[s].folder \in {f})
            THEN Gone ELSE row[s]]
    BY <1>1 DEF Purge
<1>3. TypeOK'
    <2>1. TypeTables'
        BY <1>0, <1>1, <1>2 DEF TypeTables
    <2>2. TypeCounts'
        BY <1>0, <1>1, Nones DEF TypeCounts, Folders
    <2>3. TypeThread' /\ TypeMemory'
        BY <1>0, <1>1 DEF TypeThread, TypeMemory
    <2> QED  BY <2>1, <2>2, <2>3, TypeParts2
<1>4. Turns'
    BY <1>1, SameTurns DEF IInv
<1>5. Claims'
    BY <1>0, <1>1 DEF Claims, ClaimOK, IInv, TypeThread, ThreadType
<1>6. Answers'
    BY <1>1 DEF Answers, IInv
<1>7. \A s \in Sessions : row'[s] \notin {NoRow, Gone} =>
          row'[s] = row[s] /\ row[s].device \notin D /\ row[s].folder # f
    BY <1>2
<1>8. \A g \in Folders : bound'[g] # None => bound'[g] = bound[g] /\ bound[g] \notin D /\ g # f
    BY <1>2
<1>9. \A d \in Devices \ D : key'[d] = key[d]
    BY <1>2
<1>10. ReferencesHold'
    <2>1. \A g \in Folders : bound'[g] # None => key'[bound'[g]] # NoKey /\ g \in folders'
        BY <1>0, <1>1, <1>8, <1>9 DEF IInv, Refs, ReferencesHold, TypeTables
    <2>2. ASSUME NEW s \in Sessions, row'[s] \notin {NoRow, Gone} PROVE Served(s)'
        <3>1. Served(s) /\ row[s].device \in Devices
            BY <1>0, <1>7, <2>2 DEF IInv, Refs, ReferencesHold, TypeTables
        <3> QED  BY <1>1, <1>7, <1>9, <2>2, <3>1 DEF Served
    <2>3. \A d \in assets' : key'[d] # NoKey
        BY <1>0, <1>2, <1>9 DEF IInv, Refs, ReferencesHold, TypeTables
    <2> QED  BY <2>1, <2>2, <2>3 DEF ReferencesHold
<1>11. OneFolder'
    BY <1>8 DEF IInv, Refs, OneFolder
<1>12. Removing'
    BY <1>1, <1>2, <1>7 DEF Removing
<1> QED
    BY <1>3, <1>4, <1>5, <1>6, <1>10, <1>11, <1>12 DEF IInv, Refs

\* The removed folder's row goes last, when nothing refers to it.
LEMMA RemoveRowInv ==
    ASSUME IInv, RemoveRow
    PROVE  IInv'
<1>0. TypeThread /\ TypeMemory /\ TypeTables /\ TypeCounts
    BY TypeParts DEF IInv
<1>1. /\ removing # 0 /\ folders' = folders \ {removing} /\ removing' = 0
      /\ UNCHANGED <<memory, thread, key, made, bound, row, assets, faults>>
      /\ active = None /\ \A t \in Threads : thread[t].pc = "idle"
      /\ bound[removing] = None
      /\ \A s \in Sessions : row[s] \notin {NoRow, Gone} => row[s].folder # removing
    BY DEF RemoveRow, IInv, Refs, Removing
<1>2. TypeOK'
    <2>1. TypeThread' /\ TypeMemory' /\ TypeTables' /\ TypeCounts'
        BY <1>0, <1>1, Nones DEF TypeThread, TypeMemory, TypeTables, TypeCounts
    <2> QED  BY <2>1, TypeParts2
<1>3. Turns' /\ Answers'
    BY <1>1, SameTurns, SameAnswers DEF IInv
<1>4. Claims'
    BY <1>1 DEF Claims, ClaimOK, IInv
<1>5. Refs'
    BY <1>1 DEF IInv, Refs, ReferencesHold, OneFolder, Removing, Served
<1> QED
    BY <1>2, <1>3, <1>4, <1>5 DEF IInv

\* An upload is filed for a phone and changes nothing else.
LEMMA TransferInv ==
    ASSUME IInv, NEW s \in Sessions, Transfer(s)
    PROVE  IInv'
<1>0. TypeThread /\ TypeMemory /\ TypeTables /\ TypeCounts
    BY TypeParts DEF IInv
<1>1. /\ Served(s) /\ assets' = assets \cup {row[s].device}
      /\ UNCHANGED <<memory, thread, key, folders, made, bound, row, removing, faults>>
    BY DEF Transfer
<1>2. row[s].device \in Devices /\ key[row[s].device] # NoKey
    BY <1>0, <1>1 DEF Served, TypeTables
<1>3. TypeOK'
    <2>1. TypeThread' /\ TypeMemory' /\ TypeTables' /\ TypeCounts'
        BY <1>0, <1>1, <1>2 DEF TypeThread, TypeMemory, TypeTables, TypeCounts
    <2> QED  BY <2>1, TypeParts2
<1>4. Turns' /\ Answers' /\ Claims'
    BY <1>1, SameTurns, SameAnswers, SameClaims DEF IInv
<1>5. Refs'
    BY <1>1, <1>2 DEF IInv, Refs, ReferencesHold, OneFolder, Removing, Served
<1> QED
    BY <1>3, <1>4, <1>5 DEF IInv

-----------------------------------------------------------------------------
(* A claim. *)

\* What a thread that works may rely on.
LEMMA WorkFacts ==
    ASSUME IInv, NEW t \in Threads, Working(thread[t])
    PROVE  /\ \A u \in Threads \ {t} : thread[u].pc \in {"idle", "end"}
           /\ removing = 0 /\ result.state # "accepted"
           /\ active # None => /\ thread[t].session = active
                               /\ IF thread[t].asked THEN result.state = "mismatched"
                                  ELSE busy /\ result.state \in Open
           /\ thread[t] \in ThreadType /\ ClaimOK(thread[t])
           /\ thread[t].session \in Sessions /\ thread[t].device \in Devices /\ thread[t].code \in Codes
<1>1. thread[t].pc # "idle"
    BY DEF Working
<1>2. \A u \in Threads \ {t} : thread[u].pc \in {"idle", "end"}
    BY <1>1 DEF IInv, Turns, Working
<1>3. active # None => /\ thread[t].session = active
                       /\ IF thread[t].asked THEN result.state = "mismatched"
                          ELSE busy /\ result.state \in Open
    BY <1>1 DEF IInv, Turns
<1>4. removing = 0
    BY <1>1 DEF IInv, Refs, Removing
<1>5. result.state # "accepted"
    BY <1>3 DEF IInv, Answers, Open
<1>6. thread[t] \in ThreadType /\ ClaimOK(thread[t])
    BY TypeParts DEF IInv, Claims, TypeThread
<1>7. thread[t].session \in Sessions /\ thread[t].device \in Devices /\ thread[t].code \in Codes
    BY <1>1, <1>6 DEF ClaimOK
<1> QED
    BY <1>2, <1>3, <1>4, <1>5, <1>6, <1>7

\* A thread goes on, or to its end, while the session is what it was.
LEMMA MovedTurns ==
    ASSUME Turns, NEW t \in Threads, Working(thread[t]), NEW pc \in Pcs \ {"idle"}, Moved(t, pc),
           UNCHANGED <<active, busy, result>>
    PROVE  Turns'
BY DEF Turns, Working, Moved

\* Threads that are idle or about to end rely on no table.
LEMMA OthersClaims ==
    ASSUME IInv, NEW t \in Threads, Working(thread[t]), ClaimOK(thread[t])',
           \A u \in Threads \ {t} : thread'[u] = thread[u]
    PROVE  Claims'
<1>1. ASSUME NEW u \in Threads \ {t} PROVE ClaimOK(thread[u])'
    <2>1. thread[u].pc \in {"idle", "end"} /\ ClaimOK(thread[u]) /\ thread'[u] = thread[u]
        BY WorkFacts DEF IInv, Claims
    <2> QED  BY <2>1 DEF ClaimOK
<1> QED
    BY <1>1 DEF Claims

\* The tables change under a working thread: only promises about the folder of an
\* open "backup again" session are at stake.
LEMMA WorkAnswers ==
    ASSUME IInv, NEW t \in Threads, Working(thread[t]), UNCHANGED memory,
           active # None /\ again # NoContext /\ result.state \in Open => bound'[again.folder] = again.device
    PROVE  Answers'
<1>1. result.state # "accepted"
    BY WorkFacts
<1> QED
    BY <1>1 DEF Answers, IInv

\* No thread works while a folder is being removed.
LEMMA WorkRemoving ==
    ASSUME IInv, NEW t \in Threads, Working(thread[t]), UNCHANGED removing
    PROVE  Removing'
BY WorkFacts DEF Removing

\* A phone claims the code, and no thread is left that could work beside it.
LEMMA ClaimInv ==
    ASSUME IInv, NEW t \in Threads, NEW d \in Devices, Claim(t, d)
    PROVE  IInv'
<1>0. TypeThread /\ TypeMemory /\ TypeTables /\ TypeCounts
    BY TypeParts DEF IInv
<1>1. /\ thread[t].pc = "idle" /\ active \in Sessions /\ ~busy /\ result.state \in Open
      /\ UNCHANGED <<active, again, code, tables, removing, faults>>
    BY <1>0 DEF Claim, Decided, TypeMemory, Open
<1>2. /\ result.session = active /\ code[active].at \in Codes
      /\ again # NoContext => bound[again.folder] = again.device
    BY <1>1, Nones DEF IInv, Answers
<1>3. \A u \in Threads : thread[u].pc = "idle"
    BY <1>1, Nones DEF IInv, Turns, Open
<1>4. CASE code[active].expired
    <2>1. Publish(active, "expired", None) /\ UNCHANGED <<busy, thread>>
        BY <1>4 DEF Claim
    <2>2. TypeOK'
        <3>1. TypeMemory'
            BY <1>0, <1>1, <2>1, PublishStep DEF TypeMemory
        <3>2. TypeThread' /\ TypeTables' /\ TypeCounts'
            BY <1>0, <1>1, <2>1 DEF TypeThread, TypeTables, TypeCounts
        <3> QED  BY <3>1, <3>2, TypeParts2
    <2>3. Turns'
        BY <1>3, <2>1 DEF Turns, Working
    <2>4. Claims' /\ Refs'
        BY <1>1, <2>1, SameClaims, SameRefs DEF IInv
    <2>5. Answers'
        <3>1. /\ result'.state = "expired" /\ result'.session = active /\ result'.device = None
              /\ told'[active] = [state |-> ToldAs["expired"], device |-> None]
              /\ \A q \in Sessions \ {active} : told'[q] = told[q]
            BY <1>0, <1>1, <2>1, PublishStep
        <3>2. 0 \notin Codes
            BY DEF Codes
        <3> QED  BY <1>1, <1>2, <3>1, <3>2 DEF Answers, IInv, Open
    <2> QED  BY <2>2, <2>3, <2>4, <2>5 DEF IInv
<1>5. CASE ~code[active].expired
    <2> DEFINE r == [pc |-> "route", session |-> active, device |-> d, code |-> code[active].at,
                     again |-> again, choice |-> "new", asked |-> FALSE, folder |-> 0]
    <2>1. thread' = [thread EXCEPT ![t] = r] /\ busy' = TRUE /\ UNCHANGED <<result, told>>
        BY <1>5 DEF Claim
    <2>2. PICK q \in ThreadType :
             /\ q = r /\ q.pc = "route" /\ q.session = active /\ q.device = d /\ q.code = code[active].at
             /\ q.again = again /\ q.choice = "new" /\ q.asked = FALSE
        <3>1. code[active].at \in 0..MaxCodes /\ 0 \in 0..MaxFolders
            BY <1>0, <1>1, Nones DEF TypeMemory
        <3>2. r \in ThreadType
            BY <1>0, <1>1, <3>1 DEF ThreadType, TypeMemory
        <3> QED  BY <3>2
    <2> HIDE DEF r
    <2>3. thread'[t] = q /\ (\A u \in Threads \ {t} : thread'[u] = thread[u]) /\ ~q.asked
        BY <1>0, <2>1, <2>2 DEF TypeThread
    <2>4. TypeOK'
        <3>1. TypeThread'
            BY <1>0, <2>1, <2>2 DEF TypeThread
        <3>2. TypeMemory' /\ TypeTables' /\ TypeCounts'
            BY <1>0, <1>1, <2>1 DEF TypeMemory, TypeTables, TypeCounts
        <3> QED  BY <3>1, <3>2, TypeParts2
    <2>5. Turns'
        BY <1>1, <1>3, <2>1, <2>2, <2>3 DEF Turns, Working
    <2>6. Claims'
        <3>1. ClaimOK(q)'
            BY <1>1, <1>2, <2>2 DEF ClaimOK
        <3>2. ASSUME NEW u \in Threads \ {t} PROVE ClaimOK(thread[u])'
            <4>1. ClaimOK(thread[u]) /\ thread'[u] = thread[u] /\ thread[u].pc = "idle"
                BY <1>3, <2>3 DEF Claims, IInv
            <4> QED  BY <4>1 DEF ClaimOK
        <3> QED  BY <2>3, <3>1, <3>2 DEF Claims
    <2>7. Answers'
        BY <1>1, <2>1, SameAnswers DEF IInv
    <2>8. Refs'
        <3>1. removing = 0
            BY <1>1, Nones DEF IInv, Refs, Removing
        <3> QED  BY <1>1, <3>1 DEF Refs, IInv, ReferencesHold, OneFolder, Removing, Served, Stale
    <2> QED  BY <2>4, <2>5, <2>6, <2>7, <2>8 DEF IInv
<1> QED
    BY <1>4, <1>5

\* A thread goes on and writes no table.
LEMMA GoInv ==
    ASSUME IInv, NEW t \in Threads, Working(thread[t]), NEW pc \in Pcs \ {"idle"}, Moved(t, pc), TypeThread',
           ClaimOK(thread[t])', UNCHANGED <<memory, tables, removing, faults>>
    PROVE  IInv'
<1>1. TypeOK'
    <2>1. TypeMemory' /\ TypeTables' /\ TypeCounts'
        BY TypeParts DEF IInv, TypeMemory, TypeTables, TypeCounts
    <2> QED  BY <2>1, TypeParts2
<1>2. Turns' /\ Claims'
    BY MovedTurns, OthersClaims DEF IInv, Moved
<1>3. Answers' /\ Removing'
    BY SameAnswers, WorkRemoving DEF IInv
<1>4. ReferencesHold' /\ OneFolder'
    BY DEF Refs, IInv, ReferencesHold, OneFolder, Served
<1> QED
    BY <1>1, <1>2, <1>3, <1>4 DEF IInv, Refs

\* The claim of the expected phone goes on to the check.
LEMMA MatchInv ==
    ASSUME IInv, NEW t \in Threads, Match(t) \/ AcceptCheck(t)
    PROVE  IInv'
<1>1. PICK pc \in {"check", "device", "end"} :
         /\ Goto(t, pc) /\ UNCHANGED <<memory, tables, removing, faults>>
         /\ thread[t].pc \in {"route", "check"}
    BY DEF Match, AcceptCheck
<1>2. Working(thread[t]) /\ TypeThread /\ pc \in Pcs \ {"idle"}
    BY <1>1, TypeParts DEF Working, IInv, Pcs
<1>3. Moved(t, pc) /\ TypeThread' /\ thread'[t].choice = thread[t].choice
    BY <1>1, <1>2, GotoStep
<1>4. ClaimOK(thread[t])'
    <2>1. ClaimOK(thread[t])
        BY <1>2, WorkFacts
    <2> QED  BY <1>1, <1>3, <2>1 DEF ClaimOK, Moved
<1> QED
    BY <1>1, <1>2, <1>3, <1>4, GoInv

\* The user's choice is taken to the thread that asked.
LEMMA ChooseInv ==
    ASSUME IInv, NEW t \in Threads, NEW choice \in {"new", "continue"}, Choose(t, choice)
    PROVE  IInv'
<1>1. /\ thread' = [thread EXCEPT ![t].pc = "check", ![t].choice = choice]
      /\ thread[t].pc = "ask" /\ UNCHANGED <<memory, tables, removing, faults>>
    BY DEF Choose
<1>2. Working(thread[t]) /\ TypeThread
    BY <1>1, TypeParts DEF Working, IInv
<1>3. thread[t] \in ThreadType /\ ClaimOK(thread[t])
    BY <1>2, WorkFacts
<1>4. Moved(t, "check") /\ TypeThread'
    <2>1. [thread[t] EXCEPT !.pc = "check", !.choice = choice] \in ThreadType
        BY <1>3 DEF ThreadType
    <2>2. thread' = [thread EXCEPT ![t] = [thread[t] EXCEPT !.pc = "check", !.choice = choice]]
        BY <1>1
    <2>3. TypeThread'
        BY <1>2, <2>1, <2>2 DEF TypeThread
    <2>4. Moved(t, "check")
        BY <1>1, <1>2, <1>3 DEF TypeThread, ThreadType, Moved
    <2> QED  BY <2>3, <2>4
<1>5. ClaimOK(thread[t])'
    BY <1>1, <1>3, <1>4 DEF ClaimOK, Moved
<1> QED
    BY <1>1, <1>2, <1>4, <1>5, GoInv DEF Pcs

\* The claim that meets the wrong phone hands over to a thread that asks the user.
LEMMA MismatchInv ==
    ASSUME IInv, NEW t \in Threads, Mismatch(t)
    PROVE  IInv'
<1>0. TypeThread /\ TypeMemory /\ TypeTables /\ TypeCounts
    BY TypeParts DEF IInv
<1>1. /\ thread[t].pc = "route" /\ Working(thread[t])
      /\ UNCHANGED <<active, again, code, busy, tables, removing, faults>>
    BY DEF Mismatch, Working
<1>2. /\ thread[t] \in ThreadType /\ ClaimOK(thread[t]) /\ thread[t].session \in Sessions
      /\ thread[t].device \in Devices /\ thread[t].code \in Codes
      /\ \A u \in Threads \ {t} : thread[u].pc \in {"idle", "end"}
      /\ active # None => thread[t].session = active /\ (~thread[t].asked => busy)
    BY <1>1, WorkFacts
<1>3. CASE active # thread[t].session
    <2>1. Goto(t, "end") /\ UNCHANGED <<result, told>>
        BY <1>2, <1>3 DEF Mismatch
    <2>2. Moved(t, "end") /\ TypeThread' /\ thread'[t].choice = thread[t].choice
        BY <1>0, <2>1, GotoStep DEF Pcs
    <2>3. ClaimOK(thread[t])'
        BY <1>2, <2>2 DEF ClaimOK, Moved
    <2> QED  BY <1>1, <2>1, <2>2, <2>3, GoInv DEF Pcs
<1>4. CASE active = thread[t].session
    <2>1. active \in Sessions /\ busy /\ ~thread[t].asked
        BY <1>1, <1>2, <1>4, Nones DEF ClaimOK
    <2>2. /\ result'.state = "mismatched" /\ result'.session = active /\ result'.device = thread[t].device
          /\ told'[active] = [state |-> ToldAs["mismatched"], device |-> thread[t].device]
          /\ \A q \in Sessions \ {active} : told'[q] = told[q]
          /\ TypeMemory'
        <3>1. Publish(active, "mismatched", thread[t].device)
            BY <1>4 DEF Mismatch
        <3>2. UNCHANGED <<active, again, code, busy>>
            BY <1>1
        <3> HIDE DEF Publish
        <3> QED  BY <1>0, <1>2, <2>1, <3>1, <3>2, PublishStep DEF TypeMemory
    <2>3. PICK u \in Threads \ {t} :
             /\ thread[u].pc = "idle"
             /\ thread' = [thread EXCEPT ![t].pc = "end", ![u] = [thread[t] EXCEPT !.pc = "ask", !.asked = TRUE]]
        BY <1>4 DEF Mismatch
    <2>4. PICK q \in ThreadType :
             /\ q = [thread[t] EXCEPT !.pc = "ask", !.asked = TRUE] /\ q.pc = "ask" /\ q.asked
             /\ q.session = thread[t].session /\ q.device = thread[t].device /\ q.code = thread[t].code
             /\ q.again = thread[t].again
        <3>1. [thread[t] EXCEPT !.pc = "ask", !.asked = TRUE] \in ThreadType
            BY <1>2 DEF ThreadType
        <3> QED  BY <1>2, <3>1 DEF ThreadType
    <2>5. PICK e \in ThreadType :
             /\ e = [thread[t] EXCEPT !.pc = "end"] /\ e.pc = "end" /\ ~e.asked
             /\ e.session = thread[t].session /\ e.device = thread[t].device /\ e.code = thread[t].code
             /\ e.choice = thread[t].choice
        <3>1. [thread[t] EXCEPT !.pc = "end"] \in ThreadType
            BY <1>2 DEF ThreadType
        <3> QED  BY <1>2, <2>1, <3>1 DEF ThreadType
    <2>6. thread' = [thread EXCEPT ![t] = e, ![u] = q]
        BY <2>3, <2>4, <2>5
    <2>7. /\ TypeThread' /\ thread'[t] = e /\ thread'[u] = q
          /\ \A v \in Threads \ {t, u} : thread'[v] = thread[v]
        BY <1>0, <2>3, <2>6 DEF TypeThread
    <2>8. \A v \in Threads \ {t, u} : thread[v].pc = "idle"
        BY <1>1, <2>1 DEF IInv, Turns, Working
    <2>9. TypeOK'
        <3>1. TypeTables' /\ TypeCounts'
            BY <1>0, <1>1 DEF TypeTables, TypeCounts
        <3> QED  BY <2>2, <2>7, <3>1, TypeParts2
    <2>10. Turns'
        <3>1. /\ active' = active /\ busy' = busy /\ e.session = active /\ q.session = active
              /\ \A v \in Threads \ {t, u} : thread'[v].pc = "idle"
            BY <1>1, <1>4, <2>4, <2>5, <2>7, <2>8
        <3>0. /\ thread'[u].pc = "ask" /\ thread'[u].asked /\ thread'[u].session = active
              /\ thread'[t].pc = "end" /\ ~thread'[t].asked /\ thread'[t].session = active
              /\ result'.state = "mismatched"
            BY <1>4, <2>2, <2>4, <2>5, <2>7
        <3>2. \A v \in Threads : thread'[v].pc # "idle" => v \in {t, u}
            BY <3>1
        <3>3. \A v, w \in Threads : v # w /\ Working(thread'[v]) /\ thread'[w].pc # "idle" => v = u /\ w = t
            BY <2>5, <2>7, <3>2 DEF Working
        <3>4. ASSUME NEW v \in Threads, thread'[v].pc # "idle"
              PROVE  /\ thread'[v].session = active /\ (~thread'[v].asked => busy)
                     /\ thread'[v].asked => result'.state = "mismatched"
                     /\ Working(thread'[v]) => thread'[v].asked
            BY <2>1, <3>0, <3>2, <3>4 DEF Working
        <3>5. \A v, w \in Threads : v # w /\ Working(thread'[v]) /\ thread'[w].pc # "idle" =>
                 thread'[v].asked /\ thread'[w].pc = "end" /\ ~thread'[w].asked
            BY <3>0, <3>3
        <3>6. \A v, w \in Threads : v # w /\ thread'[v].pc # "idle" /\ thread'[w].pc # "idle" =>
                 thread'[v].asked \/ thread'[w].asked
            BY <3>0, <3>2
        <3> QED  BY <3>1, <3>4, <3>5, <3>6 DEF Turns
    <2>11. Claims'
        <3>1. ClaimOK(q)' /\ ClaimOK(e)'
            BY <1>1, <1>2, <2>1, <2>4, <2>5 DEF ClaimOK
        <3>2. ASSUME NEW v \in Threads \ {t, u} PROVE ClaimOK(thread[v])'
            <4>1. ClaimOK(thread[v]) /\ thread'[v] = thread[v] /\ thread[v].pc = "idle"
                BY <2>7, <2>8 DEF Claims, IInv
            <4> QED  BY <4>1 DEF ClaimOK
        <3> QED  BY <2>7, <3>1, <3>2 DEF Claims
    <2>12. Answers'
        <3>1. 0 \notin Codes
            BY DEF Codes
        <3>2. code[active].at \in Codes
            BY <2>1, Nones DEF IInv, Answers
        <3> QED  BY <1>1, <2>1, <2>2, <3>1, <3>2 DEF Answers, IInv, Open
    <2>13. Refs'
        <3>1. Removing'
            BY <1>1, WorkRemoving
        <3> QED  BY <1>1, <3>1 DEF Refs, IInv, ReferencesHold, OneFolder, Served
    <2> QED  BY <2>9, <2>10, <2>11, <2>12, <2>13 DEF IInv
<1> QED
    BY <1>3, <1>4

\* A thread that publishes: the rest of the invariant follows from what is told.
LEMMA PublishInv ==
    ASSUME IInv, NEW t \in Threads, Working(thread[t]), thread[t].session = active,
           NEW state \in {"stopped", "accepted"}, Publish(active, state, thread[t].device),
           TypeThread', thread'[t].pc \in {"idle", "end"}, ClaimOK(thread[t])',
           /\ thread'[t].pc = "end" =>
                 /\ thread'[t].session = thread[t].session /\ thread'[t].asked = thread[t].asked
                 /\ state = "accepted"
           /\ state = "accepted" =>
                 /\ row[active] = [device |-> thread[t].device, folder |-> thread[t].folder]
                 /\ thread[t].folder \in Folders
                 /\ bound[thread[t].folder] = thread[t].device
                 /\ key[thread[t].device] = <<thread[t].session, thread[t].code>>
           /\ state = "stopped" => thread[t].asked,
           \A u \in Threads \ {t} : thread'[u] = thread[u],
           UNCHANGED <<active, again, code, busy, tables, removing, faults>>
    PROVE  IInv'
<1>0. TypeThread /\ TypeMemory /\ TypeTables /\ TypeCounts
    BY TypeParts DEF IInv
<1>1. /\ thread[t].session \in Sessions /\ thread[t].device \in Devices /\ thread[t].code \in Codes
      /\ \A u \in Threads \ {t} : thread[u].pc \in {"idle", "end"}
      /\ active \in Sessions /\ active # None
      /\ ~thread[t].asked => busy
    BY WorkFacts, Nones
<1>2. /\ result'.state = state /\ result'.session = active /\ result'.device = thread[t].device
      /\ told'[active] = [state |-> ToldAs[state], device |-> thread[t].device]
      /\ \A q \in Sessions \ {active} : told'[q] = told[q]
      /\ TypeMemory'
    <2>1. state \in {"waiting", "accepted", "mismatched", "stopped", "expired"} /\ thread[t].device \in Devices \cup {None}
        BY <1>1
    <2>2. active \in Sessions /\ Publish(active, state, thread[t].device)
        BY <1>1
    <2>3. /\ result'.state = state /\ result'.session = active /\ result'.device = thread[t].device
          /\ told'[active] = [state |-> ToldAs[state], device |-> thread[t].device]
          /\ \A q \in Sessions \ {active} : told'[q] = told[q]
          /\ result' \in [state : {"waiting", "accepted", "mismatched", "stopped", "expired"},
                   session : Sessions \cup {None}, device : Devices \cup {None}]
          /\ told' \in [Sessions -> [state : {None, "pending", "completed", "mismatched", "stopped", "expired"},
                              device : Devices \cup {None}]]
        BY <1>0, <2>1, <2>2, PublishStep
    <2> QED  BY <1>0, <2>3 DEF TypeMemory
<1>3. TypeOK'
    <2>1. TypeTables' /\ TypeCounts'
        BY <1>0 DEF TypeTables, TypeCounts
    <2> QED  BY <1>2, <2>1, TypeParts2
<1>4. Turns'
    <2>1. \A u \in Threads : ~Working(thread'[u])
        BY <1>1 DEF Working
    <2>2. ASSUME NEW u \in Threads, thread'[u].pc # "idle"
          PROVE  /\ thread'[u].session = active /\ (~thread'[u].asked => busy)
                 /\ thread'[u].asked => state = "accepted"
        <3>1. CASE u = t
            BY <1>1, <2>2, <3>1
        <3>2. CASE u # t
            BY <1>1, <2>2, <3>2 DEF IInv, Turns
        <3> QED  BY <3>1, <3>2
    <2>3. ASSUME NEW u \in Threads, NEW v \in Threads, u # v, thread'[u].pc # "idle", thread'[v].pc # "idle"
          PROVE  thread'[u].asked \/ thread'[v].asked
        <3>1. thread[u].pc # "idle" /\ thread[v].pc # "idle"
            BY <2>3 DEF Working
        <3>2. thread'[u].asked = thread[u].asked /\ thread'[v].asked = thread[v].asked
            BY <2>3
        <3> QED  BY <1>1, <2>3, <3>1, <3>2 DEF IInv, Turns
    <2> QED  BY <1>2, <2>1, <2>2, <2>3 DEF Turns
<1>5. Claims'
    BY OthersClaims
<1>6. Answers'
    <2>1. 0 \notin Codes /\ code[active].at \in Codes
        BY <1>1 DEF Codes, IInv, Answers
    <2>2. state \notin Open
        BY DEF Open
    <2>3. state = "accepted" =>
             /\ row[active] \notin {NoRow, Gone} /\ row[active].device = thread[t].device
             /\ bound[row[active].folder] = thread[t].device
             /\ key[thread[t].device] # NoKey /\ key[thread[t].device][1] = active
        <3>1. [device |-> thread[t].device, folder |-> thread[t].folder] \in [device : Devices, folder : Folders]
                 \/ state # "accepted"
            BY <1>1
        <3>2. <<thread[t].session, thread[t].code>> \in Sessions \X Codes
            BY <1>1
        <3> QED  BY <1>1, <3>1, <3>2, Nones
    <2> QED  BY <1>1, <1>2, <2>1, <2>2, <2>3 DEF Answers, IInv
<1>7. Refs'
    <2>1. Removing'
        BY WorkRemoving
    <2> QED  BY <2>1 DEF Refs, IInv, ReferencesHold, OneFolder, Served
<1> QED
    BY <1>3, <1>4, <1>5, <1>6, <1>7 DEF IInv

LEMMA CancelInv ==
    ASSUME IInv, NEW t \in Threads, Cancel(t)
    PROVE  IInv'
<1>0. TypeThread /\ TypeMemory /\ TypeTables /\ TypeCounts
    BY TypeParts DEF IInv
<1>1. /\ thread[t].pc = "ask" /\ Working(thread[t]) /\ thread' = [thread EXCEPT ![t] = Idle]
      /\ UNCHANGED <<active, again, code, busy, tables, removing, faults>>
    BY DEF Cancel, Working
<1>2. TypeThread' /\ thread'[t] = Idle /\ \A u \in Threads \ {t} : thread'[u] = thread[u]
    BY <1>0, <1>1, IdleStep
<1>3. ClaimOK(thread[t])' /\ thread'[t].pc = "idle"
    BY <1>2 DEF ClaimOK, Idle
<1>4. thread[t].asked
    BY <1>1, WorkFacts DEF ClaimOK
<1>5. CASE active = thread[t].session
    <2>1. Publish(active, "stopped", thread[t].device)
        BY <1>5 DEF Cancel
    <2> QED  BY <1>1, <1>2, <1>3, <1>4, <1>5, <2>1, PublishInv
<1>6. CASE active # thread[t].session
    <2>1. UNCHANGED <<result, told>>
        BY <1>6 DEF Cancel
    <2>2. active = None
        BY <1>1, <1>6, WorkFacts
    <2>3. TypeOK'
        <3>1. TypeMemory' /\ TypeTables' /\ TypeCounts'
            BY <1>0, <1>1, <2>1 DEF TypeMemory, TypeTables, TypeCounts
        <3> QED  BY <1>2, <3>1, TypeParts2
    <2>4. Turns'
        BY <1>1, <1>2, <1>3, <2>2 DEF IInv, Turns, Working
    <2>5. Claims'
        BY <1>1, <1>2, <1>3, OthersClaims
    <2>6. Answers' /\ Removing'
        BY <1>1, <2>1, SameAnswers, WorkRemoving DEF IInv
    <2>7. ReferencesHold' /\ OneFolder'
        BY <1>1 DEF Refs, IInv, ReferencesHold, OneFolder, Served
    <2> QED  BY <2>3, <2>4, <2>5, <2>6, <2>7 DEF IInv, Refs
<1> QED
    BY <1>5, <1>6

\* `finally` makes way for the next claim of the session, if there may be one.
LEMMA EndInv ==
    ASSUME IInv, NEW t \in Threads, End(t)
    PROVE  IInv'
<1>0. TypeThread /\ TypeMemory /\ TypeTables /\ TypeCounts
    BY TypeParts DEF IInv
<1>1. /\ thread[t].pc = "end" /\ thread' = [thread EXCEPT ![t] = Idle] /\ busy' = (busy /\ thread[t].asked)
      /\ UNCHANGED <<active, again, code, result, told, tables, removing, faults>>
    BY DEF End
<1>2. TypeThread' /\ thread'[t] = Idle /\ \A u \in Threads \ {t} : thread'[u] = thread[u]
    BY <1>0, <1>1, IdleStep
<1>3. thread'[t].pc = "idle" /\ ClaimOK(thread[t])'
    BY <1>2 DEF ClaimOK, Idle
<1>4. TypeOK'
    <2>1. TypeMemory' /\ TypeTables' /\ TypeCounts'
        BY <1>0, <1>1 DEF TypeMemory, TypeTables, TypeCounts
    <2> QED  BY <1>2, <2>1, TypeParts2
<1>5. Answers' /\ Refs'
    <2>1. Removing'
        BY <1>1 DEF IInv, Refs, Removing
    <2> QED  BY <1>1, <2>1, SameAnswers DEF IInv, Refs, ReferencesHold, OneFolder, Served
<1>6. Claims'
    <2>1. ASSUME NEW u \in Threads \ {t} PROVE ClaimOK(thread[u])'
        <3>1. ClaimOK(thread[u]) /\ thread'[u] = thread[u]
            BY <1>2 DEF IInv, Claims
        <3> QED  BY <1>1, <3>1 DEF ClaimOK
    <2> QED  BY <1>3, <2>1 DEF Claims
<1>7. Turns'
    <2>1. \A u \in Threads : thread'[u].pc # "idle" => u # t /\ thread'[u] = thread[u]
        BY <1>2, <1>3
    <2>2. \A u, v \in Threads : u # v /\ Working(thread'[u]) /\ thread'[v].pc # "idle" =>
              thread'[u].asked /\ thread'[v].pc = "end" /\ ~thread'[v].asked
        BY <2>1 DEF IInv, Turns, Working
    <2>3. CASE thread[t].asked \/ active = None
        <3>1. active # None => busy' = busy
            BY <1>0, <1>1, <2>3 DEF TypeMemory
        <3> QED  BY <1>1, <2>1, <2>2, <3>1 DEF IInv, Turns
    <2>4. CASE ~thread[t].asked /\ active # None
        <3>1. ASSUME NEW u \in Threads, thread'[u].pc # "idle" PROVE thread'[u].asked
            <4>1. CASE Working(thread[u])
                BY <1>1, <2>1, <3>1, <4>1 DEF IInv, Turns
            <4>2. CASE ~Working(thread[u])
                BY <1>1, <2>1, <2>4, <3>1, <4>2 DEF IInv, Turns
            <4> QED  BY <4>1, <4>2
        <3> QED  BY <1>1, <2>1, <2>2, <3>1 DEF IInv, Turns
    <2> QED  BY <2>3, <2>4
<1> QED
    BY <1>4, <1>5, <1>6, <1>7 DEF IInv

\* Ids of rows are ids.
LEMMA FoldersSet == ASSUME TypeTables PROVE folders \subseteq Folders
BY Nones DEF TypeTables, Folders

\* A thread goes on and writes tables.
LEMMA WriteInv ==
    ASSUME IInv, NEW t \in Threads, Working(thread[t]), NEW pc \in Pcs \ {"idle"}, Moved(t, pc), TypeThread',
           ClaimOK(thread[t])', UNCHANGED <<memory, removing, faults>>,
           TypeTables', ReferencesHold', OneFolder',
           active # None /\ again # NoContext /\ result.state \in Open => bound'[again.folder] = again.device
    PROVE  IInv'
<1>1. TypeOK'
    <2>1. TypeMemory' /\ TypeCounts'
        BY TypeParts DEF IInv, TypeMemory, TypeCounts
    <2> QED  BY <2>1, TypeParts2
<1>2. Turns' /\ Claims'
    BY MovedTurns, OthersClaims DEF IInv, Moved
<1>3. Answers' /\ Removing'
    BY WorkAnswers, WorkRemoving
<1> QED
    BY <1>1, <1>2, <1>3 DEF IInv, Refs

\* What the open session promises of its folder.
LEMMA Promised ==
    ASSUME IInv, active # None, again # NoContext, result.state \in Open
    PROVE  bound[again.folder] = again.device /\ again.folder \in Folders /\ again.device \in Devices
BY TypeParts DEF IInv, Answers, TypeMemory

\* The phone's key is stored, and is the one of this session.
LEMMA AcceptDeviceInv ==
    ASSUME IInv, NEW t \in Threads, AcceptDevice(t)
    PROVE  IInv'
<1>0. TypeThread /\ TypeMemory /\ TypeTables /\ TypeCounts
    BY TypeParts DEF IInv
<1>1. /\ thread[t].pc = "device" /\ Working(thread[t]) /\ Goto(t, "folder")
      /\ key' = [key EXCEPT ![thread[t].device] = <<thread[t].session, thread[t].code>>]
      /\ UNCHANGED <<memory, folders, made, bound, row, assets, removing, faults>>
    BY DEF AcceptDevice, Working
<1>2. /\ ClaimOK(thread[t]) /\ thread[t].session \in Sessions /\ thread[t].device \in Devices
      /\ <<thread[t].session, thread[t].code>> \in Sessions \X Codes
    BY <1>1, WorkFacts
<1>3. Moved(t, "folder") /\ TypeThread' /\ thread'[t].choice = thread[t].choice
    BY <1>0, <1>1, GotoStep DEF Pcs
<1>4. /\ key' \in [Devices -> (Sessions \X Codes) \cup {NoKey}]
      /\ key'[thread[t].device] = <<thread[t].session, thread[t].code>>
      /\ \A d \in Devices : key[d] # NoKey => key'[d] # NoKey
    BY <1>0, <1>1, <1>2, Nones DEF TypeTables
<1>5. ClaimOK(thread[t])'
    BY <1>1, <1>2, <1>3, <1>4 DEF ClaimOK, Moved
<1>6. TypeTables'
    BY <1>0, <1>1, <1>4 DEF TypeTables
<1>7. ReferencesHold' /\ OneFolder'
    <2>1. \A s \in Sessions : row[s] \notin {NoRow, Gone} => row[s].device \in Devices
        BY <1>0 DEF TypeTables
    <2>2. \A s \in Sessions : row[s] \notin {NoRow, Gone} /\ Served(s) => Served(s)'
        BY <1>1, <1>4, <2>1 DEF Served
    <2>3. \A f \in Folders : bound[f] # None => bound[f] \in Devices
        BY <1>0 DEF TypeTables
    <2>4. assets \subseteq Devices
        BY <1>0 DEF TypeTables
    <2> QED  BY <1>1, <1>4, <2>2, <2>3, <2>4 DEF IInv, Refs, ReferencesHold, OneFolder
<1> QED
    BY <1>1, <1>3, <1>5, <1>6, <1>7, WriteInv, Promised DEF Pcs

\* The new folder of the phone is bound to it, and to no other.
LEMMA AcceptBindInv ==
    ASSUME IInv, NEW t \in Threads, AcceptBind(t)
    PROVE  IInv'
<1>0. TypeThread /\ TypeMemory /\ TypeTables /\ TypeCounts
    BY TypeParts DEF IInv
<1>1. /\ thread[t].pc = "bind" /\ Working(thread[t])
      /\ UNCHANGED <<memory, key, folders, made, row, assets, removing, faults>>
    BY DEF AcceptBind, Working
<1>2. /\ ClaimOK(thread[t]) /\ thread[t].session \in Sessions /\ thread[t].device \in Devices
      /\ thread[t].code \in Codes /\ <<thread[t].session, thread[t].code>> # NoKey
    <2>1. <<thread[t].session, thread[t].code>> \in Sessions \X Codes
        BY <1>1, WorkFacts
    <2> QED  BY <1>1, <2>1, WorkFacts, Nones
<1>3. CASE \E f \in Folders : bound[f] = thread[t].device
    <2>1. Goto(t, "end") /\ UNCHANGED bound
        BY <1>3 DEF AcceptBind
    <2>2. Moved(t, "end") /\ TypeThread' /\ thread'[t].choice = thread[t].choice
        BY <1>0, <2>1, GotoStep DEF Pcs
    <2>3. ClaimOK(thread[t])'
        BY <1>1, <1>2, <2>2 DEF ClaimOK, Moved
    <2> QED  BY <1>1, <2>1, <2>2, <2>3, GoInv DEF Pcs
<1>4. CASE \A f \in Folders : bound[f] # thread[t].device
    <2>1. Goto(t, "session") /\ bound' = [bound EXCEPT ![thread[t].folder] = thread[t].device]
        BY <1>4 DEF AcceptBind
    <2>2. /\ Moved(t, "session") /\ TypeThread' /\ thread'[t].choice = thread[t].choice
          /\ thread'[t].folder = thread[t].folder
        BY <1>0, <2>1, GotoStep DEF Pcs
    <2>3. /\ thread[t].folder \in Folders /\ thread[t].folder \in folders /\ bound[thread[t].folder] = None
          /\ key[thread[t].device] # NoKey /\ key[thread[t].device] = <<thread[t].session, thread[t].code>>
        BY <1>0, <1>1, <1>2, FoldersSet DEF ClaimOK
    <2>4. /\ bound'[thread[t].folder] = thread[t].device
          /\ \A g \in Folders \ {thread[t].folder} : bound'[g] = bound[g]
          /\ bound' \in [Folders -> Devices \cup {None}]
        BY <1>0, <1>2, <2>1, <2>3 DEF TypeTables
    <2>5. ClaimOK(thread[t])'
        BY <1>1, <1>2, <2>2, <2>3, <2>4 DEF ClaimOK, Moved
    <2>6. TypeTables'
        BY <1>0, <1>1, <2>4 DEF TypeTables
    <2>7. ReferencesHold'
        BY <1>1, <2>3, <2>4 DEF IInv, Refs, ReferencesHold, Served
    <2>8. OneFolder'
        BY <1>4, <2>4 DEF IInv, Refs, OneFolder
    <2>9. active # None /\ again # NoContext /\ result.state \in Open => bound'[again.folder] = again.device
        BY <2>3, <2>4, Promised, Nones
    <2> QED  BY <1>1, <2>2, <2>5, <2>6, <2>7, <2>8, <2>9, WriteInv DEF Pcs
<1> QED
    BY <1>3, <1>4

\* The session's row names the folder bound to the phone.
LEMMA AcceptSessionInv ==
    ASSUME IInv, NEW t \in Threads, AcceptSession(t)
    PROVE  IInv'
<1>0. TypeThread /\ TypeMemory /\ TypeTables /\ TypeCounts
    BY TypeParts DEF IInv
<1>1. /\ thread[t].pc = "session" /\ Working(thread[t])
      /\ UNCHANGED <<memory, key, folders, made, bound, assets, removing, faults>>
    BY DEF AcceptSession, Working
<1>2. /\ ClaimOK(thread[t]) /\ thread[t].session \in Sessions /\ thread[t].device \in Devices
      /\ thread[t].code \in Codes /\ <<thread[t].session, thread[t].code>> # NoKey
    <2>1. <<thread[t].session, thread[t].code>> \in Sessions \X Codes
        BY <1>1, WorkFacts
    <2> QED  BY <1>1, <2>1, WorkFacts, Nones
<1>3. CASE row[thread[t].session] \notin {NoRow, Gone}
    <2>1. Goto(t, "end") /\ UNCHANGED row
        BY <1>3 DEF AcceptSession
    <2>2. Moved(t, "end") /\ TypeThread' /\ thread'[t].choice = thread[t].choice
        BY <1>0, <2>1, GotoStep DEF Pcs
    <2>3. ClaimOK(thread[t])'
        BY <1>1, <1>2, <2>2 DEF ClaimOK, Moved
    <2> QED  BY <1>1, <2>1, <2>2, <2>3, GoInv DEF Pcs
<1>4. CASE row[thread[t].session] \in {NoRow, Gone}
    <2>1. /\ Goto(t, "publish")
          /\ row' = [row EXCEPT ![thread[t].session] = [device |-> thread[t].device, folder |-> thread[t].folder]]
        BY <1>4 DEF AcceptSession
    <2>2. /\ Moved(t, "publish") /\ TypeThread' /\ thread'[t].choice = thread[t].choice
          /\ thread'[t].folder = thread[t].folder
        BY <1>0, <2>1, GotoStep DEF Pcs
    <2>3. /\ thread[t].folder \in Folders /\ thread[t].folder \in folders
          /\ bound[thread[t].folder] = thread[t].device
          /\ key[thread[t].device] # NoKey /\ key[thread[t].device] = <<thread[t].session, thread[t].code>>
        BY <1>0, <1>1, <1>2, FoldersSet DEF ClaimOK
    <2>4. PICK n \in [device : Devices, folder : Folders] :
             n = [device |-> thread[t].device, folder |-> thread[t].folder]
        BY <1>2, <2>3
    <2>5. /\ row'[thread[t].session] = n
          /\ \A s \in Sessions \ {thread[t].session} : row'[s] = row[s]
          /\ row' \in [Sessions -> [device : Devices, folder : Folders] \cup {NoRow, Gone}]
        BY <1>0, <1>2, <2>1, <2>4 DEF TypeTables
    <2>6. ClaimOK(thread[t])'
        BY <1>1, <1>2, <2>2, <2>3, <2>4, <2>5 DEF ClaimOK, Moved
    <2>7. TypeTables'
        BY <1>0, <1>1, <2>5 DEF TypeTables
    <2>8. ReferencesHold' /\ OneFolder'
        <3>1. n.device = thread[t].device /\ n.folder = thread[t].folder
            BY <2>4
        <3>2. \A s \in Sessions : row'[s] \notin {NoRow, Gone} => Served(s)'
            BY <1>1, <2>3, <2>5, <3>1 DEF IInv, Refs, ReferencesHold, Served
        <3> QED  BY <1>1, <3>2 DEF IInv, Refs, ReferencesHold, OneFolder
    <2> QED  BY <1>1, <2>2, <2>6, <2>7, <2>8, WriteInv, Promised DEF Pcs
<1> QED
    BY <1>3, <1>4

\* The acceptance is published when all of it is written.
LEMMA AcceptPublishInv ==
    ASSUME IInv, NEW t \in Threads, AcceptPublish(t)
    PROVE  IInv'
<1>0. TypeThread /\ TypeMemory /\ TypeTables /\ TypeCounts
    BY TypeParts DEF IInv
<1>1. /\ thread[t].pc = "publish" /\ Working(thread[t]) /\ Goto(t, "end")
      /\ UNCHANGED <<active, again, code, busy, tables, removing, faults>>
    BY DEF AcceptPublish, Working
<1>2. ClaimOK(thread[t])
    BY <1>1, WorkFacts
<1>3. Moved(t, "end") /\ TypeThread' /\ thread'[t].choice = thread[t].choice
    BY <1>0, <1>1, GotoStep DEF Pcs
<1>4. ClaimOK(thread[t])'
    BY <1>1, <1>2, <1>3 DEF ClaimOK, Moved
<1>5. CASE active = thread[t].session
    <2>1. Publish(active, "accepted", thread[t].device)
        BY <1>5 DEF AcceptPublish
    <2>2. /\ row[active] = [device |-> thread[t].device, folder |-> thread[t].folder]
          /\ thread[t].folder \in Folders /\ bound[thread[t].folder] = thread[t].device
          /\ key[thread[t].device] = <<thread[t].session, thread[t].code>>
        BY <1>0, <1>1, <1>2, <1>5, FoldersSet DEF ClaimOK
    <2> QED  BY <1>1, <1>3, <1>4, <1>5, <2>1, <2>2, PublishInv DEF Moved
<1>6. CASE active # thread[t].session
    <2>1. UNCHANGED memory
        BY <1>1, <1>6 DEF AcceptPublish
    <2> QED  BY <1>1, <1>3, <1>4, <2>1, GoInv DEF Pcs
<1> QED
    BY <1>5, <1>6

\* A phone without stale folders keeps all its rows.
LEMMA NoStale ==
    ASSUME IInv, NEW d \in Devices
    PROVE  Stale(d) = {}
BY Nones DEF IInv, Refs, ReferencesHold, Stale

\* The choice of AcceptFolder.
Chosen(t, f, pc) ==
    /\ thread' = [thread EXCEPT ![t].pc = pc, ![t].folder = f]
    /\ \/ /\ pc = "session" /\ f \in folders /\ bound[f] = thread[t].device /\ UNCHANGED <<folders, made>>
       \/ /\ pc = "bind" /\ made < MaxFolders /\ f = made + 1 /\ made' = f /\ folders' = folders \cup {f}

\* The folder of the phone, or a new one, which is bound to it in the next commit.
LEMMA AcceptFolderInv ==
    ASSUME IInv, NEW t \in Threads, AcceptFolder(t)
    PROVE  IInv'
<1>0. TypeThread /\ TypeMemory /\ TypeTables /\ TypeCounts
    BY TypeParts DEF IInv
<1>1. thread[t].pc = "folder" /\ Working(thread[t]) /\ UNCHANGED <<memory, removing, faults>>
    BY DEF AcceptFolder, Working
<1>2. /\ ClaimOK(thread[t]) /\ thread[t].session \in Sessions /\ thread[t].device \in Devices
      /\ thread[t].code \in Codes /\ thread[t] \in ThreadType
      /\ key[thread[t].device] = <<thread[t].session, thread[t].code>>
    BY <1>1, WorkFacts DEF ClaimOK
<1>3. Stale(thread[t].device) = {}
    BY <1>2, NoStale
<1>4. UNCHANGED <<bound, key, assets, row>>
    BY <1>3 DEF AcceptFolder
<1>4a. PICK pc \in {"session", "bind"} : \E f : Chosen(t, f, pc)
    <2>1. \E f : Chosen(t, f, "session") \/ Chosen(t, f, "bind")
        <3>1. ASSUME NEW f \in folders, bound[f] = thread[t].device, UNCHANGED <<folders, made>>,
                     thread' = [thread EXCEPT ![t].pc = "session", ![t].folder = f]
              PROVE  Chosen(t, f, "session")
            BY <3>1 DEF Chosen
        <3>2. ASSUME made < MaxFolders, made' = made + 1, folders' = folders \cup {made'},
                     thread' = [thread EXCEPT ![t].pc = "bind", ![t].folder = made']
              PROVE  Chosen(t, made + 1, "bind")
            BY <3>2 DEF Chosen
        <3> QED  BY <3>1, <3>2 DEF AcceptFolder
    <2> QED  BY <2>1
<1>4b. PICK f : Chosen(t, f, pc)
    BY <1>4a
<1>5. /\ pc \in {"session", "bind"}
      /\ thread' = [thread EXCEPT ![t].pc = pc, ![t].folder = f]
      /\ \/ /\ pc = "session" /\ f \in folders /\ bound[f] = thread[t].device /\ UNCHANGED <<folders, made>>
         \/ /\ pc = "bind" /\ made < MaxFolders /\ f = made + 1 /\ made' = f /\ folders' = folders \cup {f}
    BY <1>4a, <1>4b DEF Chosen
<1>6. f \in Folders /\ f \in 0..MaxFolders /\ f \in folders'
    BY <1>0, <1>5, FoldersSet, Nones DEF Folders, TypeTables
<1>7. /\ Moved(t, pc) /\ TypeThread' /\ thread'[t].choice = thread[t].choice /\ thread'[t].folder = f
    <2>1. [thread[t] EXCEPT !.pc = pc, !.folder = f] \in ThreadType
        BY <1>2, <1>6 DEF ThreadType
    <2>2. thread' = [thread EXCEPT ![t] = [thread[t] EXCEPT !.pc = pc, !.folder = f]]
        BY <1>5
    <2>3. TypeThread'
        BY <1>0, <2>1, <2>2 DEF TypeThread
    <2>4. Moved(t, pc) /\ thread'[t].choice = thread[t].choice /\ thread'[t].folder = f
        BY <1>0, <1>2, <2>2 DEF TypeThread, ThreadType, Moved
    <2> QED  BY <2>3, <2>4
<1>8. TypeTables'
    BY <1>0, <1>4, <1>5, Nones DEF TypeTables
<1>9. pc = "bind" => bound[f] = None
    <2>1. pc = "bind" => f \notin folders
        BY <1>0, <1>5, Nones DEF TypeTables
    <2> QED  BY <1>6, <2>1 DEF IInv, Refs, ReferencesHold
<1>10. ClaimOK(thread[t])'
    BY <1>1, <1>2, <1>4, <1>5, <1>6, <1>7, <1>9 DEF ClaimOK, Moved
<1>11. ReferencesHold' /\ OneFolder'
    <2>1. folders \subseteq folders'
        BY <1>5
    <2> QED  BY <1>4, <2>1 DEF IInv, Refs, ReferencesHold, OneFolder, Served
<1> QED
    BY <1>1, <1>4, <1>7, <1>8, <1>10, <1>11, WriteInv, Promised DEF Pcs

\* All that belonged to the previous phone of the folder is the new one's.
LEMMA AcceptRepairInv ==
    ASSUME IInv, NEW t \in Threads, AcceptRepair(t)
    PROVE  IInv'
<1>0. TypeThread /\ TypeMemory /\ TypeTables /\ TypeCounts
    BY TypeParts DEF IInv
<1>1. /\ thread[t].pc = "folder" /\ Working(thread[t]) /\ Repairing(thread[t])
      /\ UNCHANGED <<memory, folders, made, removing, faults>>
    BY DEF AcceptRepair, Working
<1>2. /\ ClaimOK(thread[t]) /\ thread[t].session \in Sessions /\ thread[t].device \in Devices
      /\ thread[t].code \in Codes /\ thread[t] \in ThreadType
      /\ <<thread[t].session, thread[t].code>> # NoKey
    <2>1. <<thread[t].session, thread[t].code>> \in Sessions \X Codes
        BY <1>1, WorkFacts
    <2> QED  BY <1>1, <2>1, WorkFacts, Nones
<1>3. CASE \E g \in Folders \ {thread[t].again.folder} : bound[g] = thread[t].device
    <2>1. Goto(t, "end") /\ UNCHANGED <<key, bound, row, assets>>
        BY <1>3 DEF AcceptRepair
    <2>2. Moved(t, "end") /\ TypeThread' /\ thread'[t].choice = thread[t].choice
        BY <1>0, <2>1, GotoStep DEF Pcs
    <2>3. ClaimOK(thread[t])'
        BY <1>1, <1>2, <2>2 DEF ClaimOK, Moved
    <2> QED  BY <1>1, <2>1, <2>2, <2>3, GoInv DEF Pcs
<1>4. CASE \A g \in Folders \ {thread[t].again.folder} : bound[g] # thread[t].device
    <2>1. PICK f \in Folders, p \in Devices, d \in Devices :
             /\ f = thread[t].again.folder /\ p = thread[t].again.device /\ d = thread[t].device
             /\ p # d /\ bound[f] = p /\ key[d] # NoKey
             /\ key[d] = <<thread[t].session, thread[t].code>> /\ thread[t].asked
        BY <1>1, <1>2 DEF Repairing, ClaimOK, ThreadType
    <2>2. f \in folders
        BY <2>1, Nones DEF IInv, Refs, ReferencesHold
    <2>3. /\ row' = [s \in Sessions |-> IF row[s] \notin {NoRow, Gone} /\ row[s].device = p
                                        THEN [device |-> d, folder |-> f] ELSE row[s]]
          /\ bound' = [bound EXCEPT ![f] = d]
          /\ key' = [key EXCEPT ![p] = NoKey]
          /\ assets' = IF p \in assets THEN (assets \ {p}) \cup {d} ELSE assets
          /\ thread' = [thread EXCEPT ![t].pc = "session", ![t].folder = f]
        BY <1>0, <1>4, <2>1, Nones DEF AcceptRepair, RepairRows, TypeTables
    <2>4. /\ Moved(t, "session") /\ TypeThread' /\ thread'[t].choice = thread[t].choice /\ thread'[t].folder = f
        <3>0. f \in 0..MaxFolders
            BY Nones DEF Folders
        <3>1. [thread[t] EXCEPT !.pc = "session", !.folder = f] \in ThreadType
            BY <1>2, <3>0 DEF ThreadType
        <3>2. thread' = [thread EXCEPT ![t] = [thread[t] EXCEPT !.pc = "session", !.folder = f]]
            BY <2>3
        <3>3. TypeThread'
            BY <1>0, <3>1, <3>2 DEF TypeThread
        <3>4. Moved(t, "session") /\ thread'[t].choice = thread[t].choice /\ thread'[t].folder = f
            BY <1>0, <1>2, <3>2 DEF TypeThread, ThreadType, Moved
        <3> QED  BY <3>3, <3>4
    <2>5. /\ bound'[f] = d /\ \A g \in Folders \ {f} : bound'[g] = bound[g] /\ bound[g] # d
          /\ bound' \in [Folders -> Devices \cup {None}]
        BY <1>0, <1>4, <2>1, <2>3 DEF TypeTables
    <2>6. /\ key'[d] = key[d] /\ \A e \in Devices \ {p} : key'[e] = key[e]
          /\ key' \in [Devices -> (Sessions \X Codes) \cup {NoKey}]
        BY <1>0, <2>1, <2>3 DEF TypeTables
    <2>7. \A g \in Folders \ {f} : bound[g] # p
        BY <2>1, Nones DEF IInv, Refs, OneFolder
    <2>8. PICK n \in [device : Devices, folder : Folders] :
             n = [device |-> d, folder |-> f] /\ n.device = d /\ n.folder = f
        <3>1. [device |-> d, folder |-> f] \in [device : Devices, folder : Folders]
            OBVIOUS
        <3> QED  BY <3>1
    <2>9. /\ row' \in [Sessions -> [device : Devices, folder : Folders] \cup {NoRow, Gone}]
          /\ \A s \in Sessions : row'[s] \notin {NoRow, Gone} =>
                row'[s] = n \/ (row'[s] = row[s] /\ row[s].device # p)
        BY <1>0, <2>3, <2>8 DEF TypeTables
    <2>10. assets' \subseteq Devices /\ \A e \in assets' : e = d \/ (e \in assets /\ e # p)
        BY <1>0, <2>3 DEF TypeTables
    <2>11. TypeTables'
        BY <1>0, <1>1, <2>5, <2>6, <2>9, <2>10 DEF TypeTables
    <2>12. ClaimOK(thread[t])'
        BY <1>1, <1>2, <2>1, <2>2, <2>4, <2>5, <2>6 DEF ClaimOK, Moved
    <2>13. ReferencesHold'
        <3>1. ASSUME NEW g \in Folders, bound'[g] # None PROVE key'[bound'[g]] # NoKey /\ g \in folders'
            <4>1. CASE g = f
                BY <1>1, <2>1, <2>2, <2>5, <2>6, <4>1
            <4>2. CASE g # f
                <5>1. bound'[g] = bound[g] /\ bound[g] \in Devices /\ bound[g] # p
                    BY <1>0, <2>5, <2>7, <3>1, <4>2 DEF TypeTables
                <5> QED  BY <1>1, <2>6, <3>1, <5>1 DEF IInv, Refs, ReferencesHold
            <4> QED  BY <4>1, <4>2
        <3>2. ASSUME NEW s \in Sessions, row'[s] \notin {NoRow, Gone} PROVE Served(s)'
            <4>1. CASE row'[s] = n
                BY <1>1, <2>1, <2>2, <2>6, <2>8, <3>2, <4>1 DEF Served
            <4>2. CASE row'[s] = row[s] /\ row[s].device # p
                <5>1. Served(s) /\ row[s].device \in Devices
                    BY <1>0, <3>2, <4>2 DEF IInv, Refs, ReferencesHold, TypeTables
                <5> QED  BY <1>1, <2>6, <3>2, <4>2, <5>1 DEF Served
            <4> QED  BY <2>9, <3>2, <4>1, <4>2
        <3>3. \A e \in assets' : key'[e] # NoKey
            BY <1>0, <2>1, <2>6, <2>10 DEF IInv, Refs, ReferencesHold, TypeTables
        <3> QED  BY <3>1, <3>2, <3>3 DEF ReferencesHold
    <2>14. OneFolder'
        BY <2>5 DEF IInv, Refs, OneFolder
    <2>15. ~(active # None /\ result.state \in Open)
        BY <1>1, <2>1, WorkFacts DEF Open
    <2> QED  BY <1>1, <2>4, <2>11, <2>12, <2>13, <2>14, <2>15, WriteInv DEF Pcs
<1> QED
    BY <1>3, <1>4

-----------------------------------------------------------------------------
(* The theorems. *)

\* The invariant holds at first.
LEMMA InitInv == Init => IInv
<1> SUFFICES ASSUME Init PROVE IInv
    OBVIOUS
<1>1. TypeThread
    BY Nones DEF Init, TypeThread, ThreadType, Idle
<1>2. TypeMemory
    <2>1. [at |-> 0, expired |-> FALSE] \in [at : 0..MaxCodes, expired : BOOLEAN]
        BY Nones
    <2>2. code \in [Sessions -> [at : 0..MaxCodes, expired : BOOLEAN]]
        BY <2>1 DEF Init
    <2>3. told \in [Sessions -> [state : {None, "pending", "completed", "mismatched", "stopped", "expired"},
                                device : Devices \cup {None}]]
        BY DEF Init
    <2> QED  BY <2>2, <2>3 DEF Init, TypeMemory
<1>3. TypeTables /\ TypeCounts
    BY Nones DEF Init, TypeTables, TypeCounts
<1>4. TypeOK
    BY <1>1, <1>2, <1>3, TypeParts
<1>5. Turns /\ Claims
    BY IdleOK DEF Init, Turns, Claims, Working, ClaimOK, Idle
<1>6. Answers /\ Refs
    BY DEF Init, Answers, Refs, ReferencesHold, OneFolder, Removing
<1> QED
    BY <1>4, <1>5, <1>6 DEF IInv

\* Every step keeps the invariant.
LEMMA StepInv == OneAtATime /\ IInv /\ [Next]_vars => IInv'
<1> SUFFICES ASSUME OneAtATime, IInv, [Next]_vars PROVE IInv'
    OBVIOUS
<1>1. CASE UNCHANGED vars
    <2>1. TypeThread' /\ TypeMemory' /\ TypeTables' /\ TypeCounts'
        BY <1>1, TypeParts DEF IInv, vars, TypeThread, TypeMemory, TypeTables, TypeCounts
    <2>2. Turns' /\ Claims' /\ Answers' /\ Refs'
        BY <1>1, SameTurns, SameClaims, SameAnswers, SameRefs DEF IInv, vars
    <2> QED  BY <2>1, <2>2, TypeParts2 DEF IInv
<1>2. CASE \E s \in Sessions : Transfer(s)
    BY <1>2, TransferInv
<1>3. CASE Dialog \/ Expire \/ RemoveRow \/ Restart
    BY <1>3, StartInv, CodeInv, CloseInv, RemoveRowInv, RestartInv DEF Dialog
<1>4. CASE \E f \in Folders : RemoveData(f)
    BY <1>4, RemoveDataInv
<1>5. ASSUME NEW t \in Threads, Step(t) PROVE IInv'
    BY <1>5, MismatchInv, MatchInv, AcceptDeviceInv, AcceptRepairInv, AcceptFolderInv, AcceptBindInv,
       AcceptSessionInv, AcceptPublishInv, EndInv DEF Step
<1>6. ASSUME NEW t \in Threads, Decide(t) PROVE IInv'
    BY <1>6, CancelInv, ChooseInv DEF Decide
<1>7. ASSUME NEW t \in Threads, NEW d \in Devices, Claim(t, d) PROVE IInv'
    BY <1>7, ClaimInv
<1> QED
    BY <1>1, <1>2, <1>3, <1>4, <1>5, <1>6, <1>7 DEF Next

\* The inductive invariant, when the threads of a session end before the next one
\* is opened and folders are removed outside of sessions.
THEOREM Invariance == OneAtATime => (Spec => []IInv)
<1> SUFFICES ASSUME OneAtATime PROVE Spec => []IInv
    OBVIOUS
<1>1. Init => IInv
    BY InitInv
<1>2. IInv /\ [Next]_vars => IInv'
    BY StepInv
<1> QED
    BY <1>1, <1>2, PTL DEF Spec

\* Sessions, claims and the tables of mobile_pairing_store.py keep their types.
THEOREM TypeCorrect == OneAtATime => (Spec => []TypeOK)
<1>1. IInv => TypeOK
    BY DEF IInv
<1> QED
    BY <1>1, Invariance, PTL

\* The declared references of the tables hold between any two commits of a claim,
\* a repair, or the removal of a folder, wherever the process ends.
THEOREM ReferencesHoldAlways == OneAtATime => (Spec => []ReferencesHold)
<1>1. IInv => ReferencesHold
    BY DEF IInv, Refs
<1> QED
    BY <1>1, Invariance, PTL

\* A phone that is shown as accepted is served, with the key of its own session.
THEOREM AcceptedIsServedHolds == OneAtATime => (Spec => []AcceptedIsServed)
<1>1. IInv => AcceptedIsServed
    <2> SUFFICES ASSUME IInv, result.state = "accepted" PROVE AcceptedIsServed
        BY DEF AcceptedIsServed
    <2>1. /\ result.session = active /\ active \in Sessions
          /\ row[active] \notin {NoRow, Gone} /\ row[active].device = result.device
          /\ bound[row[active].folder] = result.device
          /\ key[result.device] # NoKey /\ key[result.device][1] = active
        BY TypeParts DEF IInv, Answers, TypeMemory
    <2>2. Served(active)
        BY <2>1 DEF IInv, Refs, ReferencesHold
    <2> QED  BY <2>1, <2>2 DEF AcceptedIsServed
<1> QED
    BY <1>1, Invariance, PTL

\* No phone is told that its pairing is undone.
NotTakenBack ==
    \A s \in Sessions, d \in Devices :
        Polled(s, d) = "completed" => Polled(s, d)' \in {"completed", "unknown"}

\* What is told of one session, which was not "completed", may change.
LEMMA ToldOfOne ==
    ASSUME NEW q \in Sessions, told[q].state # "completed", \A s \in Sessions \ {q} : told'[s] = told[s]
    PROVE  NotTakenBack
<1> SUFFICES ASSUME NEW s \in Sessions, NEW d \in Devices, Polled(s, d) = "completed"
             PROVE  Polled(s, d)' \in {"completed", "unknown"}
    BY DEF NotTakenBack
<1>1. told[s].state = "completed"
    BY DEF Polled
<1>2. told'[s] = told[s]
    BY <1>1
<1> QED
    BY <1>2 DEF Polled

\* What is published of a session that nobody was accepted in takes nothing back.
LEMMA PublishKeeps ==
    ASSUME IInv, active # None, result.state # "accepted", NEW state, NEW d, Publish(active, state, d)
    PROVE  NotTakenBack
<1>1. /\ active \in Sessions /\ told[active].state = ToldAs[result.state]
      /\ result.state \in {"waiting", "mismatched", "stopped", "expired"}
    BY TypeParts DEF IInv, Answers, TypeMemory
<1>2. told[active].state # "completed"
    BY <1>1 DEF ToldAs
<1>3. \A s \in Sessions \ {active} : told'[s] = told[s]
    BY <1>1, TypeParts DEF IInv, TypeMemory, Publish
<1> QED
    BY <1>1, <1>2, <1>3, ToldOfOne

\* What the steps of a thread leave of what was told.
LEMMA ToldSteps ==
    ASSUME IInv, [Next]_vars
    PROVE  NotTakenBack
<1>1. CASE UNCHANGED told
    BY <1>1 DEF NotTakenBack, Polled
<1>2. CASE Restart
    BY <1>2 DEF Restart, NotTakenBack, Polled
<1>3. ASSUME NEW s \in Sessions, NEW a \in Contexts, StartSession(s, a) PROVE NotTakenBack
    <2>1. told[s].state # "completed"
        BY <1>3, TypeParts DEF StartSession, IInv, Answers, TypeMemory, None
    <2>2. Publish(s, "waiting", None) /\ \A q \in Sessions \ {s} : told'[q] = told[q]
        BY <1>3, TypeParts DEF StartSession, IInv, TypeMemory, Publish
    <2> QED  BY <2>1, <2>2, ToldOfOne
<1>4. CASE Close
    BY <1>1, <1>4, PublishKeeps DEF Close
<1>5. ASSUME NEW t \in Threads, NEW d \in Devices, Claim(t, d) PROVE NotTakenBack
    <2>1. active # None /\ result.state # "accepted"
        BY <1>5 DEF Claim, Decided
    <2> QED  BY <1>1, <1>5, <2>1, PublishKeeps DEF Claim
<1>6. ASSUME NEW t \in Threads, Mismatch(t) \/ Cancel(t) \/ AcceptPublish(t) PROVE NotTakenBack
    <2>1. Working(thread[t])
        BY <1>6 DEF Mismatch, Cancel, AcceptPublish, Working
    <2>2. result.state # "accepted" /\ thread[t].session # None
        BY <2>1, WorkFacts, Nones
    <2>3. \/ UNCHANGED told
          \/ active = thread[t].session /\ \E state, d : Publish(active, state, d)
        BY <1>6 DEF Mismatch, Cancel, AcceptPublish
    <2> QED  BY <1>1, <2>2, <2>3, PublishKeeps
<1> QED
    BY <1>1, <1>2, <1>3, <1>4, <1>5, <1>6
    DEF vars, Next, Transfer, Dialog, Refresh, Expire, RemoveRow, RemoveData, Step, Match, AcceptCheck, AcceptDevice,
        AcceptRepair, AcceptFolder, AcceptBind, AcceptSession, End, Decide, Choose

\* A phone that was accepted is told so until the process ends: no later claim, late
\* answer of the user, new code or closed dialog takes a pairing back.
THEOREM AnswerStableHolds == OneAtATime => (Spec => AnswerStable)
<1> SUFFICES ASSUME OneAtATime PROVE Spec => AnswerStable
    OBVIOUS
<1>1. Spec => []IInv
    BY Invariance
<1>2. IInv /\ [Next]_vars =>
          [\A s \in Sessions, d \in Devices :
              Polled(s, d) = "completed" => Polled(s, d)' \in {"completed", "unknown"}]_vars
    BY ToldSteps DEF NotTakenBack
<1> QED
    BY <1>1, <1>2, PTL DEF Spec, AnswerStable
=============================================================================
