------------------------------ MODULE UsbLink -------------------------------
(***************************************************************************)
(* The link over the USB cable: mobile/transport/usb_aoa_adapter.py with   *)
(* an Android phone (AoaClient.kt), and usb_ws_adapter.py with an iPhone   *)
(* (USBTransportServices.swift).                                           *)
(*                                                                         *)
(* A worker thread of the desktop opens the link again and again, demands  *)
(* a proof that the phone has scanned the current code, and then serves    *)
(* what the phone sends.  The bytes of an accessory ("aoa") wait in the    *)
(* cable whoever has opened it; those of a web socket ("ws") belong to one *)
(* connection.  A photo is sent as a start, chunks and a completion, and   *)
(* the desktop answers the completion.                                     *)
(***************************************************************************)
EXTENDS Integers, Sequences, FiniteSets

CONSTANTS
    Workers,    \* threads that may run the loop of the adapter
    Requests,   \* photos to be uploaded
    SlowStop,   \* may a worker outlive stop(), which waits two seconds?
    MaxConfigs, \* bound: codes that are shown
    MaxTries,   \* bound: attempts to upload photos
    Chunks,     \* chunks of a photo
    Cap,        \* bound: frames under way in one direction
    MaxFaults   \* bound: unplugged cables, resynchronisations and second scans of a code

None == "none"

ASSUME LinkAssumption ==
    /\ None \notin Workers /\ SlowStop \in BOOLEAN
    /\ MaxConfigs \in Nat \ {0} /\ MaxTries \in Nat \ {0} /\ Chunks \in Nat \ {0}
    /\ Cap \in Nat \ {0} /\ MaxFaults \in Nat

VARIABLES
    kind,     \* which adapter: "aoa" or "ws"
    known,    \* does the desktop have the backup session the photos are sent for?
    cfg,      \* _bootstrap_config: the code that is shown, 0 if none
    stopping, \* _stop_event
    current,  \* _worker_thread
    worker,   \* the threads: where each is, what it has captured, is its link open
    slot,     \* whose link is registered as the active one
    pending,  \* TransferAssetUploadStream: the uploads that have started
    given,    \* uploads that were handed to the router
    cable,    \* "out", "plain", or "accessory" for a phone in that mode
    up, down, \* frames to the desktop and to the phone
    phone,    \* "closed", "auth" or "connected"
    scanned,  \* the code that the phone has scanned
    conn,     \* "ws": whose connection the phone holds
    task,     \* the uploads of the phone
    faults

desktop == <<cfg, stopping, current>>
upload == <<pending, given>>
phoneVars == <<phone, scanned, conn, task>>
vars == <<kind, known, desktop, worker, slot, upload, cable, up, down, phoneVars, faults>>

Configs == 1..MaxConfigs
Tries == 1..MaxTries

\* A code that was scanned before the program was started.
Earlier == MaxConfigs + 1

\* A code and its refreshed code belong to one session and differ in the passcode.
SessionOf(c) == IF c = Earlier THEN 0 ELSE (c + 1) \div 2

\* The request id: the one of an Android phone is derived from the photo, so
\* that every attempt has the same; that of an iPhone is new each time.
Id(r, n) == IF kind = "aoa" THEN <<r, 0>> ELSE <<r, n>>

Frame(t, r, n, i) == [t |-> t, r |-> r, n |-> n, i |-> i, c |-> 0, fresh |-> FALSE]
Plain(t) == Frame(t, None, 0, 0)
Signed(t, c, fresh) == [t |-> t, r |-> None, n |-> 0, i |-> 0, c |-> c, fresh |-> fresh]

Frames == [t : {"proof", "refused", "start", "chunk", "complete", "torn", "challenge", "ok", "no"},
           r : Requests \cup {None}, n : 0..MaxTries, i : 0..Chunks, c : 0..Earlier, fresh : BOOLEAN]

TypeOK ==
    /\ kind \in {"aoa", "ws"} /\ known \in BOOLEAN
    /\ cfg \in 0..MaxConfigs /\ stopping \in BOOLEAN /\ current \in Workers \cup {None}
    /\ worker \in [Workers -> [pc : {"off", "head", "open", "challenge", "auth", "session", "wait"},
                               cfg : 0..MaxConfigs, auth : 0..MaxConfigs, open : BOOLEAN]]
    /\ slot \in Workers \cup {None}
    /\ pending \cup given \subseteq [r : Requests, n : Tries, got : Seq(Tries \X (1..Chunks))]
    /\ \A p, q \in pending : Id(p.r, p.n) = Id(q.r, q.n) => p = q
    /\ cable \in {"out", "plain", "accessory"}
    /\ up \in Seq(Frames) /\ Len(up) <= Cap /\ down \in Seq(Frames) /\ Len(down) <= Cap
    /\ phone \in {"closed", "auth", "connected"} /\ scanned \in 0..Earlier
    /\ conn \in Workers \cup {None}
    /\ task \in [Requests -> [st : {"new", "streaming", "waiting", "lost", "done", "failed"},
                              n : 0..MaxTries, i : 0..Chunks, ans : {None, "ok", "no"}]]
    /\ faults \in 0..MaxFaults

-----------------------------------------------------------------------------
(* The desktop: calls of the pairing service. *)

\* configure_bootstrap: the active link is closed, that of a web socket by
\* another thread.
CloseActive == [w \in Workers |-> IF kind = "aoa" /\ w = slot
                                  THEN [worker[w] EXCEPT !.open = FALSE] ELSE worker[w]]

\* start: a thread is made unless there is one.
Start(threads) ==
    /\ stopping' = FALSE
    /\ IF current # None THEN worker' = threads /\ UNCHANGED current
       ELSE /\ SlowStop \/ \A w \in Workers : worker[w].pc = "off"
            /\ \E w \in Workers :
                  /\ worker[w].pc = "off"
                  /\ worker' = [threads EXCEPT ![w].pc = "head"] /\ current' = w

\* _configure_usb_bootstrap_for_token: a new session, or a new code of one.
Configure ==
    /\ cfg < MaxConfigs /\ cfg' = cfg + 1
    /\ slot' = None /\ pending' = {}
    /\ Start(CloseActive)
    /\ UNCHANGED <<kind, known, given, cable, up, down, phoneVars, faults>>

CloseDetached(w) ==
    /\ worker[w].open /\ slot # w
    /\ worker' = [worker EXCEPT ![w].open = FALSE]
    /\ UNCHANGED <<kind, known, desktop, slot, upload, cable, up, down, phoneVars, faults>>

\* stop, which the pairing service calls for the web socket only.
Stop ==
    /\ kind = "ws" /\ current # None
    /\ stopping' = TRUE /\ current' = None
    /\ slot' = None /\ pending' = {}
    /\ worker' = [w \in Workers |-> IF w = slot THEN [worker[w] EXCEPT !.open = FALSE] ELSE worker[w]]
    /\ UNCHANGED <<kind, known, cfg, given, cable, up, down, phoneVars, faults>>

-----------------------------------------------------------------------------
(* The loop of a worker. *)

Goto(w, pc) == worker' = [worker EXCEPT ![w].pc = pc]

\* Slip: the uploads that have started are kept.
TeardownKeeps(w) ==
    /\ slot' = None
    /\ worker' = [v \in Workers |->
          CASE v = w -> [worker[v] EXCEPT !.open = FALSE, !.pc = "wait", !.auth = 0]
            [] v = slot /\ v # w -> [worker[v] EXCEPT !.open = FALSE]
            [] OTHER -> worker[v]]
    /\ UNCHANGED pending

\* `finally` of a session: whatever link is registered is closed, and the
\* uploads that have started are dropped.
Teardown(w) ==
    /\ slot' = None /\ pending' = {}
    /\ worker' = [v \in Workers |->
          CASE v = w -> [worker[v] EXCEPT !.open = FALSE, !.pc = "wait", !.auth = 0]
            [] v = slot /\ v # w -> [worker[v] EXCEPT !.open = FALSE]
            [] OTHER -> worker[v]]

Begin(w) ==
    /\ worker[w].pc = "head"
    /\ worker' = [worker EXCEPT ![w] = [pc |-> IF stopping THEN "off" ELSE "open", cfg |-> IF stopping THEN 0 ELSE cfg,
                                        auth |-> @.auth, open |-> @.open]]
    /\ UNCHANGED <<kind, known, desktop, slot, upload, cable, up, down, phoneVars, faults>>

Attached == cable # "out"

\* An iPhone listens on its port once it has scanned a code.
Listens == scanned # 0

Reachable == Attached /\ (kind = "ws" => Listens)

\* The probe fails; that of the web socket closes the active connection.
OpenFails(w) ==
    /\ worker[w].pc = "open" /\ ~Reachable
    /\ IF kind = "ws" THEN Teardown(w) ELSE Goto(w, "wait") /\ UNCHANGED <<slot, pending>>
    /\ UNCHANGED <<kind, known, desktop, given, cable, up, down, phoneVars, faults>>

\* The phone is put into accessory mode, ...
EnterAccessoryMode == cable' = "accessory" /\ UNCHANGED <<up, down, phone, conn>>

\* ... or a socket connected through usbmux, for which an iPhone gives up the
\* connection it has.
WebSocket(w) == conn' = w /\ phone' = "auth"

ConnectSocket(w) ==
    /\ WebSocket(w)
    /\ up' = <<>> /\ down' = <<>>
    /\ UNCHANGED cable

\* open_stream releases the handle of any earlier link before it claims the interface.
Claim(w) ==
    worker' = [v \in Workers |-> [worker[v] EXCEPT !.open = (v = w),
                                                  !.pc = IF v = w THEN "challenge" ELSE @]]

Open(w) ==
    /\ worker[w].pc = "open" /\ Reachable
    /\ Claim(w) /\ slot' = w
    /\ IF kind = "aoa" THEN EnterAccessoryMode ELSE ConnectSocket(w)
    /\ UNCHANGED <<kind, known, desktop, upload, scanned, task, faults>>

Older(q) == [k \in DOMAIN q |-> [q[k] EXCEPT !.fresh = FALSE]]

\* What an earlier connection has left in the cable is drained ...
Drained(w) == IF kind = "aoa" /\ worker[w].open THEN <<>> ELSE Older(up)

\* Is a frame written, and within its time?
Writable(w) == worker[w].open /\ Len(down) < Cap

\* ... and a fresh challenge is sent for the code that was captured.
Challenge(w) ==
    /\ worker[w].pc = "challenge"
    /\ up' = Drained(w)
    /\ IF Writable(w)
       THEN /\ down' = Append(Older(down), Signed("challenge", worker[w].cfg, TRUE))
            /\ Goto(w, "auth") /\ UNCHANGED <<slot, pending>>
       ELSE Teardown(w) /\ down' = Older(down)
    /\ UNCHANGED <<kind, known, desktop, given, cable, phoneVars, faults>>

\* The frames that worker w would read.
Readable(w) == up # <<>> /\ (IF kind = "aoa" THEN worker[w].open ELSE conn = w)

\* Slip: the proof may be one for the code that was captured.
ProvedCaptured(w, f) == f.t = "proof" /\ f.fresh /\ f.c \in {cfg, worker[w].cfg}

\* verify_auth_digest looks at the code that is shown now.
Proved(w, f) == f.t = "proof" /\ f.fresh /\ f.c = cfg

\* Frames that came in the same read as the proof are lost with its decoder.
AuthRead(w) ==
    /\ worker[w].pc = "auth" /\ Readable(w)
    /\ LET f == Head(up) IN
       IF Proved(w, f)
       THEN /\ worker' = [worker EXCEPT ![w] = [pc |-> "session", cfg |-> @.cfg, auth |-> f.c, open |-> @.open]]
            /\ \E k \in 2..(IF kind = "aoa" THEN Len(up) + 1 ELSE 2) : up' = SubSeq(up, k, Len(up))
            /\ UNCHANGED <<slot, pending>>
       ELSE /\ up' = Tail(up)
            /\ IF f.t \in {"proof", "refused"} THEN Teardown(w) ELSE UNCHANGED <<worker, slot, pending>>
    /\ UNCHANGED <<kind, known, desktop, given, cable, down, phoneVars, faults>>

\* Will the phone read what was sent?
PhoneReads == down # <<>> /\ (phone # "closed" \/ (kind = "aoa" /\ scanned # 0 /\ cable = "accessory"))

AuthFails(w) ==
    /\ worker[w].pc = "auth"
    /\ ~worker[w].open \/ stopping \/ (~Readable(w) /\ ~PhoneReads)
    /\ Teardown(w)
    /\ UNCHANGED <<kind, known, desktop, given, cable, up, down, phoneVars, faults>>

With(f) == {p \in pending : Id(p.r, p.n) = Id(f.r, f.n)}

NewUpload(f) == [r |-> f.r, n |-> f.n, got |-> <<>>]
Grown(p, f) == [p EXCEPT !.got = Append(@, <<f.n, f.i>>)]

\* A frame is answered, or the session ends.
Respond(w, f, t) ==
    IF Writable(w)
    THEN down' = Append(down, Frame(t, f.r, f.n, 0)) /\ UNCHANGED <<worker, slot>>
    ELSE Teardown(w) /\ UNCHANGED down

\* Slip: a start does not replace an earlier upload with the same id.
SessionStartKeeps(w, f) ==
    /\ f.t = "start" /\ known
    /\ pending' = pending \cup {NewUpload(f)}
    /\ UNCHANGED <<worker, slot, given, down>>

\* A start replaces what an earlier one with the same id has begun ...
SessionStart(w, f) ==
    /\ f.t = "start" /\ known
    /\ pending' = (pending \ With(f)) \cup {NewUpload(f)}
    /\ UNCHANGED <<worker, slot, given, down>>

\* ... or is answered at once when its metadata cannot be decrypted ...
SessionRefuse(w, f) ==
    /\ f.t = "start" /\ ~known
    /\ Respond(w, f, "no") /\ (Writable(w) => UNCHANGED pending)
    /\ UNCHANGED given

\* ... a chunk is added to it ...
SessionChunk(w, f) ==
    /\ f.t = "chunk"
    /\ \E p \in With(f) : pending' = (pending \ {p}) \cup {Grown(p, f)}
    /\ UNCHANGED <<worker, slot, given, down>>

\* ... or, without it, ignored if no upload is active, else the session ends ...
StrayChunk(w, f) ==
    /\ f.t = "chunk" /\ With(f) = {}
    /\ \/ Cardinality(pending) # 1 /\ UNCHANGED <<pending, worker, slot>>
       \/ pending # {} /\ Teardown(w)
    /\ UNCHANGED <<given, down>>

\* Slip: a completion without a start is accepted, too.
VerdictAlways(f) == "ok"

\* What a completion is answered.
Verdict(f) == IF With(f) = {} THEN "no" ELSE "ok"

\* ... and a completion hands it to the router, and is answered.
SessionComplete(w, f) ==
    /\ f.t = "complete"
    /\ given' = given \cup With(f)
    /\ Respond(w, f, Verdict(f)) /\ (Writable(w) => pending' = pending \ With(f))

\* A torn frame ends the session.
SessionTorn(w, f) ==
    /\ f.t = "torn"
    /\ Teardown(w)
    /\ UNCHANGED <<given, down>>

SessionStep(w, f) ==
    \/ SessionStart(w, f) \/ SessionRefuse(w, f) \/ SessionChunk(w, f) \/ StrayChunk(w, f)
    \/ SessionComplete(w, f) \/ SessionTorn(w, f)

SessionRead(w) ==
    /\ worker[w].pc = "session" /\ Readable(w)
    /\ SessionStep(w, Head(up))
    /\ up' = Tail(up)
    /\ UNCHANGED <<kind, known, desktop, cable, phoneVars, faults>>

\* Slip: a silent phone is waited for.
StalledNever == FALSE

\* Sixty seconds without a frame, in which an upload does not end.
Stalled == kind = "aoa" /\ pending # {} /\ up = <<>>

SessionEnds(w) ==
    /\ worker[w].pc = "session"
    /\ ~worker[w].open \/ stopping \/ Stalled
    /\ Teardown(w)
    /\ UNCHANGED <<kind, known, desktop, given, cable, up, down, phoneVars, faults>>

Wait(w) ==
    /\ worker[w].pc = "wait"
    /\ Goto(w, "head")
    /\ UNCHANGED <<kind, known, desktop, slot, upload, cable, up, down, phoneVars, faults>>

Step(w) ==
    \/ Begin(w) \/ OpenFails(w) \/ Open(w) \/ Challenge(w) \/ AuthRead(w) \/ AuthFails(w)
    \/ SessionRead(w) \/ SessionEnds(w) \/ Wait(w) \/ CloseDetached(w)

-----------------------------------------------------------------------------
(* The phone. *)

\* Requests that wait fail with "connection lost", unless the answer is there.
LoseTasks ==
    task' = [r \in Requests |->
        IF task[r].st = "streaming" \/ (task[r].st = "waiting" /\ task[r].ans = None)
        THEN [task[r] EXCEPT !.st = "lost"] ELSE task[r]]

\* closeConnection of an Android phone: frames that were not written yet are
\* lost, the first of them perhaps in the middle.
Cut ==
    \E k \in 0..Len(up) :
        \/ up' = SubSeq(up, 1, k)
        \/ k < Len(up) /\ up' = Append(SubSeq(up, 1, k), Plain("torn"))

\* The user scans the code that is shown: prepareBootstrap.  A phone that is
\* connected with that code keeps its connection.
Scan ==
    /\ cfg # 0 /\ (phone = "connected" => scanned # cfg)
    /\ IF scanned = cfg THEN faults < MaxFaults /\ faults' = faults + 1 ELSE UNCHANGED faults
    /\ scanned' = cfg /\ conn' = None
    /\ LoseTasks
    /\ IF kind = "aoa"
       THEN /\ phone' = IF cable = "accessory" THEN "auth" ELSE "closed"
            /\ Cut /\ UNCHANGED worker
       ELSE /\ phone' = "closed" /\ UNCHANGED up
            /\ worker' = [w \in Workers |-> IF w = conn THEN [worker[w] EXCEPT !.open = FALSE] ELSE worker[w]]
    /\ UNCHANGED <<kind, known, desktop, slot, upload, cable, down>>

\* An Android phone opens the accessory when it is attached, and a second
\* after it has closed it.
Reopen ==
    /\ kind = "aoa" /\ phone = "closed" /\ scanned # 0 /\ cable = "accessory"
    /\ phone' = "auth"
    /\ UNCHANGED <<kind, known, desktop, worker, slot, upload, cable, up, down, scanned, conn, task, faults>>

\* resyncConnection, after an I/O error or when the process was frozen.
Resync ==
    /\ kind = "aoa" /\ phone # "closed" /\ faults < MaxFaults /\ faults' = faults + 1
    /\ phone' = "closed" /\ LoseTasks /\ Cut
    /\ UNCHANGED <<kind, known, desktop, worker, slot, upload, cable, down, scanned, conn>>

\* An iPhone notices that its connection is closed.
Notice ==
    /\ kind = "ws" /\ conn # None /\ ~worker[conn].open
    /\ conn' = None /\ phone' = "closed" /\ LoseTasks
    /\ UNCHANGED <<kind, known, desktop, worker, slot, upload, cable, up, down, scanned, faults>>

\* A challenge while an Android phone is connected makes it start afresh; one
\* for another session is refused, by an Android phone silently.
ReadChallenge(f) ==
    /\ f.t = "challenge"
    /\ IF kind = "aoa" /\ phone = "connected"
       THEN phone' = "closed" /\ LoseTasks /\ Cut
       ELSE /\ Len(up) < Cap
            /\ IF SessionOf(f.c) = SessionOf(scanned)
               THEN /\ phone' = "connected"
                    /\ up' = Append(up, Signed("proof", scanned, f.fresh))
                    /\ UNCHANGED task
               ELSE /\ phone' = "auth"
                    /\ up' = IF kind = "ws" THEN Append(up, Plain("refused")) ELSE up
                    /\ IF kind = "ws" THEN LoseTasks ELSE UNCHANGED task

\* Whose answer it is: an Android phone takes one as soon as it has sent the start.
Answered(r, f) ==
    /\ task[r].st = "waiting" \/ (kind = "aoa" /\ task[r].st = "streaming")
    /\ Id(r, task[r].n) = Id(f.r, f.n)

ReadAnswer(f) ==
    /\ f.t \in {"ok", "no"}
    /\ task' = [r \in Requests |-> IF Answered(r, f) /\ task[r].ans = None
                                   THEN [task[r] EXCEPT !.ans = f.t] ELSE task[r]]
    /\ UNCHANGED <<phone, up>>

PhoneRead ==
    /\ phone # "closed" /\ down # <<>>
    /\ ReadChallenge(Head(down)) \/ ReadAnswer(Head(down))
    /\ down' = Tail(down)
    /\ UNCHANGED <<kind, known, desktop, worker, slot, upload, cable, scanned, conn, faults>>

\* An upload, frame by frame.
CanSend == phone = "connected" /\ Len(up) < Cap /\ (kind = "ws" => worker[conn].open)

UploadStep(r, f, t) ==
    /\ CanSend
    /\ up' = Append(up, f) /\ task' = [task EXCEPT ![r] = t]
    /\ UNCHANGED <<kind, known, desktop, worker, slot, upload, cable, down, phone, scanned, conn, faults>>

\* Attempts are numbered, those of all photos together.
UploadStart(r) ==
    \E n \in Tries :
    /\ \A q \in Requests : task[q].n < n
    /\ \E q \in Requests : task[q].n = n - 1
    /\ task[r].st \in {"new", "lost"}
    /\ UploadStep(r, Frame("start", r, n, 0), [st |-> "streaming", n |-> n, i |-> 0, ans |-> None])

UploadChunk(r) ==
    LET t == task[r] IN
    /\ t.st = "streaming" /\ t.i < Chunks
    /\ UploadStep(r, Frame("chunk", r, t.n, t.i + 1), [t EXCEPT !.i = @ + 1])

UploadFinish(r) ==
    LET t == task[r] IN
    /\ t.st = "streaming" /\ t.i = Chunks
    /\ UploadStep(r, Frame("complete", r, t.n, 0), [t EXCEPT !.st = "waiting"])

UploadReturns(r) ==
    /\ task[r].st = "waiting" /\ task[r].ans # None
    /\ task' = [task EXCEPT ![r].st = IF task[r].ans = "ok" THEN "done" ELSE "failed"]
    /\ UNCHANGED <<kind, known, desktop, worker, slot, upload, cable, up, down, phone, scanned, conn, faults>>

\* The answer does not come in time, or the photo cannot be read on.
UploadBreaks(r) ==
    /\ task[r].st \in {"streaming", "waiting"}
    /\ task' = [task EXCEPT ![r].st = "lost"]
    /\ UNCHANGED <<kind, known, desktop, worker, slot, upload, cable, up, down, phone, scanned, conn, faults>>

-----------------------------------------------------------------------------
(* The cable. *)

Unplug ==
    /\ cable # "out" /\ faults < MaxFaults /\ faults' = faults + 1
    /\ cable' = "out" /\ up' = <<>> /\ down' = <<>>
    /\ worker' = [w \in Workers |-> [worker[w] EXCEPT !.open = FALSE]]
    /\ phone' = "closed" /\ conn' = None /\ LoseTasks
    /\ UNCHANGED <<kind, known, desktop, slot, upload, scanned>>

Plug ==
    /\ cable = "out" /\ cable' = "plain"
    /\ UNCHANGED <<kind, known, desktop, worker, slot, upload, up, down, phoneVars, faults>>

-----------------------------------------------------------------------------
Off == [pc |-> "off", cfg |-> 0, auth |-> 0, open |-> FALSE]

Init ==
    /\ kind \in {"aoa", "ws"} /\ known \in BOOLEAN /\ (kind = "ws" => known)
    /\ cfg = 0 /\ stopping = FALSE /\ current = None
    /\ worker = [w \in Workers |-> Off]
    /\ slot = None /\ pending = {} /\ given = {}
    /\ cable = "out" /\ up = <<>> /\ down = <<>>
    /\ phone = "closed" /\ scanned \in {0, Earlier} /\ conn = None
    /\ task = [r \in Requests |-> [st |-> "new", n |-> 0, i |-> 0, ans |-> None]]
    /\ faults = 0

Phone == Reopen \/ Notice \/ PhoneRead

Next ==
    \/ Configure \/ Stop \/ Scan \/ Resync \/ Unplug \/ Plug \/ Phone
    \/ \E w \in Workers : Step(w)
    \/ \E r \in Requests : \/ UploadStart(r) \/ UploadChunk(r) \/ UploadFinish(r)
                           \/ UploadReturns(r) \/ UploadBreaks(r)

\* The threads of the desktop and of the phone run.
Fairness == WF_vars(Phone) /\ \A w \in Workers : WF_vars(Step(w))

Spec == Init /\ [][Next]_vars /\ Fairness

-----------------------------------------------------------------------------
(* What is checked. *)

\* What is handed on as one photo is all chunks of one attempt in their order,
\* although attempts share their request id, sessions end in the middle of
\* an upload, and frames are lost when a session begins.
UploadWhole == \A p \in given : p.got = [i \in 1..Chunks |-> <<p.n, i>>]

\* A photo that the phone takes for uploaded was handed on, even if it was
\* another attempt that was answered.
DoneIsGiven == \A r \in Requests : task[r].st = "done" => \E p \in given : p.r = r

\* The phone that is served over the active link has proved that it knows the
\* code that is shown now.
SessionIsCurrent ==
    \A w \in Workers : slot = w /\ worker[w].pc = "session" => worker[w].auth = cfg

Ready == ~stopping /\ current # None /\ cable # "out" /\ scanned = cfg
Joined == phone = "connected" /\ \E w \in Workers : worker[w].pc = "session" /\ worker[w].open
\* The desktop waits for requests of a phone that has opened the link anew.
IdleSession == kind = "aoa" /\ pending = {} /\ phone # "connected" /\ \E w \in Workers : worker[w].pc = "session"

\* A phone that is plugged in and has scanned the code gets a session, after
\* whatever has happened; unless the desktop idles in an earlier one.
Recovers == Ready ~> Joined \/ ~Ready \/ IdleSession

\* Both sides establish a clean session again.
RecoversAlways == Ready ~> Joined \/ ~Ready
=============================================================================
