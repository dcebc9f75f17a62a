---------------------------- MODULE UsbLinkProofs ----------------------------
(* Proofs about UsbLink. *)
EXTENDS UsbLink, SequenceTheorems, TLAPS

USE DEF desktop, upload, phoneVars, vars

Thread == [pc : {"off", "head", "open", "challenge", "auth", "session", "wait"},
           cfg : 0..MaxConfigs, auth : 0..MaxConfigs, open : BOOLEAN]
Upload == [r : Requests, n : Tries, got : Seq(Tries \X (1..Chunks))]
Task == [st : {"new", "streaming", "waiting", "lost", "done", "failed"},
         n : 0..MaxTries, i : 0..Chunks, ans : {None, "ok", "no"}]

\* The parts of TypeOK.
TypeDesktop ==
    /\ cfg \in 0..MaxConfigs /\ stopping \in BOOLEAN /\ current \in Workers \cup {None}
    /\ worker \in [Workers -> Thread] /\ slot \in Workers \cup {None}
TypeUploads ==
    /\ pending \cup given \subseteq Upload
    /\ \A p, q \in pending : Id(p.r, p.n) = Id(q.r, q.n) => p = q
TypeCable ==
    /\ cable \in {"out", "plain", "accessory"}
    /\ up \in Seq(Frames) /\ Len(up) <= Cap /\ down \in Seq(Frames) /\ Len(down) <= Cap
TypePhone ==
    /\ phone \in {"closed", "auth", "connected"} /\ scanned \in 0..Earlier
    /\ conn \in Workers \cup {None} /\ task \in [Requests -> Task]
TypeRest == kind \in {"aoa", "ws"} /\ known \in BOOLEAN /\ faults \in 0..MaxFaults

\* TypeOK, part by part.
LEMMA TypeParts == TypeOK <=> TypeDesktop /\ TypeUploads /\ TypeCable /\ TypePhone /\ TypeRest
BY DEF TypeOK, TypeDesktop, TypeUploads, TypeCable, TypePhone, TypeRest, Thread, Upload, Task

\* The same, after a step.
LEMMA TypeParts2 == TypeDesktop' /\ TypeUploads' /\ TypeCable' /\ TypePhone' /\ TypeRest' => TypeOK'
BY DEF TypeOK, TypeDesktop, TypeUploads, TypeCable, TypePhone, TypeRest, Thread, Upload, Task

\* Bounds are numbers.
LEMMA Numbers ==
    /\ MaxConfigs \in Nat /\ MaxTries \in Nat /\ Chunks \in Nat /\ Chunks >= 1 /\ Cap \in Nat /\ Cap >= 1
    /\ MaxFaults \in Nat /\ Earlier \in Nat /\ Earlier = MaxConfigs + 1 /\ MaxConfigs >= 1 /\ None \notin Workers
BY LinkAssumption DEF Earlier

-----------------------------------------------------------------------------
(* Frames and the queues they wait in. *)

\* The frames that are sent are frames.
LEMMA FrameTypes ==
    /\ \A t \in {"start", "chunk", "complete", "torn", "ok", "no", "refused"}, r \in Requests, n \in 0..MaxTries, i \in 0..Chunks :
          /\ Frame(t, r, n, i) \in Frames
          /\ Frame(t, r, n, i).t = t /\ Frame(t, r, n, i).r = r /\ Frame(t, r, n, i).n = n /\ Frame(t, r, n, i).i = i
    /\ \A t \in {"torn", "refused"} : Plain(t) \in Frames /\ Plain(t).t = t
    /\ \A t \in {"proof", "challenge"}, c \in 0..Earlier, fresh \in BOOLEAN :
          /\ Signed(t, c, fresh) \in Frames /\ Signed(t, c, fresh).t = t /\ Signed(t, c, fresh).c = c
<1>1. /\ \A t \in {"start", "chunk", "complete", "torn", "ok", "no", "refused"}, r \in Requests, n \in 0..MaxTries, i \in 0..Chunks :
            /\ Frame(t, r, n, i) \in Frames
            /\ Frame(t, r, n, i).t = t /\ Frame(t, r, n, i).r = r /\ Frame(t, r, n, i).n = n /\ Frame(t, r, n, i).i = i
    BY Numbers DEF Frame, Frames
<1>2. \A t \in {"torn", "refused"} : Plain(t) \in Frames /\ Plain(t).t = t
    BY Numbers DEF Plain, Frame, Frames
<1>3. \A t \in {"proof", "challenge"}, c \in 0..Earlier, fresh \in BOOLEAN :
            /\ Signed(t, c, fresh) \in Frames /\ Signed(t, c, fresh).t = t /\ Signed(t, c, fresh).c = c
    BY Numbers DEF Signed, Frames
<1> QED
    BY <1>1, <1>2, <1>3

\* Parts of a queue.
LEMMA PartOf ==
    ASSUME NEW q \in Seq(Frames), NEW j \in 1..(Len(q) + 1), NEW k \in 0..Len(q)
    PROVE  /\ SubSeq(q, j, k) \in Seq(Frames)
           /\ Len(SubSeq(q, j, k)) = IF j <= k THEN k - j + 1 ELSE 0
           /\ \A i \in 1..Len(SubSeq(q, j, k)) : SubSeq(q, j, k)[i] = q[j + i - 1]
<1>1. \A i \in j..k : q[i] \in Frames
    BY ElementOfSeq
<1> QED
    BY <1>1, SubSeqProperties

\* A frame is added to a queue.
LEMMA Added ==
    ASSUME NEW q \in Seq(Frames), NEW f \in Frames
    PROVE  /\ Append(q, f) \in Seq(Frames) /\ Len(Append(q, f)) = Len(q) + 1
           /\ Append(q, f)[Len(q) + 1] = f /\ \A i \in 1..Len(q) : Append(q, f)[i] = q[i]
BY AppendProperties

\* The first frame of a queue is taken.
LEMMA Taken ==
    ASSUME NEW q \in Seq(Frames), q # <<>>
    PROVE  /\ Head(q) \in Frames /\ Head(q) = q[1] /\ Len(q) \in Nat /\ Len(q) >= 1
           /\ Tail(q) \in Seq(Frames) /\ Len(Tail(q)) = Len(q) - 1
           /\ \A i \in 1..Len(Tail(q)) : Tail(q)[i] = q[i + 1]
BY HeadTailProperties, EmptySeq

\* Frames that grow old stay where they are.
LEMMA Aged ==
    ASSUME NEW q \in Seq(Frames)
    PROVE  /\ Older(q) \in Seq(Frames) /\ Len(Older(q)) = Len(q)
           /\ \A i \in 1..Len(q) : /\ Older(q)[i].t = q[i].t /\ Older(q)[i].r = q[i].r
                                   /\ Older(q)[i].n = q[i].n /\ Older(q)[i].i = q[i].i
<1>1. DOMAIN q = 1..Len(q) /\ Len(q) \in Nat
    BY LenProperties
<1>2. ASSUME NEW i \in 1..Len(q)
      PROVE  /\ Older(q)[i] \in Frames
             /\ Older(q)[i].t = q[i].t /\ Older(q)[i].r = q[i].r /\ Older(q)[i].n = q[i].n /\ Older(q)[i].i = q[i].i
    <2>1. Older(q)[i] = [q[i] EXCEPT !.fresh = FALSE]
        BY <1>1 DEF Older
    <2>2. q[i] \in Frames
        BY ElementOfSeq
    <2> QED  BY <2>1, <2>2 DEF Frames
<1>3. Older(q) \in [1..Len(q) -> Frames]
    BY <1>1, <1>2 DEF Older
<1>4. Older(q) \in Seq(Frames)
    BY <1>1, <1>3, SeqDef
<1>5. Len(Older(q)) = Len(q)
    BY <1>1, <1>3, <1>4, LenProperties
<1> QED
    BY <1>2, <1>4, <1>5

-----------------------------------------------------------------------------
(* The desktop: types, and whom it serves. *)

\* What steps do to the threads: each stays where it is, or is not in a session.
Calm ==
    /\ worker' \in [Workers -> Thread]
    /\ \A w \in Workers : worker'[w].pc = "session" => worker[w].pc = "session" /\ worker'[w].auth = worker[w].auth

\* Threads whose links are closed are where they were.
LEMMA CloseStep ==
    ASSUME TypeDesktop, NEW S \in SUBSET Workers,
           worker' = [w \in Workers |-> IF w \in S THEN [worker[w] EXCEPT !.open = FALSE] ELSE worker[w]]
    PROVE  Calm /\ \A w \in Workers : worker'[w].pc = worker[w].pc
<1>1. ASSUME NEW w \in Workers
      PROVE  worker'[w] \in Thread /\ worker'[w].pc = worker[w].pc /\ worker'[w].auth = worker[w].auth
    BY DEF TypeDesktop, Thread
<1> QED
    BY <1>1 DEF Calm

\* A thread goes on.
LEMMA GotoStep ==
    ASSUME TypeDesktop, NEW w \in Workers, NEW pc \in {"head", "open", "challenge", "auth", "wait"}, Goto(w, pc)
    PROVE  Calm /\ worker'[w].pc = pc /\ \A v \in Workers \ {w} : worker'[v] = worker[v]
BY DEF TypeDesktop, Thread, Goto, Calm

\* What is left when a session ends.
LEMMA TeardownStep ==
    ASSUME TypeDesktop, NEW w \in Workers, Teardown(w)
    PROVE  /\ Calm /\ slot' = None /\ pending' = {} /\ worker'[w].pc = "wait"
           /\ \A v \in Workers \ {w} : worker'[v].pc = worker[v].pc
<1>1. ASSUME NEW v \in Workers
      PROVE  /\ worker'[v] \in Thread /\ worker'[v].pc = (IF v = w THEN "wait" ELSE worker[v].pc)
             /\ v # w => worker'[v].auth = worker[v].auth
    <2>1. worker[v] \in Thread
        BY DEF TypeDesktop
    <2>2. CASE v = w
        <3>1. worker'[v] = [worker[v] EXCEPT !.open = FALSE, !.pc = "wait", !.auth = 0]
            BY <2>2 DEF Teardown
        <3>2. worker'[v] = [pc |-> "wait", cfg |-> worker[v].cfg, auth |-> 0, open |-> FALSE]
            BY <2>1, <3>1 DEF Thread
        <3> QED  BY <2>1, <2>2, <3>2, Numbers DEF Thread
    <2>3. CASE v # w /\ v = slot
        <3>1. worker'[v] = [worker[v] EXCEPT !.open = FALSE]
            BY <2>3 DEF Teardown
        <3> QED  BY <2>1, <2>3, <3>1 DEF Thread
    <2>4. CASE v # w /\ v # slot
        <3>1. worker'[v] = worker[v]
            BY <2>4 DEF Teardown
        <3> QED  BY <2>1, <2>4, <3>1
    <2> QED  BY <2>2, <2>3, <2>4
<1>2. worker' = [v \in Workers |-> worker'[v]] /\ slot' = None /\ pending' = {}
    BY DEF Teardown
<1>3. worker' \in [Workers -> Thread]
    BY <1>1, <1>2
<1> QED
    BY <1>1, <1>2, <1>3 DEF Calm

\* The thread that has opened the link has it, and all others have lost theirs.
LEMMA ClaimStep ==
    ASSUME TypeDesktop, NEW w \in Workers, Claim(w)
    PROVE  Calm /\ worker'[w].pc = "challenge" /\ \A v \in Workers \ {w} : worker'[v].pc = worker[v].pc
<1>1. ASSUME NEW v \in Workers
      PROVE  /\ worker'[v] \in Thread /\ worker'[v].pc = (IF v = w THEN "challenge" ELSE worker[v].pc)
             /\ worker'[v].auth = worker[v].auth
    <2>1. worker'[v] = [pc |-> IF v = w THEN "challenge" ELSE worker[v].pc, cfg |-> worker[v].cfg,
                        auth |-> worker[v].auth, open |-> (v = w)]
        BY DEF Claim, TypeDesktop, Thread
    <2> QED  BY <2>1 DEF TypeDesktop, Thread
<1>2. worker' = [v \in Workers |-> worker'[v]]
    BY DEF Claim
<1>3. worker' \in [Workers -> Thread]
    BY <1>1, <1>2
<1> QED
    BY <1>1, <1>3 DEF Calm

\* A thread is made.
LEMMA StartStep ==
    ASSUME TypeDesktop, NEW threads \in [Workers -> Thread], Start(threads)
    PROVE  /\ worker' \in [Workers -> Thread] /\ stopping' = FALSE /\ current' \in Workers \cup {None}
           /\ \A w \in Workers : worker'[w].pc = "session" => threads[w].pc = "session"
           /\ worker' # threads => \E w \in Workers :
                  /\ SlowStop \/ \A v \in Workers : worker[v].pc = "off"
                  /\ worker'[w].pc = "head" /\ \A v \in Workers \ {w} : worker'[v] = threads[v]
<1>1. CASE current # None
    BY <1>1 DEF Start, TypeDesktop
<1>2. CASE current = None
    <2>1. PICK w \in Workers : /\ worker[w].pc = "off" /\ worker' = [threads EXCEPT ![w].pc = "head"] /\ current' = w
        BY <1>2 DEF Start
    <2>2. /\ worker'[w].pc = "head" /\ \A v \in Workers \ {w} : worker'[v] = threads[v]
          /\ worker' \in [Workers -> Thread]
        BY <2>1 DEF Thread
    <2> QED  BY <1>2, <2>1, <2>2 DEF Start
<1> QED
    BY <1>1, <1>2

\* Without an active link nobody is served.
LEMMA Unserved == ASSUME slot' = None PROVE SessionIsCurrent'
BY Numbers DEF SessionIsCurrent

\* Threads that stay in their session serve the phone that they served.
LEMMA StillServed == ASSUME SessionIsCurrent, Calm, UNCHANGED <<cfg, slot>> PROVE SessionIsCurrent'
BY DEF SessionIsCurrent, Calm

\* A phone's proof makes a session, any other frame leaves it as it was or ends it.
LEMMA AuthStep ==
    ASSUME TypeDesktop, NEW w \in Workers, AuthRead(w)
    PROVE  \/ /\ pending' = pending /\ slot' = slot /\ worker' \in [Workers -> Thread]
              /\ worker'[w].pc = "session" /\ worker'[w].auth = cfg
              /\ \A v \in Workers \ {w} : worker'[v] = worker[v]
           \/ Teardown(w)
           \/ UNCHANGED <<worker, slot, pending>>
<1>1. CASE Proved(w, Head(up))
    <2>2. /\ worker' = [worker EXCEPT ![w] = [pc |-> "session", cfg |-> worker[w].cfg, auth |-> cfg, open |-> worker[w].open]]
          /\ UNCHANGED <<slot, pending>>
        BY <1>1 DEF AuthRead, Proved, TypeDesktop
    <2>3. [pc |-> "session", cfg |-> worker[w].cfg, auth |-> cfg, open |-> worker[w].open] \in Thread
        BY DEF TypeDesktop, Thread
    <2> QED  BY <2>2, <2>3 DEF TypeDesktop
<1>2. CASE ~Proved(w, Head(up))
    BY <1>2 DEF AuthRead
<1> QED
    BY <1>1, <1>2

\* A frame leaves its session as it is, or ends it.
LEMMA SessionEffect ==
    ASSUME NEW w \in Workers, NEW f, SessionStep(w, f)
    PROVE  Teardown(w) \/ UNCHANGED <<worker, slot>>
BY DEF SessionStep, SessionStart, SessionRefuse, SessionChunk, StrayChunk, SessionComplete, SessionTorn, Respond

\* The steps of a thread.
LEMMA StepServes ==
    ASSUME TypeDesktop, SessionIsCurrent, NEW w \in Workers, Step(w)
    PROVE  TypeDesktop' /\ SessionIsCurrent'
<1>0. UNCHANGED desktop
    BY DEF Step, Begin, OpenFails, Open, Challenge, AuthRead, AuthFails, SessionRead, SessionEnds, Wait, CloseDetached
<1>1. CASE Teardown(w)
    BY <1>0, <1>1, TeardownStep, Unserved DEF TypeDesktop, Calm
<1>2. ASSUME Calm, UNCHANGED slot PROVE TypeDesktop' /\ SessionIsCurrent'
    BY <1>0, <1>2, StillServed DEF TypeDesktop, Calm
<1>3. CASE UNCHANGED <<worker, slot>>
    BY <1>0, <1>3 DEF TypeDesktop, SessionIsCurrent
<1>4. CASE Begin(w)
    <2>1. worker' \in [Workers -> Thread] /\ worker'[w].pc \in {"off", "open"} /\ \A v \in Workers \ {w} : worker'[v] = worker[v]
        <3>2. PICK pc \in {"off", "open"}, c \in 0..MaxConfigs :
                worker' = [worker EXCEPT ![w] = [pc |-> pc, cfg |-> c, auth |-> worker[w].auth, open |-> worker[w].open]]
            <4>1. (IF stopping THEN "off" ELSE "open") \in {"off", "open"} /\ (IF stopping THEN 0 ELSE cfg) \in 0..MaxConfigs
                BY Numbers DEF TypeDesktop
            <4> QED  BY <1>4, <4>1 DEF Begin, TypeDesktop
        <3>3. [pc |-> pc, cfg |-> c, auth |-> worker[w].auth, open |-> worker[w].open] \in Thread
            BY DEF TypeDesktop, Thread
        <3> QED  BY <3>2, <3>3 DEF TypeDesktop
    <2>2. Calm
        BY <2>1 DEF Calm
    <2> QED  BY <1>2, <1>4, <2>2 DEF Begin
<1>5. CASE OpenFails(w)
    BY <1>1, <1>2, <1>5, GotoStep DEF OpenFails
<1>6. CASE Open(w)
    <2>1. Calm /\ worker'[w].pc = "challenge" /\ slot' = w
        BY <1>6, ClaimStep DEF Open
    <2> QED  BY <1>0, <2>1 DEF TypeDesktop, Calm, SessionIsCurrent
<1>7. CASE Challenge(w)
    BY <1>1, <1>2, <1>7, GotoStep DEF Challenge
<1>8. CASE AuthRead(w)
    <2>1. CASE /\ slot' = slot /\ worker' \in [Workers -> Thread]
               /\ worker'[w].pc = "session" /\ worker'[w].auth = cfg
               /\ \A v \in Workers \ {w} : worker'[v] = worker[v]
        BY <1>0, <2>1 DEF TypeDesktop, SessionIsCurrent
    <2> QED  BY <1>1, <1>3, <1>8, <2>1, AuthStep
<1>9. CASE AuthFails(w) \/ SessionEnds(w)
    BY <1>1, <1>9 DEF AuthFails, SessionEnds
<1>10. CASE SessionRead(w)
    BY <1>1, <1>3, <1>10, SessionEffect DEF SessionRead
<1>11. CASE Wait(w)
    BY <1>2, <1>11, GotoStep DEF Wait
<1>12. CASE CloseDetached(w)
    <2>1. worker' = [v \in Workers |-> IF v \in {w} THEN [worker[v] EXCEPT !.open = FALSE] ELSE worker[v]]
        BY <1>12 DEF CloseDetached, TypeDesktop
    <2>2. Calm
        BY <2>1, CloseStep
    <2> QED  BY <1>2, <1>12, <2>2 DEF CloseDetached
<1> QED
    BY <1>4, <1>5, <1>6, <1>7, <1>8, <1>9, <1>10, <1>11, <1>12 DEF Step

\* The desktop's types hold after every step, and it serves nobody whose proof is old.
LEMMA DesktopStep ==
    ASSUME TypeDesktop, TypeCable, TypePhone, SessionIsCurrent, [Next]_vars
    PROVE  TypeDesktop' /\ SessionIsCurrent'
<1>1. CASE UNCHANGED <<desktop, worker, slot>>
    BY <1>1 DEF TypeDesktop, SessionIsCurrent
<1>2. CASE Configure
    <2>1. CloseActive = [w \in Workers |-> IF kind = "aoa" /\ w = slot THEN [worker[w] EXCEPT !.open = FALSE] ELSE worker[w]]
        BY DEF CloseActive
    <2>2. CloseActive \in [Workers -> Thread]
        BY <2>1 DEF TypeDesktop, Thread
    <2>3. worker' \in [Workers -> Thread] /\ stopping' = FALSE /\ current' \in Workers \cup {None}
        BY <1>2, <2>2, StartStep DEF Configure
    <2>4. cfg' \in 0..MaxConfigs /\ slot' = None
        BY <1>2, Numbers DEF Configure, TypeDesktop
    <2> QED  BY <2>3, <2>4, Unserved DEF TypeDesktop
<1>3. CASE Stop
    <2>1. worker' = [w \in Workers |-> IF w \in {slot} \cap Workers THEN [worker[w] EXCEPT !.open = FALSE] ELSE worker[w]]
        BY <1>3 DEF Stop
    <2>2. worker' \in [Workers -> Thread]
        BY <2>1, CloseStep DEF Calm
    <2> QED  BY <1>3, <2>2, Unserved DEF Stop, TypeDesktop
<1>4. CASE Scan
    <2>1. UNCHANGED <<desktop, slot>>
        BY <1>4 DEF Scan
    <2>2. CASE kind = "aoa"
        BY <1>1, <1>4, <2>1, <2>2 DEF Scan
    <2>3. CASE kind # "aoa"
        <3>1. worker' = [w \in Workers |-> IF w \in {conn} \cap Workers THEN [worker[w] EXCEPT !.open = FALSE] ELSE worker[w]]
            BY <1>4, <2>3 DEF Scan
        <3> QED  BY <2>1, <3>1, CloseStep, StillServed DEF Calm, TypeDesktop
    <2> QED  BY <2>2, <2>3
<1>5. CASE Unplug
    <2>1. worker' = [w \in Workers |-> IF w \in Workers THEN [worker[w] EXCEPT !.open = FALSE] ELSE worker[w]]
        BY <1>5 DEF Unplug
    <2> QED  BY <1>5, <2>1, CloseStep, StillServed DEF Calm, TypeDesktop, Unplug
<1>6. CASE Resync \/ Plug \/ Phone
    BY <1>1, <1>6 DEF Resync, Plug, Phone, Reopen, Notice, PhoneRead
<1>7. CASE \E r \in Requests : UploadStart(r) \/ UploadChunk(r) \/ UploadFinish(r) \/ UploadReturns(r) \/ UploadBreaks(r)
    BY <1>1, <1>7 DEF UploadStart, UploadChunk, UploadFinish, UploadReturns, UploadBreaks, UploadStep
<1>8. CASE \E w \in Workers : Step(w)
    BY <1>8, StepServes
<1> QED
    BY <1>1, <1>2, <1>3, <1>4, <1>5, <1>6, <1>7, <1>8 DEF Next

-----------------------------------------------------------------------------
(* The types of the queues. *)

\* A frame of an upload names the photo, the attempt and the chunk.
Named(f) ==
    /\ f.t \in {"start", "chunk", "complete"} => f.r \in Requests /\ f.n \in Tries
    /\ f.t = "chunk" => f.i \in 1..Chunks
Proper(q) == q \in Seq(Frames) /\ \A k \in 1..Len(q) : Named(q[k])

\* Frames stay proper whatever becomes of the queue.
LEMMA ProperPart ==
    ASSUME NEW q, Proper(q), NEW j \in 1..(Len(q) + 1), NEW k \in 0..Len(q)
    PROVE  Proper(SubSeq(q, j, k)) /\ Len(SubSeq(q, j, k)) <= Len(q)
<1>1. q \in Seq(Frames) /\ Len(q) \in Nat
    BY LenProperties DEF Proper
<1>2. ASSUME NEW i \in 1..Len(SubSeq(q, j, k))
      PROVE  SubSeq(q, j, k)[i] = q[j + i - 1] /\ j + i - 1 \in 1..Len(q)
    BY <1>1, PartOf
<1> QED
    BY <1>1, <1>2, PartOf DEF Proper

LEMMA ProperAdded ==
    ASSUME NEW q, Proper(q), NEW f \in Frames, Named(f)
    PROVE  Proper(Append(q, f)) /\ Len(Append(q, f)) = Len(q) + 1
<1>1. Len(q) \in Nat
    BY LenProperties DEF Proper
<1> QED
    BY <1>1, Added DEF Proper

LEMMA ProperTaken ==
    ASSUME NEW q, Proper(q), q # <<>>
    PROVE  Proper(Tail(q)) /\ Len(Tail(q)) = Len(q) - 1 /\ Head(q) \in Frames /\ Named(Head(q))
BY Taken DEF Proper

LEMMA ProperAged ==
    ASSUME NEW q, Proper(q)
    PROVE  Proper(Older(q)) /\ Len(Older(q)) = Len(q)
BY Aged DEF Proper, Named

\* The frames that are not of an upload.
LEMMA OtherFrames ==
    /\ \A t \in {"torn", "refused"} : Named(Plain(t)) /\ Plain(t) \in Frames
    /\ \A c \in 0..Earlier, fresh \in BOOLEAN : Named(Signed("proof", c, fresh)) /\ Signed("proof", c, fresh) \in Frames
BY FrameTypes DEF Named

\* A queue that is cut.
LEMMA CutStep ==
    ASSUME Proper(up), Cut
    PROVE  Proper(up') /\ Len(up') <= Len(up)
<1>1. PICK k \in 0..Len(up) : up' = SubSeq(up, 1, k) \/ (k < Len(up) /\ up' = Append(SubSeq(up, 1, k), Plain("torn")))
    BY DEF Cut
<1>2. Len(up) \in Nat /\ up \in Seq(Frames)
    BY LenProperties DEF Proper
<1>3. Proper(SubSeq(up, 1, k)) /\ Len(SubSeq(up, 1, k)) = k
    BY <1>2, ProperPart, PartOf
<1>4. CASE k < Len(up) /\ up' = Append(SubSeq(up, 1, k), Plain("torn"))
    <2>1. Proper(Append(SubSeq(up, 1, k), Plain("torn"))) /\ Len(Append(SubSeq(up, 1, k), Plain("torn"))) = k + 1
        BY <1>3, OtherFrames, ProperAdded
    <2> QED  BY <1>2, <1>4, <2>1
<1>5. CASE up' = SubSeq(up, 1, k)
    <2>1. Len(SubSeq(up, 1, k)) <= Len(up)
        BY <1>2, <1>3
    <2> QED  BY <1>3, <1>5, <2>1
<1> QED
    BY <1>1, <1>4, <1>5

\* Answers are written when there is room for them.
LEMMA RespondStep ==
    ASSUME TypeCable, NEW w \in Workers, NEW f \in Frames, Named(f), f.t \in {"start", "complete"},
           NEW t \in {"ok", "no"}, Respond(w, f, t)
    PROVE  /\ down' \in Seq(Frames) /\ Len(down') <= Cap
           /\ \/ down' = down
              \/ down' = Append(down, Frame(t, f.r, f.n, 0)) /\ Frame(t, f.r, f.n, 0) \in Frames
<1>1. Frame(t, f.r, f.n, 0) \in Frames
    <2>1. f.r \in Requests /\ f.n \in 0..MaxTries /\ 0 \in 0..Chunks
        BY Numbers DEF Named, Tries
    <2> QED  BY <2>1, FrameTypes
<1>2. CASE Writable(w)
    BY <1>1, <1>2, Added, Numbers, LenProperties DEF Respond, Writable, TypeCable
<1>3. CASE ~Writable(w)
    BY <1>3 DEF Respond, TypeCable
<1> QED
    BY <1>1, <1>2, <1>3 DEF Respond

\* What a session does to the queue towards the phone.
LEMMA SessionWrites ==
    ASSUME TypeCable, NEW w \in Workers, NEW f \in Frames, Named(f), SessionStep(w, f)
    PROVE  down' \in Seq(Frames) /\ Len(down') <= Cap
<1>1. CASE SessionRefuse(w, f) \/ SessionComplete(w, f)
    <2>1. PICK t \in {"ok", "no"} : Respond(w, f, t)
        BY <1>1 DEF SessionRefuse, SessionComplete, Verdict
    <2> QED  BY <1>1, <2>1, RespondStep DEF SessionRefuse, SessionComplete
<1>2. CASE UNCHANGED down
    BY <1>2 DEF TypeCable
<1> QED
    BY <1>1, <1>2 DEF SessionStep, SessionStart, SessionChunk, StrayChunk, SessionTorn

\* The frames that a phone sends as an upload.
LEMMA UploadFrames ==
    ASSUME TypePhone, \A q \in Requests : task[q].st # "new" => task[q].n \in Tries, NEW r \in Requests
    PROVE  /\ UploadStart(r) => \E n \in Tries :
                  /\ UploadStep(r, Frame("start", r, n, 0), [st |-> "streaming", n |-> n, i |-> 0, ans |-> None])
                  /\ task[r].st \in {"new", "lost"} /\ Frame("start", r, n, 0) \in Frames /\ Named(Frame("start", r, n, 0))
           /\ UploadChunk(r) =>
                  LET t == task[r]
                      f == Frame("chunk", r, t.n, t.i + 1)
                  IN  /\ UploadStep(r, f, [st |-> "streaming", n |-> t.n, i |-> t.i + 1, ans |-> t.ans])
                      /\ t.st = "streaming" /\ t.i + 1 \in 1..Chunks /\ t.n \in Tries /\ f \in Frames /\ Named(f)
           /\ UploadFinish(r) =>
                  LET t == task[r]
                      f == Frame("complete", r, t.n, 0)
                  IN  /\ UploadStep(r, f, [st |-> "waiting", n |-> t.n, i |-> t.i, ans |-> t.ans])
                      /\ t.st = "streaming" /\ t.i = Chunks /\ t.n \in Tries /\ f \in Frames /\ Named(f)
<1>1. ASSUME UploadStart(r)
      PROVE  \E n \in Tries :
                  /\ UploadStep(r, Frame("start", r, n, 0), [st |-> "streaming", n |-> n, i |-> 0, ans |-> None])
                  /\ task[r].st \in {"new", "lost"} /\ Frame("start", r, n, 0) \in Frames /\ Named(Frame("start", r, n, 0))
    <2>1. PICK n \in Tries : /\ UploadStep(r, Frame("start", r, n, 0), [st |-> "streaming", n |-> n, i |-> 0, ans |-> None])
                             /\ task[r].st \in {"new", "lost"}
        BY <1>1 DEF UploadStart
    <2>2. Frame("start", r, n, 0) \in Frames /\ Named(Frame("start", r, n, 0))
        BY Numbers, FrameTypes DEF Named, Tries
    <2> QED  BY <2>1, <2>2
<1>2. ASSUME UploadChunk(r)
      PROVE  LET t == task[r]
                 f == Frame("chunk", r, t.n, t.i + 1)
             IN  /\ UploadStep(r, f, [st |-> "streaming", n |-> t.n, i |-> t.i + 1, ans |-> t.ans])
                 /\ t.st = "streaming" /\ t.i + 1 \in 1..Chunks /\ t.n \in Tries /\ f \in Frames /\ Named(f)
    <2> DEFINE t == task[r]
    <2>1. t.st = "streaming" /\ t.i + 1 \in 1..Chunks /\ t.n \in Tries /\ t \in Task
        BY <1>2, Numbers DEF UploadChunk, TypePhone, Task
    <2>2. [t EXCEPT !.i = t.i + 1] = [st |-> "streaming", n |-> t.n, i |-> t.i + 1, ans |-> t.ans]
        BY <2>1 DEF Task
    <2>3. UploadStep(r, Frame("chunk", r, t.n, t.i + 1), [t EXCEPT !.i = t.i + 1])
        BY <1>2 DEF UploadChunk
    <2>4. Frame("chunk", r, t.n, t.i + 1) \in Frames /\ Named(Frame("chunk", r, t.n, t.i + 1))
        BY <2>1, Numbers, FrameTypes DEF Named, Tries
    <2> QED  BY <2>1, <2>2, <2>3, <2>4
<1>3. ASSUME UploadFinish(r)
      PROVE  LET t == task[r]
                 f == Frame("complete", r, t.n, 0)
             IN  /\ UploadStep(r, f, [st |-> "waiting", n |-> t.n, i |-> t.i, ans |-> t.ans])
                 /\ t.st = "streaming" /\ t.i = Chunks /\ t.n \in Tries /\ f \in Frames /\ Named(f)
    <2> DEFINE t == task[r]
    <2>1. t.st = "streaming" /\ t.i = Chunks /\ t.n \in Tries /\ t \in Task
        BY <1>3, Numbers DEF UploadFinish, TypePhone, Task
    <2>2. [t EXCEPT !.st = "waiting"] = [st |-> "waiting", n |-> t.n, i |-> t.i, ans |-> t.ans]
        BY <2>1 DEF Task
    <2>3. UploadStep(r, Frame("complete", r, t.n, 0), [t EXCEPT !.st = "waiting"])
        BY <1>3 DEF UploadFinish
    <2>4. Frame("complete", r, t.n, 0) \in Frames /\ Named(Frame("complete", r, t.n, 0))
        BY <2>1, Numbers, FrameTypes DEF Named, Tries
    <2> QED  BY <2>1, <2>2, <2>3, <2>4
<1> QED
    BY <1>1, <1>2, <1>3

\* Every attempt that was begun has its number.
Begun == \A r \in Requests : task[r].st # "new" => task[r].n \in Tries

\* Proper queues stay proper and within their bounds.
LEMMA CableStep ==
    ASSUME TypeDesktop, TypeCable, TypePhone, Proper(up), Begun, [Next]_vars
    PROVE  TypeCable' /\ Proper(up')
<1>a. Len(up) \in Nat /\ Len(down) \in Nat /\ Cap \in Nat
    BY Numbers, LenProperties DEF TypeCable
<1>b. \A q : q = <<>> => q \in Seq(Frames) /\ Len(q) = 0
    BY EmptySeq
<1>c. \A q : q = <<>> => Proper(q) /\ Len(q) <= Cap
    BY <1>a, <1>b DEF Proper
<1>0. /\ Len(up) \in Nat /\ Len(down) \in Nat /\ Cap \in Nat
      /\ \A q : q = <<>> => Proper(q) /\ q \in Seq(Frames) /\ Len(q) <= Cap
    BY <1>a, <1>b, <1>c
<1>1. ASSUME cable' \in {"out", "plain", "accessory"}, Proper(up'), Len(up') <= Cap, down' \in Seq(Frames), Len(down') <= Cap
      PROVE  TypeCable' /\ Proper(up')
    BY <1>1 DEF TypeCable, Proper
<1>2. CASE UNCHANGED <<cable, up, down>>
    BY <1>1, <1>2 DEF TypeCable, Proper
<1>3. ASSUME NEW w \in Workers, Open(w)
      PROVE  TypeCable' /\ Proper(up')
    <2>1. CASE EnterAccessoryMode
        BY <1>1, <2>1 DEF EnterAccessoryMode, TypeCable
    <2>2. CASE ConnectSocket(w)
        BY <1>0, <1>1, <2>2 DEF ConnectSocket, TypeCable
    <2> QED  BY <1>3, <2>1, <2>2 DEF Open
<1>4. ASSUME NEW w \in Workers, Challenge(w)
      PROVE  TypeCable' /\ Proper(up')
    <2>1. Proper(up') /\ Len(up') <= Cap
        BY <1>0, <1>4, ProperAged DEF Challenge, Drained, TypeCable
    <2>2. Older(down) \in Seq(Frames) /\ Len(Older(down)) = Len(down)
        BY Aged DEF TypeCable
    <2>3. Signed("challenge", worker[w].cfg, TRUE) \in Frames
        <3>1. worker[w].cfg \in 0..Earlier
            BY Numbers DEF TypeDesktop, Thread
        <3> QED  BY <3>1, FrameTypes
    <2>4. down' \in Seq(Frames) /\ Len(down') <= Cap
        <3>1. CASE Writable(w)
            <4>1. Len(down) + 1 <= Cap
                BY <1>0, <3>1 DEF Writable
            <4> QED  BY <1>0, <1>4, <2>2, <2>3, <3>1, <4>1, Added DEF Challenge
        <3>2. CASE ~Writable(w)
            BY <1>4, <2>2, <3>2 DEF Challenge, TypeCable
        <3> QED  BY <3>1, <3>2
    <2> QED  BY <1>1, <1>4, <2>1, <2>4 DEF Challenge, TypeCable
<1>5. ASSUME NEW w \in Workers, AuthRead(w)
      PROVE  TypeCable' /\ Proper(up')
    <2>1. up # <<>> /\ Len(up) >= 1
        BY <1>5, Taken DEF AuthRead, Readable, TypeCable
    <2>2. CASE Proved(w, Head(up))
        <3>1. PICK k \in 2..(IF kind = "aoa" THEN Len(up) + 1 ELSE 2) : up' = SubSeq(up, k, Len(up))
            BY <1>5, <2>2 DEF AuthRead
        <3>2. k \in 1..(Len(up) + 1)
            BY <1>0, <2>1
        <3>3. Proper(SubSeq(up, k, Len(up))) /\ Len(SubSeq(up, k, Len(up))) <= Len(up)
            BY <1>0, <3>2, ProperPart
        <3>4. UNCHANGED <<cable, down>> /\ Len(up) <= Cap
            BY <1>5 DEF AuthRead, TypeCable
        <3>5. Len(up') <= Cap
            BY <1>0, <3>1, <3>3, <3>4, LenProperties DEF Proper
        <3> QED  BY <1>1, <3>1, <3>3, <3>4, <3>5 DEF TypeCable
    <2>3. CASE ~Proved(w, Head(up))
        <3>1. up' = Tail(up) /\ UNCHANGED <<cable, down>>
            BY <1>5, <2>3 DEF AuthRead
        <3> QED  BY <1>0, <1>1, <2>1, <3>1, ProperTaken DEF TypeCable
    <2> QED  BY <2>2, <2>3
<1>6. ASSUME NEW w \in Workers, SessionRead(w)
      PROVE  TypeCable' /\ Proper(up')
    <2>1. up # <<>>
        BY <1>6 DEF SessionRead, Readable
    <2>2. down' \in Seq(Frames) /\ Len(down') <= Cap
        BY <1>6, <2>1, ProperTaken, SessionWrites DEF SessionRead
    <2> QED  BY <1>0, <1>1, <1>6, <2>1, <2>2, ProperTaken DEF SessionRead, TypeCable
<1>7. CASE Scan \/ Resync
    BY <1>0, <1>1, <1>2, <1>7, CutStep DEF Scan, Resync, TypeCable
<1>8. CASE PhoneRead
    <2>1. down # <<>> /\ down' = Tail(down) /\ cable' = cable
        BY <1>8 DEF PhoneRead
    <2>2. down' \in Seq(Frames) /\ Len(down') <= Cap /\ Head(down) \in Frames
        BY <1>0, <2>1, Taken DEF TypeCable
    <2>3. Proper(up') /\ Len(up') <= Cap
        <3>1. CASE ReadAnswer(Head(down))
            BY <3>1 DEF ReadAnswer, TypeCable
        <3>2. CASE Cut
            BY <1>0, <3>2, CutStep DEF TypeCable
        <3>3. CASE UNCHANGED up
            BY <3>3 DEF TypeCable
        <3>4. ASSUME Len(up) < Cap, NEW f \in Frames, Named(f), up' = Append(up, f)
              PROVE  Proper(up') /\ Len(up') <= Cap
            BY <1>0, <3>4, ProperAdded
        <3>5. /\ Signed("proof", scanned, Head(down).fresh) \in Frames /\ Named(Signed("proof", scanned, Head(down).fresh))
              /\ Plain("refused") \in Frames /\ Named(Plain("refused"))
            BY <2>2, OtherFrames DEF TypePhone, Frames
        <3> QED  BY <1>8, <3>1, <3>2, <3>3, <3>4, <3>5 DEF PhoneRead, ReadChallenge
    <2> QED  BY <1>1, <2>1, <2>2, <2>3 DEF TypeCable
<1>9. ASSUME NEW r \in Requests, UploadStart(r) \/ UploadChunk(r) \/ UploadFinish(r)
      PROVE  TypeCable' /\ Proper(up')
    <2>1. PICK f \in Frames : Named(f) /\ \E t : UploadStep(r, f, t)
        BY <1>9, UploadFrames DEF Begun
    <2> QED  BY <1>0, <1>1, <2>1, ProperAdded DEF UploadStep, CanSend, TypeCable
<1>10. CASE Unplug \/ Plug
    <2>1. CASE Unplug
        BY <1>0, <1>1, <2>1 DEF Unplug
    <2>2. CASE Plug
        BY <1>1, <2>2 DEF Plug, TypeCable
    <2> QED  BY <1>10, <2>1, <2>2
<1>11. CASE Configure \/ Stop \/ Reopen \/ Notice
    BY <1>2, <1>11 DEF Configure, Stop, Reopen, Notice
<1>12. ASSUME NEW w \in Workers, Begin(w) \/ OpenFails(w) \/ AuthFails(w) \/ SessionEnds(w) \/ Wait(w) \/ CloseDetached(w)
       PROVE  TypeCable' /\ Proper(up')
    BY <1>2, <1>12 DEF Begin, OpenFails, AuthFails, SessionEnds, Wait, CloseDetached
<1>13. ASSUME NEW r \in Requests, UploadReturns(r) \/ UploadBreaks(r)
       PROVE  TypeCable' /\ Proper(up')
    BY <1>2, <1>13 DEF UploadReturns, UploadBreaks
<1> QED
    BY <1>2, <1>3, <1>4, <1>5, <1>6, <1>7, <1>8, <1>9, <1>10, <1>11, <1>12, <1>13 DEF Next, Phone, Step

-----------------------------------------------------------------------------
(* The uploads that have started, and the types of the phone. *)

\* What has started is dropped or handed on.
LEMMA UploadsLeave ==
    ASSUME TypeUploads, kind' = kind, pending' \subseteq pending, given' \subseteq given \cup pending
    PROVE  TypeUploads'
BY DEF TypeUploads, Id

\* What a frame of a session does to the uploads that have started.
LEMMA SessionUploads ==
    ASSUME TypeUploads, kind' = kind, NEW w \in Workers, NEW f \in Frames, Named(f), SessionStep(w, f)
    PROVE  TypeUploads' /\ given \subseteq given'
<1>1. CASE SessionStart(w, f)
    <2>1. NewUpload(f) \in Upload /\ NewUpload(f).r = f.r /\ NewUpload(f).n = f.n
        BY <1>1, EmptySeq DEF SessionStart, NewUpload, Upload, Named
    <2>2. PICK p : p = NewUpload(f)
        OBVIOUS
    <2>3. pending' = (pending \ With(f)) \cup {p} /\ given' = given /\ p \in Upload /\ p.r = f.r /\ p.n = f.n
        BY <1>1, <2>1, <2>2 DEF SessionStart
    <2> QED  BY <2>3 DEF TypeUploads, With, Id
<1>2. CASE SessionChunk(w, f)
    <2>1. PICK p \in With(f) : pending' = (pending \ {p}) \cup {Grown(p, f)}
        BY <1>2 DEF SessionChunk
    <2>2. p \in pending /\ p \in Upload
        BY <2>1 DEF With, TypeUploads
    <2>3. Append(p.got, <<f.n, f.i>>) \in Seq(Tries \X (1..Chunks))
        BY <1>2, <2>2, AppendProperties DEF SessionChunk, Named, Upload
    <2>4. PICK got \in Seq(Tries \X (1..Chunks)) : got = Append(p.got, <<f.n, f.i>>)
        BY <2>3
    <2>5. Grown(p, f) = [p EXCEPT !.got = got]
        BY <2>4 DEF Grown
    <2>6. PICK q \in Upload : q = Grown(p, f) /\ q.r = p.r /\ q.n = p.n
        BY <2>2, <2>5 DEF Upload
    <2>7. pending' = (pending \ {p}) \cup {q} /\ given' = given
        BY <1>2, <2>1, <2>6 DEF SessionChunk
    <2> QED  BY <2>2, <2>6, <2>7 DEF TypeUploads, Id
<1>3. ASSUME Teardown(w) \/ pending' \subseteq pending, given \subseteq given', given' \subseteq given \cup pending
      PROVE  TypeUploads' /\ given \subseteq given'
    BY <1>3, UploadsLeave DEF Teardown
<1>4. CASE SessionRefuse(w, f)
    BY <1>3, <1>4 DEF SessionRefuse, Respond
<1>5. CASE StrayChunk(w, f) \/ SessionTorn(w, f)
    BY <1>3, <1>5 DEF StrayChunk, SessionTorn
<1>6. CASE SessionComplete(w, f)
    <2>1. With(f) \subseteq pending
        BY DEF With
    <2> QED  BY <1>3, <1>6, <2>1 DEF SessionComplete, Respond
<1> QED
    BY <1>1, <1>2, <1>4, <1>5, <1>6 DEF SessionStep

\* The adapter stays the same, and nothing that was handed on is taken back.
LEMMA UploadsStep ==
    ASSUME TypeUploads, TypeCable, Proper(up), [Next]_vars
    PROVE  TypeUploads' /\ given \subseteq given' /\ kind' = kind /\ known' = known
<1>1. ASSUME kind' = kind, pending' \subseteq pending, given' = given
      PROVE  TypeUploads' /\ given \subseteq given'
    BY <1>1, UploadsLeave
<1>2. kind' = kind /\ known' = known
    BY DEF Next, Configure, Stop, Scan, Resync, Unplug, Plug, Phone, Reopen, Notice, PhoneRead, Step, Begin, OpenFails, Open,
           Challenge, AuthRead, AuthFails, SessionRead, SessionEnds, Wait, CloseDetached, UploadStart, UploadChunk, UploadFinish,
           UploadReturns, UploadBreaks, UploadStep
<1>3. CASE UNCHANGED upload
    BY <1>1, <1>2, <1>3
<1>4. CASE Configure \/ Stop
    BY <1>1, <1>2, <1>4 DEF Configure, Stop
<1>5. ASSUME NEW w \in Workers, OpenFails(w) \/ Challenge(w) \/ AuthRead(w) \/ AuthFails(w) \/ SessionEnds(w)
      PROVE  TypeUploads' /\ given \subseteq given'
    BY <1>1, <1>2, <1>5 DEF OpenFails, Challenge, AuthRead, AuthFails, SessionEnds, Teardown
<1>6. ASSUME NEW w \in Workers, SessionRead(w)
      PROVE  TypeUploads' /\ given \subseteq given'
    <2>1. up # <<>> /\ SessionStep(w, Head(up))
        BY <1>6 DEF SessionRead, Readable
    <2> QED  BY <1>2, <2>1, ProperTaken, SessionUploads
<1>7. ASSUME NEW w \in Workers, Begin(w) \/ Open(w) \/ Wait(w) \/ CloseDetached(w)
      PROVE  TypeUploads' /\ given \subseteq given'
    BY <1>3, <1>7 DEF Begin, Open, Wait, CloseDetached
<1>8. CASE Scan \/ Resync \/ Unplug \/ Plug \/ Phone
    BY <1>3, <1>8 DEF Scan, Resync, Unplug, Plug, Phone, Reopen, Notice, PhoneRead
<1>9. ASSUME NEW r \in Requests,
             UploadStart(r) \/ UploadChunk(r) \/ UploadFinish(r) \/ UploadReturns(r) \/ UploadBreaks(r)
      PROVE  TypeUploads' /\ given \subseteq given'
    BY <1>3, <1>9 DEF UploadStart, UploadChunk, UploadFinish, UploadReturns, UploadBreaks, UploadStep
<1> QED
    BY <1>2, <1>3, <1>4, <1>5, <1>6, <1>7, <1>8, <1>9 DEF Next, Step

\* What becomes of the uploads of a phone by itself: none goes on, they are lost.
Loses(t) == [st |-> "lost", n |-> t.n, i |-> t.i, ans |-> t.ans]

LEMMA LoseStep ==
    ASSUME TypePhone, LoseTasks
    PROVE  /\ task' \in [Requests -> Task]
           /\ \A r \in Requests : /\ task'[r] = task[r] \/ (task'[r] = Loses(task[r]) /\ task[r].st # "new")
                                  /\ task'[r].st # "streaming"
<1>1. ASSUME NEW r \in Requests
      PROVE  /\ task'[r] \in Task /\ task'[r].st # "streaming"
             /\ task'[r] = task[r] \/ (task'[r] = Loses(task[r]) /\ task[r].st # "new")
    <2>1. task[r] \in Task
        BY DEF TypePhone
    <2>2. CASE task[r].st = "streaming" \/ (task[r].st = "waiting" /\ task[r].ans = None)
        <3>1. task'[r] = [task[r] EXCEPT !.st = "lost"]
            BY <2>2 DEF LoseTasks
        <3>2. task'[r] = Loses(task[r])
            BY <2>1, <3>1 DEF Task, Loses
        <3> QED  BY <2>1, <2>2, <3>2 DEF Task, Loses
    <2>3. CASE ~(task[r].st = "streaming" \/ (task[r].st = "waiting" /\ task[r].ans = None))
        <3>1. task'[r] = task[r]
            BY <2>3 DEF LoseTasks
        <3> QED  BY <2>1, <2>3, <3>1
    <2> QED  BY <2>2, <2>3
<1>2. task' = [r \in Requests |-> task'[r]]
    BY DEF LoseTasks
<1>3. task' \in [Requests -> Task]
    BY <1>1, <1>2
<1> QED
    BY <1>1, <1>3

\* An answer reaches the upload that waits for it.
LEMMA AnswerStep ==
    ASSUME TypePhone, NEW f \in Frames, ReadAnswer(f)
    PROVE  /\ task' \in [Requests -> Task]
           /\ \A r \in Requests : /\ task'[r].st = task[r].st /\ task'[r].n = task[r].n /\ task'[r].i = task[r].i
                                  /\ task'[r].ans # task[r].ans => task'[r].ans = f.t /\ f.r = r
<1>1. ASSUME NEW r \in Requests
      PROVE  /\ task'[r] \in Task /\ task'[r].st = task[r].st /\ task'[r].n = task[r].n /\ task'[r].i = task[r].i
             /\ task'[r].ans # task[r].ans => task'[r].ans = f.t /\ f.r = r
    <2>1. task[r] \in Task
        BY DEF TypePhone
    <2>2. CASE Answered(r, f) /\ task[r].ans = None
        <3>1. task'[r] = [task[r] EXCEPT !.ans = f.t] /\ f.t \in {"ok", "no"}
            BY <2>2 DEF ReadAnswer
        <3>2. task'[r] = [st |-> task[r].st, n |-> task[r].n, i |-> task[r].i, ans |-> f.t]
            BY <2>1, <3>1 DEF Task
        <3>3. f.r = r
            BY <2>2 DEF Answered, Id
        <3> QED  BY <2>1, <3>1, <3>2, <3>3 DEF Task
    <2>3. CASE ~(Answered(r, f) /\ task[r].ans = None)
        <3>1. task'[r] = task[r]
            BY <2>3 DEF ReadAnswer
        <3> QED  BY <2>1, <3>1
    <2> QED  BY <2>2, <2>3
<1>2. task' = [r \in Requests |-> task'[r]]
    BY DEF ReadAnswer
<1>3. task' \in [Requests -> Task]
    BY <1>1, <1>2
<1> QED
    BY <1>1, <1>3

\* An upload that takes a step, or is given up.
LEMMA UploadStepTask ==
    ASSUME TypePhone, Begun, NEW r \in Requests,
           UploadStart(r) \/ UploadChunk(r) \/ UploadFinish(r) \/ UploadReturns(r) \/ UploadBreaks(r)
    PROVE  /\ task' \in [Requests -> Task] /\ task'[r].n \in Tries
           /\ \A q \in Requests \ {r} : task'[q] = task[q]
           /\ task'[r].ans \in {None, task[r].ans} /\ (task'[r].st = "done" => task[r].ans = "ok")
<1>1. ASSUME NEW t \in Task, task' = [task EXCEPT ![r] = t], t.n \in Tries,
             t.ans \in {None, task[r].ans}, t.st = "done" => task[r].ans = "ok"
      PROVE  /\ task' \in [Requests -> Task] /\ task'[r].n \in Tries
             /\ \A q \in Requests \ {r} : task'[q] = task[q]
             /\ task'[r].ans \in {None, task[r].ans} /\ (task'[r].st = "done" => task[r].ans = "ok")
    BY <1>1 DEF TypePhone
<1>0. task[r] \in Task /\ MaxTries \in Nat /\ Chunks \in Nat
    BY Numbers DEF TypePhone
<1>2. CASE UploadStart(r)
    <2>1. PICK n \in Tries : task' = [task EXCEPT ![r] = [st |-> "streaming", n |-> n, i |-> 0, ans |-> None]]
        BY <1>2 DEF UploadStart, UploadStep
    <2>2. [st |-> "streaming", n |-> n, i |-> 0, ans |-> None] \in Task
        BY <1>0 DEF Task, Tries
    <2> QED  BY <1>1, <2>1, <2>2
<1>3. CASE UploadChunk(r)
    <2> DEFINE t == [st |-> "streaming", n |-> task[r].n, i |-> task[r].i + 1, ans |-> task[r].ans]
    <2>1. task' = [task EXCEPT ![r] = t] /\ task[r].i + 1 \in 1..Chunks /\ task[r].n \in Tries
        BY <1>3, UploadFrames DEF Begun, UploadStep
    <2>2. t \in Task
        BY <1>0, <2>1 DEF Task
    <2> QED  BY <1>1, <2>1, <2>2
<1>4. CASE UploadFinish(r)
    <2> DEFINE t == [st |-> "waiting", n |-> task[r].n, i |-> task[r].i, ans |-> task[r].ans]
    <2>1. task' = [task EXCEPT ![r] = t] /\ task[r].n \in Tries
        BY <1>4, UploadFrames DEF Begun, UploadStep
    <2>2. t \in Task
        BY <1>0, <2>1 DEF Task
    <2> QED  BY <1>1, <2>1, <2>2
<1>5. ASSUME NEW st \in {"done", "failed", "lost"}, task' = [task EXCEPT ![r].st = st], task[r].st # "new",
             st = "done" => task[r].ans = "ok"
      PROVE  /\ task' \in [Requests -> Task] /\ task'[r].n \in Tries
             /\ \A q \in Requests \ {r} : task'[q] = task[q]
             /\ task'[r].ans \in {None, task[r].ans} /\ (task'[r].st = "done" => task[r].ans = "ok")
    <2> DEFINE t == [st |-> st, n |-> task[r].n, i |-> task[r].i, ans |-> task[r].ans]
    <2>1. task' = [task EXCEPT ![r] = t]
        <3>1. [task[r] EXCEPT !.st = st] = t
            BY <1>0 DEF Task
        <3>2. task' = [task EXCEPT ![r] = [task[r] EXCEPT !.st = st]]
            BY <1>5
        <3> QED  BY <3>1, <3>2
    <2>2. t \in Task /\ t.n \in Tries
        BY <1>0, <1>5 DEF Task, Begun
    <2> QED  BY <1>1, <1>5, <2>1, <2>2
<1>6. CASE UploadReturns(r)
    <2>1. (IF task[r].ans = "ok" THEN "done" ELSE "failed") \in {"done", "failed", "lost"}
        OBVIOUS
    <2> QED  BY <1>5, <1>6, <2>1 DEF UploadReturns
<1>7. CASE UploadBreaks(r)
    BY <1>5, <1>7 DEF UploadBreaks
<1> QED
    BY <1>2, <1>3, <1>4, <1>6, <1>7

\* What a step does to the uploads of the phone.
LEMMA TaskCases ==
    ASSUME [Next]_vars
    PROVE  \/ UNCHANGED task
           \/ LoseTasks
           \/ PhoneRead /\ ReadAnswer(Head(down))
           \/ \E r \in Requests : UploadStart(r) \/ UploadChunk(r) \/ UploadFinish(r) \/ UploadReturns(r) \/ UploadBreaks(r)
<1>1. CASE Scan \/ Resync \/ Unplug \/ Notice
    BY <1>1 DEF Scan, Resync, Unplug, Notice
<1>2. CASE PhoneRead
    BY <1>2 DEF PhoneRead, ReadChallenge
<1>3. CASE Configure \/ Stop \/ Plug \/ Reopen
    BY <1>3 DEF Configure, Stop, Plug, Reopen
<1>4. CASE \E w \in Workers : Step(w)
    BY <1>4 DEF Step, Begin, OpenFails, Open, Challenge, AuthRead, AuthFails, SessionRead, SessionEnds, Wait, CloseDetached
<1> QED
    BY <1>1, <1>2, <1>3, <1>4 DEF Next, Phone

\* The phone's types hold after every step, and each attempt has its number.
LEMMA PhoneStep ==
    ASSUME TypeDesktop, TypeCable, TypePhone, TypeRest, Begun, [Next]_vars
    PROVE  TypePhone' /\ TypeRest' /\ Begun'
<1>1. task' \in [Requests -> Task] /\ Begun'
    <2>1. CASE LoseTasks
        BY <2>1, LoseStep DEF Begun, Loses
    <2>2. CASE PhoneRead /\ ReadAnswer(Head(down))
        <3>1. Head(down) \in Frames
            BY <2>2, Taken DEF PhoneRead, TypeCable
        <3> QED  BY <2>2, <3>1, AnswerStep DEF Begun
    <2>3. CASE \E r \in Requests : UploadStart(r) \/ UploadChunk(r) \/ UploadFinish(r) \/ UploadReturns(r) \/ UploadBreaks(r)
        BY <2>3, UploadStepTask DEF Begun
    <2>4. CASE UNCHANGED task
        BY <2>4 DEF TypePhone, Begun
    <2> QED  BY <2>1, <2>2, <2>3, <2>4, TaskCases
<1>2. /\ phone' \in {"closed", "auth", "connected"} /\ scanned' \in 0..Earlier
      /\ conn' \in Workers \cup {None} /\ faults' \in 0..MaxFaults
    <2>1. CASE UNCHANGED <<phone, scanned, conn, faults>>
        BY <2>1 DEF TypePhone, TypeRest
    <2>2. CASE Scan
        BY <2>2, Numbers DEF Scan, TypePhone, TypeRest, TypeDesktop
    <2>3. CASE Resync \/ Unplug \/ Reopen \/ Notice
        BY <2>3, Numbers DEF Resync, Unplug, Reopen, Notice, TypePhone, TypeRest
    <2>4. CASE PhoneRead
        BY <2>4 DEF PhoneRead, ReadChallenge, ReadAnswer, TypePhone, TypeRest
    <2>5. CASE Configure \/ Stop \/ Plug
        BY <2>1, <2>5 DEF Configure, Stop, Plug
    <2>6. CASE \E w \in Workers : Open(w)
        BY <2>6 DEF Open, EnterAccessoryMode, ConnectSocket, WebSocket, TypePhone, TypeRest
    <2>7. ASSUME NEW w \in Workers, Step(w), ~Open(w)
          PROVE  UNCHANGED <<phone, scanned, conn, faults>>
        BY <2>7 DEF Step, Begin, OpenFails, Challenge, AuthRead, AuthFails, SessionRead, SessionEnds, Wait, CloseDetached
    <2>8. CASE \E r \in Requests : UploadStart(r) \/ UploadChunk(r) \/ UploadFinish(r) \/ UploadReturns(r) \/ UploadBreaks(r)
        BY <2>1, <2>8 DEF UploadStart, UploadChunk, UploadFinish, UploadReturns, UploadBreaks, UploadStep
    <2> QED  BY <2>1, <2>2, <2>3, <2>4, <2>5, <2>6, <2>7, <2>8 DEF Next, Phone
<1>3. kind' = kind /\ known' = known
    BY DEF Next, Configure, Stop, Scan, Resync, Unplug, Plug, Phone, Reopen, Notice, PhoneRead, Step, Begin, OpenFails, Open,
           Challenge, AuthRead, AuthFails, SessionRead, SessionEnds, Wait, CloseDetached, UploadStart, UploadChunk, UploadFinish,
           UploadReturns, UploadBreaks, UploadStep
<1> QED
    BY <1>1, <1>2, <1>3 DEF TypePhone, TypeRest

-----------------------------------------------------------------------------
(* What the phone was told. *)

HandedOn(S, r) == \E p \in S : p.r = r

\* An upload that is answered "ok", or done, was handed on.
Answers ==
    /\ \A k \in 1..Len(down) : down[k].t = "ok" => HandedOn(given, down[k].r)
    /\ \A r \in Requests : task[r].ans = "ok" \/ task[r].st = "done" => HandedOn(given, r)

\* What a session answers with "ok" has been handed on.
LEMMA SessionAnswers ==
    ASSUME TypeDesktop, TypeCable, TypeUploads, NEW w \in Workers, NEW f \in Frames, Named(f), SessionStep(w, f)
    PROVE  \/ down' = down
           \/ \E t \in {"ok", "no"} : /\ down' = Append(down, Frame(t, f.r, f.n, 0)) /\ Frame(t, f.r, f.n, 0) \in Frames
                                      /\ t = "ok" => HandedOn(given', f.r)
<1>1. CASE SessionRefuse(w, f)
    BY <1>1, RespondStep DEF SessionRefuse
<1>2. CASE SessionComplete(w, f)
    <2>1. Verdict(f) \in {"ok", "no"} /\ Respond(w, f, Verdict(f)) /\ f.t = "complete"
        BY <1>2 DEF SessionComplete, Verdict
    <2>2. Verdict(f) = "ok" => \E p \in given' : p.r = f.r
        BY <1>2 DEF SessionComplete, Verdict, With, Id
    <2> QED  BY <2>1, <2>2, RespondStep DEF HandedOn
<1>3. CASE UNCHANGED down
    BY <1>3
<1> QED
    BY <1>1, <1>2, <1>3 DEF SessionStep, SessionStart, SessionChunk, StrayChunk, SessionTorn

LEMMA AnswersStep ==
    ASSUME TypeDesktop, TypeCable, TypePhone, TypeUploads, Proper(up), Begun, Answers, [Next]_vars
    PROVE  Answers'
<1>1. given \subseteq given'
    BY UploadsStep
<1>2. ASSUME NEW r, HandedOn(given, r) PROVE HandedOn(given', r)
    BY <1>1, <1>2 DEF HandedOn
<1>0. Len(down) \in Nat
    BY LenProperties DEF TypeCable
<1>3. \A k \in 1..Len(down') : down'[k].t = "ok" => HandedOn(given', down'[k].r)
    <2>1. CASE UNCHANGED down
        BY <1>2, <2>1 DEF Answers
    <2>2. CASE down' = Tail(down) /\ down # <<>>
        BY <1>0, <1>2, <2>2, Taken DEF Answers, TypeCable
    <2>3. CASE down' = <<>>
        BY <2>3, EmptySeq
    <2>4. ASSUME NEW w \in Workers, Challenge(w)
          PROVE  \A k \in 1..Len(down') : down'[k].t = "ok" => HandedOn(given', down'[k].r)
        <3>0. PICK f : f = Signed("challenge", worker[w].cfg, TRUE)
            OBVIOUS
        <3>1. /\ Older(down) \in Seq(Frames) /\ Len(Older(down)) = Len(down)
              /\ \A k \in 1..Len(down) : Older(down)[k].t = down[k].t /\ Older(down)[k].r = down[k].r
            BY Aged DEF TypeCable
        <3>2. f \in Frames /\ f.t = "challenge"
            <4>1. worker[w].cfg \in 0..Earlier
                BY Numbers DEF TypeDesktop, Thread
            <4> QED  BY <3>0, <4>1, FrameTypes
        <3>3. down' = Older(down) \/ down' = Append(Older(down), f)
            BY <2>4, <3>0 DEF Challenge
        <3>4. CASE down' = Older(down)
            BY <1>2, <3>1, <3>4 DEF Answers
        <3>5. CASE down' = Append(Older(down), f)
            <4>1. Len(down') = Len(down) + 1 /\ down'[Len(down) + 1] = f /\ \A k \in 1..Len(down) : down'[k] = Older(down)[k]
                BY <3>1, <3>2, <3>5, Added
            <4>2. ASSUME NEW k \in 1..Len(down'), down'[k].t = "ok"
                  PROVE  HandedOn(given', down'[k].r)
                <5>1. k \in 1..Len(down)
                    BY <1>0, <3>2, <4>1, <4>2
                <5> QED  BY <1>2, <3>1, <4>1, <4>2, <5>1 DEF Answers
            <4> QED  BY <4>2
        <3> QED  BY <3>3, <3>4, <3>5
    <2>5. ASSUME NEW w \in Workers, SessionRead(w)
          PROVE  \A k \in 1..Len(down') : down'[k].t = "ok" => HandedOn(given', down'[k].r)
        <3>1. Head(up) \in Frames /\ Named(Head(up)) /\ SessionStep(w, Head(up))
            BY <2>5, ProperTaken DEF SessionRead, Readable
        <3>2. PICK f \in Frames : f = Head(up)
            BY <3>1
        <3>3. CASE down' # down
            <4>1. PICK t \in {"ok", "no"} :
                       /\ down' = Append(down, Frame(t, f.r, f.n, 0)) /\ Frame(t, f.r, f.n, 0) \in Frames
                       /\ t = "ok" => HandedOn(given', f.r)
                BY <3>1, <3>2, <3>3, SessionAnswers
            <4>2. Frame(t, f.r, f.n, 0).t = t /\ Frame(t, f.r, f.n, 0).r = f.r
                BY DEF Frame
            <4>3. Len(down') = Len(down) + 1 /\ down'[Len(down) + 1] = Frame(t, f.r, f.n, 0)
                  /\ \A k \in 1..Len(down) : down'[k] = down[k]
                BY <4>1, Added DEF TypeCable
            <4> QED  BY <1>0, <1>2, <4>1, <4>2, <4>3 DEF Answers
        <3> QED  BY <2>1, <3>3
    <2>6. CASE \E w \in Workers : Open(w)
        BY <2>1, <2>3, <2>6 DEF Open, EnterAccessoryMode, ConnectSocket
    <2>7. ASSUME NEW w \in Workers, Step(w), ~Open(w), ~Challenge(w), ~SessionRead(w)
          PROVE  UNCHANGED down
        BY <2>7 DEF Step, Begin, OpenFails, AuthRead, AuthFails, SessionEnds, Wait, CloseDetached
    <2>8. CASE PhoneRead \/ Unplug
        BY <2>2, <2>3, <2>8 DEF PhoneRead, Unplug
    <2>9. CASE Configure \/ Stop \/ Scan \/ Resync \/ Plug \/ Reopen \/ Notice
        BY <2>1, <2>9 DEF Configure, Stop, Scan, Resync, Plug, Reopen, Notice
    <2>10. CASE \E r \in Requests : UploadStart(r) \/ UploadChunk(r) \/ UploadFinish(r) \/ UploadReturns(r) \/ UploadBreaks(r)
        BY <2>1, <2>10 DEF UploadStart, UploadChunk, UploadFinish, UploadReturns, UploadBreaks, UploadStep
    <2> QED  BY <2>1, <2>4, <2>5, <2>6, <2>7, <2>8, <2>9, <2>10 DEF Next, Phone
<1>4. \A r \in Requests : task'[r].ans = "ok" \/ task'[r].st = "done" => HandedOn(given', r)
    <2>1. CASE UNCHANGED task
        BY <1>2, <2>1 DEF Answers
    <2>2. CASE LoseTasks
        BY <1>2, <2>2, LoseStep DEF Answers, Loses
    <2>3. CASE PhoneRead /\ ReadAnswer(Head(down))
        <3>1. Head(down) \in Frames /\ Head(down) = down[1] /\ 1 \in 1..Len(down)
            BY <1>0, <2>3, Taken DEF PhoneRead, TypeCable
        <3> QED  BY <1>2, <2>3, <3>1, AnswerStep DEF Answers
    <2>4. CASE \E r \in Requests : UploadStart(r) \/ UploadChunk(r) \/ UploadFinish(r) \/ UploadReturns(r) \/ UploadBreaks(r)
        BY <1>2, <2>4, UploadStepTask DEF Answers, None
    <2> QED  BY <2>1, <2>2, <2>3, <2>4, TaskCases
<1> QED
    BY <1>3, <1>4 DEF Answers, HandedOn

-----------------------------------------------------------------------------
(* The first theorems. *)

\* What holds in every state, whatever the threads of the desktop do.
Basics == TypeOK /\ SessionIsCurrent /\ Proper(up) /\ Begun /\ Answers

LEMMA BasicsInit == Init => Basics
<1> SUFFICES ASSUME Init PROVE Basics
    OBVIOUS
<1>1. TypeDesktop /\ SessionIsCurrent
    <2>1. Off \in Thread
        BY Numbers DEF Off, Thread
    <2>2. slot = None /\ worker \in [Workers -> Thread] /\ cfg \in 0..MaxConfigs
        BY <2>1, Numbers DEF Init
    <2> QED  BY <2>2, Numbers DEF Init, TypeDesktop, SessionIsCurrent
<1>2. TypeUploads /\ TypeRest
    BY Numbers DEF Init, TypeUploads, TypeRest
<1>3. \A q : q = <<>> => q \in Seq(Frames) /\ Len(q) = 0
    BY EmptySeq
<1>4. TypeCable /\ Proper(up)
    BY <1>3, Numbers DEF Init, TypeCable, Proper
<1>5. TypePhone /\ Begun
    BY Numbers DEF Init, TypePhone, Begun, Task
<1>6. Answers
    BY <1>3 DEF Init, Answers, None
<1> QED
    BY <1>1, <1>2, <1>4, <1>5, <1>6, TypeParts DEF Basics

LEMMA BasicsStep == Basics /\ [Next]_vars => Basics'
<1> SUFFICES ASSUME Basics, [Next]_vars PROVE Basics'
    OBVIOUS
<1>1. TypeDesktop /\ TypeUploads /\ TypeCable /\ TypePhone /\ TypeRest
    BY TypeParts DEF Basics
<1>2. TypeDesktop' /\ SessionIsCurrent'
    BY <1>1, DesktopStep DEF Basics
<1>3. TypeUploads'
    BY <1>1, UploadsStep DEF Basics
<1>4. TypeCable' /\ Proper(up)'
    BY <1>1, CableStep DEF Basics
<1>5. TypePhone' /\ TypeRest' /\ Begun'
    BY <1>1, PhoneStep DEF Basics
<1>6. Answers'
    BY <1>1, AnswersStep DEF Basics
<1>7. TypeOK'
    BY <1>2, <1>3, <1>4, <1>5, TypeParts2
<1> QED
    BY <1>2, <1>4, <1>5, <1>6, <1>7 DEF Basics

LEMMA BasicsHold == Spec => []Basics
BY BasicsInit, BasicsStep, PTL DEF Spec

\* The queues of the cable hold frames within their bounds, and no two uploads
\* that have started share their request id.
THEOREM TypeCorrect == Spec => []TypeOK
<1>1. Basics => TypeOK
    BY DEF Basics
<1> QED
    BY <1>1, BasicsHold, PTL

\* The phone that is served over the active link has proved that it knows the
\* code that is shown now: _verify_auth_digest looks at the code of this moment,
\* and configure_bootstrap takes the link from whoever was served before.
THEOREM SessionIsCurrentHolds == Spec => []SessionIsCurrent
<1>1. Basics => SessionIsCurrent
    BY DEF Basics
<1> QED
    BY <1>1, BasicsHold, PTL

\* A photo that the phone takes for uploaded was handed to the router,
\* whichever of its attempts was answered, over however many sessions.
THEOREM DoneIsGivenHolds == Spec => []DoneIsGiven
<1>1. Basics => DoneIsGiven
    BY DEF Basics, Answers, HandedOn, DoneIsGiven
<1> QED
    BY <1>1, BasicsHold, PTL

-----------------------------------------------------------------------------
(* The order of the frames of an upload. *)

Relevant(f) == f.t \in {"start", "chunk", "complete"}

\* Does the frame carry the request id of attempt n to upload r?
Of(kd, f, r, n) == Relevant(f) /\ f.r = r /\ (kd = "aoa" \/ f.n = n)

\* Where a frame stands in its upload.
Place(f) == IF f.t = "start" THEN 0 ELSE IF f.t = "chunk" THEN f.i ELSE Chunks + 1

\* May the frame come when i chunks of attempt n have come?
Goes(f, n, i) == f.t = "start" \/ (f.n = n /\ Place(f) = i + 1)

\* Frames with one request id go on from each other, ...
Chain(kd, q) ==
    \A j, k \in 1..Len(q) :
        /\ j < k /\ Relevant(q[j]) /\ Of(kd, q[k], q[j].r, q[j].n)
        /\ \A m \in 1..Len(q) : j < m /\ m < k => ~Of(kd, q[m], q[j].r, q[j].n)
        => Goes(q[k], q[j].n, Place(q[j]))

\* ... the first of them from what has been read, ...
First(kd, q, r, n, i) ==
    \A k \in 1..Len(q) :
        Of(kd, q[k], r, n) /\ (\A m \in 1..Len(q) : m < k => ~Of(kd, q[m], r, n)) => Goes(q[k], n, i)

\* ... and the last of them is the one that was sent last.
Last(kd, q, r, n, i) ==
    \A k \in 1..Len(q) :
        Of(kd, q[k], r, n) /\ (\A m \in 1..Len(q) : k < m => ~Of(kd, q[m], r, n)) => q[k].n = n /\ Place(q[k]) = i

Absent(kd, q, r, n) == \A k \in 1..Len(q) : ~Of(kd, q[k], r, n)

\* An empty queue is in order.
LEMMA LinkedEmpty ==
    ASSUME NEW q, q = <<>>, NEW kd
    PROVE  /\ Chain(kd, q)
           /\ \A r, n, i : First(kd, q, r, n, i) /\ Last(kd, q, r, n, i)
<1>1. 1..Len(q) = {}
    BY EmptySeq
<1> QED
    BY <1>1 DEF Chain, First, Last

\* A part of a queue is in order.
LEMMA LinkedPart ==
    ASSUME NEW q \in Seq(Frames), NEW j \in 1..(Len(q) + 1), NEW k \in 0..Len(q), NEW kd
    PROVE  /\ Chain(kd, q) => Chain(kd, SubSeq(q, j, k))
           /\ j = 1 => \A r, n, i : First(kd, q, r, n, i) => First(kd, SubSeq(q, j, k), r, n, i)
           /\ k = Len(q) => \A r, n, i : Last(kd, q, r, n, i) => Last(kd, SubSeq(q, j, k), r, n, i)
<1>1. PICK s : s = SubSeq(q, j, k)
    OBVIOUS
<1>2. /\ Len(q) \in Nat /\ Len(s) = (IF j <= k THEN k - j + 1 ELSE 0)
      /\ \A a \in 1..Len(s) : s[a] = q[j + a - 1] /\ j + a - 1 \in 1..Len(q)
    BY <1>1, PartOf, LenProperties
<1>3. ASSUME Chain(kd, q) PROVE Chain(kd, s)
    <2> SUFFICES ASSUME NEW a \in 1..Len(s), NEW b \in 1..Len(s), a < b, Relevant(s[a]), Of(kd, s[b], s[a].r, s[a].n),
                        \A m \in 1..Len(s) : a < m /\ m < b => ~Of(kd, s[m], s[a].r, s[a].n)
                 PROVE  Goes(s[b], s[a].n, Place(s[a]))
        BY DEF Chain
    <2>1. s[a] = q[j + a - 1] /\ s[b] = q[j + b - 1] /\ j + a - 1 \in 1..Len(q) /\ j + b - 1 \in 1..Len(q)
          /\ j + a - 1 < j + b - 1
        BY <1>2
    <2>2. ASSUME NEW m \in 1..Len(q), j + a - 1 < m /\ m < j + b - 1
          PROVE  ~Of(kd, q[m], s[a].r, s[a].n)
        <3>1. m - j + 1 \in 1..Len(s) /\ a < m - j + 1 /\ m - j + 1 < b /\ j + (m - j + 1) - 1 = m
            BY <1>2, <2>2
        <3> QED  BY <1>2, <3>1
    <2> QED  BY <1>3, <2>1, <2>2 DEF Chain
<1>4. ASSUME j = 1, NEW r, NEW n, NEW i, First(kd, q, r, n, i) PROVE First(kd, s, r, n, i)
    <2>1. Len(s) <= Len(q) /\ \A a \in 1..Len(s) : s[a] = q[a]
        BY <1>2, <1>4
    <2> QED  BY <1>2, <1>4, <2>1 DEF First
<1>5. ASSUME k = Len(q), NEW r, NEW n, NEW i, Last(kd, q, r, n, i) PROVE Last(kd, s, r, n, i)
    <2> SUFFICES ASSUME NEW a \in 1..Len(s), Of(kd, s[a], r, n), \A m \in 1..Len(s) : a < m => ~Of(kd, s[m], r, n)
                 PROVE  s[a].n = n /\ Place(s[a]) = i
        BY DEF Last
    <2>1. ASSUME NEW m \in 1..Len(q), j + a - 1 < m
          PROVE  ~Of(kd, q[m], r, n)
        <3>1. m - j + 1 \in 1..Len(s) /\ a < m - j + 1 /\ j + (m - j + 1) - 1 = m
            BY <1>2, <1>5, <2>1
        <3> QED  BY <1>2, <3>1
    <2> QED  BY <1>2, <1>5, <2>1 DEF Last
<1> QED
    BY <1>1, <1>3, <1>4, <1>5

\* A queue to which a frame is added that goes on from the last one.
LEMMA LinkedAdded ==
    ASSUME NEW q \in Seq(Frames), NEW f \in Frames, NEW kd
    PROVE  /\ Chain(kd, q) /\ (\A j \in 1..Len(q) :
                  Relevant(q[j]) /\ Of(kd, f, q[j].r, q[j].n) /\ (\A m \in 1..Len(q) : j < m => ~Of(kd, q[m], q[j].r, q[j].n))
                  => Goes(f, q[j].n, Place(q[j])))
              => Chain(kd, Append(q, f))
           /\ \A r, n, i : /\ First(kd, q, r, n, i) /\ (Of(kd, f, r, n) /\ Absent(kd, q, r, n) => Goes(f, n, i))
                              => First(kd, Append(q, f), r, n, i)
                           /\ Of(kd, f, r, n) /\ f.n = n /\ Place(f) = i => Last(kd, Append(q, f), r, n, i)
                           /\ ~Of(kd, f, r, n) /\ Last(kd, q, r, n, i) => Last(kd, Append(q, f), r, n, i)
           /\ \A r, n : Absent(kd, Append(q, f), r, n) => Absent(kd, q, r, n) /\ ~Of(kd, f, r, n)
<1>1. PICK s : s = Append(q, f)
    OBVIOUS
<1>2. Len(q) \in Nat /\ Len(s) = Len(q) + 1 /\ s[Len(q) + 1] = f /\ \A a \in 1..Len(q) : s[a] = q[a]
    BY <1>1, Added, LenProperties
<1>3. ASSUME Chain(kd, q),
             \A j \in 1..Len(q) :
                  Relevant(q[j]) /\ Of(kd, f, q[j].r, q[j].n) /\ (\A m \in 1..Len(q) : j < m => ~Of(kd, q[m], q[j].r, q[j].n))
                  => Goes(f, q[j].n, Place(q[j]))
      PROVE  Chain(kd, s)
    <2> SUFFICES ASSUME NEW a \in 1..Len(s), NEW b \in 1..Len(s), a < b, Relevant(s[a]), Of(kd, s[b], s[a].r, s[a].n),
                        \A m \in 1..Len(s) : a < m /\ m < b => ~Of(kd, s[m], s[a].r, s[a].n)
                 PROVE  Goes(s[b], s[a].n, Place(s[a]))
        BY DEF Chain
    <2>1. a \in 1..Len(q) /\ s[a] = q[a]
        BY <1>2
    <2>2. CASE b \in 1..Len(q)
        <3>1. \A m \in 1..Len(q) : a < m /\ m < b => ~Of(kd, q[m], q[a].r, q[a].n)
            BY <1>2, <2>1
        <3> QED  BY <1>2, <1>3, <2>1, <2>2, <3>1 DEF Chain
    <2>3. CASE b = Len(q) + 1
        <3>1. \A m \in 1..Len(q) : a < m => ~Of(kd, q[m], q[a].r, q[a].n)
            BY <1>2, <2>1, <2>3
        <3> QED  BY <1>2, <1>3, <2>1, <2>3, <3>1
    <2> QED  BY <1>2, <2>2, <2>3
<1>4. ASSUME NEW r, NEW n, NEW i, First(kd, q, r, n, i), Of(kd, f, r, n) /\ Absent(kd, q, r, n) => Goes(f, n, i)
      PROVE  First(kd, s, r, n, i)
    <2> SUFFICES ASSUME NEW b \in 1..Len(s), Of(kd, s[b], r, n), \A m \in 1..Len(s) : m < b => ~Of(kd, s[m], r, n)
                 PROVE  Goes(s[b], n, i)
        BY DEF First
    <2>1. CASE b \in 1..Len(q)
        <3>1. \A m \in 1..Len(q) : m < b => ~Of(kd, q[m], r, n)
            BY <1>2
        <3> QED  BY <1>2, <1>4, <2>1, <3>1 DEF First
    <2>2. CASE b = Len(q) + 1
        BY <1>2, <1>4, <2>2 DEF Absent
    <2> QED  BY <1>2, <2>1, <2>2
<1>5. ASSUME NEW r, NEW n, NEW i, Of(kd, f, r, n), f.n = n /\ Place(f) = i PROVE Last(kd, s, r, n, i)
    <2> SUFFICES ASSUME NEW b \in 1..Len(s), Of(kd, s[b], r, n), \A m \in 1..Len(s) : b < m => ~Of(kd, s[m], r, n)
                 PROVE  s[b].n = n /\ Place(s[b]) = i
        BY DEF Last
    <2>1. b = Len(q) + 1
        BY <1>2, <1>5
    <2> QED  BY <1>2, <1>5, <2>1
<1>6. ASSUME NEW r, NEW n, NEW i, ~Of(kd, f, r, n), Last(kd, q, r, n, i) PROVE Last(kd, s, r, n, i)
    <2> SUFFICES ASSUME NEW b \in 1..Len(s), Of(kd, s[b], r, n), \A m \in 1..Len(s) : b < m => ~Of(kd, s[m], r, n)
                 PROVE  s[b].n = n /\ Place(s[b]) = i
        BY DEF Last
    <2>1. b \in 1..Len(q) /\ s[b] = q[b] /\ \A m \in 1..Len(q) : b < m => ~Of(kd, q[m], r, n)
        BY <1>2, <1>6
    <2> QED  BY <1>6, <2>1 DEF Last
<1>7. \A r, n : Absent(kd, s, r, n) => Absent(kd, q, r, n) /\ ~Of(kd, f, r, n)
    BY <1>2 DEF Absent
<1> QED
    BY <1>1, <1>3, <1>4, <1>5, <1>6, <1>7

\* A queue from which the first frame is taken.
LEMMA LinkedTaken ==
    ASSUME NEW q \in Seq(Frames), q # <<>>, NEW kd, Chain(kd, q)
    PROVE  /\ Chain(kd, Tail(q))
           /\ \A r, n, i : /\ Last(kd, q, r, n, i) => Last(kd, Tail(q), r, n, i)
                           /\ First(kd, q, r, n, i) /\ ~Of(kd, Head(q), r, n) => First(kd, Tail(q), r, n, i)
                           /\ First(kd, q, r, n, i) /\ Of(kd, Head(q), r, n) => Goes(Head(q), n, i)
                           /\ Of(kd, Head(q), r, n) /\ Absent(kd, Tail(q), r, n) /\ Last(kd, q, r, n, i)
                              => Head(q).n = n /\ Place(Head(q)) = i
           /\ \A r, n : ~Of(kd, Head(q), r, n) /\ Absent(kd, Tail(q), r, n) => Absent(kd, q, r, n)
           /\ Relevant(Head(q)) => First(kd, Tail(q), Head(q).r, Head(q).n, Place(Head(q)))
<1>1. PICK s, f : s = Tail(q) /\ f = Head(q)
    OBVIOUS
<1>2. /\ Len(q) \in Nat /\ Len(q) >= 1 /\ Len(s) = Len(q) - 1 /\ f = q[1]
      /\ \A a \in 1..Len(s) : s[a] = q[a + 1] /\ a + 1 \in 1..Len(q)
    BY <1>1, Taken
<1>3. \A m \in 1..Len(q) : m = 1 \/ (m - 1 \in 1..Len(s) /\ q[m] = s[m - 1])
    BY <1>2
<1>4. Chain(kd, s)
    <2> SUFFICES ASSUME NEW a \in 1..Len(s), NEW b \in 1..Len(s), a < b, Relevant(s[a]), Of(kd, s[b], s[a].r, s[a].n),
                        \A m \in 1..Len(s) : a < m /\ m < b => ~Of(kd, s[m], s[a].r, s[a].n)
                 PROVE  Goes(s[b], s[a].n, Place(s[a]))
        BY DEF Chain
    <2>1. \A m \in 1..Len(q) : a + 1 < m /\ m < b + 1 => ~Of(kd, q[m], s[a].r, s[a].n)
        BY <1>2, <1>3
    <2> QED  BY <1>2, <2>1 DEF Chain
<1>5. ASSUME NEW r, NEW n, NEW i, Last(kd, q, r, n, i) PROVE Last(kd, s, r, n, i)
    <2> SUFFICES ASSUME NEW a \in 1..Len(s), Of(kd, s[a], r, n), \A m \in 1..Len(s) : a < m => ~Of(kd, s[m], r, n)
                 PROVE  s[a].n = n /\ Place(s[a]) = i
        BY DEF Last
    <2>1. \A m \in 1..Len(q) : a + 1 < m => ~Of(kd, q[m], r, n)
        BY <1>2, <1>3
    <2> QED  BY <1>2, <1>5, <2>1 DEF Last
<1>6. ASSUME NEW r, NEW n, NEW i, First(kd, q, r, n, i), ~Of(kd, f, r, n) PROVE First(kd, s, r, n, i)
    <2> SUFFICES ASSUME NEW a \in 1..Len(s), Of(kd, s[a], r, n), \A m \in 1..Len(s) : m < a => ~Of(kd, s[m], r, n)
                 PROVE  Goes(s[a], n, i)
        BY DEF First
    <2>1. \A m \in 1..Len(q) : m < a + 1 => ~Of(kd, q[m], r, n)
        BY <1>2, <1>3, <1>6
    <2> QED  BY <1>2, <1>6, <2>1 DEF First
<1>7. ASSUME NEW r, NEW n, NEW i, First(kd, q, r, n, i), Of(kd, f, r, n) PROVE Goes(f, n, i)
    BY <1>2, <1>7 DEF First
<1>8. ASSUME NEW r, NEW n, NEW i, Of(kd, f, r, n), Absent(kd, s, r, n), Last(kd, q, r, n, i)
      PROVE  f.n = n /\ Place(f) = i
    <2>1. \A m \in 1..Len(q) : 1 < m => ~Of(kd, q[m], r, n)
        BY <1>3, <1>8 DEF Absent
    <2> QED  BY <1>2, <1>8, <2>1 DEF Last
<1>9. ASSUME NEW r, NEW n, ~Of(kd, f, r, n), Absent(kd, s, r, n) PROVE Absent(kd, q, r, n)
    BY <1>2, <1>3, <1>9 DEF Absent
<1>10. ASSUME Relevant(f) PROVE First(kd, s, f.r, f.n, Place(f))
    <2> SUFFICES ASSUME NEW a \in 1..Len(s), Of(kd, s[a], f.r, f.n), \A m \in 1..Len(s) : m < a => ~Of(kd, s[m], f.r, f.n)
                 PROVE  Goes(s[a], f.n, Place(f))
        BY DEF First
    <2>1. \A m \in 1..Len(q) : 1 < m /\ m < a + 1 => ~Of(kd, q[m], f.r, f.n)
        BY <1>2, <1>3
    <2> QED  BY <1>2, <1>10, <2>1 DEF Chain
<1> QED
    BY <1>1, <1>4, <1>5, <1>6, <1>7, <1>8, <1>9, <1>10

\* Frames that grow old are in the same order.
LEMMA LinkedAged ==
    ASSUME NEW q \in Seq(Frames), NEW kd
    PROVE  /\ Chain(kd, q) => Chain(kd, Older(q))
           /\ \A r, n, i : Last(kd, q, r, n, i) => Last(kd, Older(q), r, n, i)
<1>1. PICK s : s = Older(q)
    OBVIOUS
<1>2. Len(s) = Len(q) /\ \A a \in 1..Len(q) : s[a].t = q[a].t /\ s[a].r = q[a].r /\ s[a].n = q[a].n /\ s[a].i = q[a].i
    BY <1>1, Aged
<1>3. ASSUME NEW a \in 1..Len(q)
      PROVE  /\ Relevant(s[a]) <=> Relevant(q[a])
             /\ Place(s[a]) = Place(q[a])
             /\ \A r, n : Of(kd, s[a], r, n) <=> Of(kd, q[a], r, n)
             /\ \A n, i : Goes(s[a], n, i) <=> Goes(q[a], n, i)
    BY <1>2 DEF Relevant, Of, Place, Goes
<1>4. ASSUME Chain(kd, q) PROVE Chain(kd, s)
    <2> SUFFICES ASSUME NEW a \in 1..Len(q), NEW b \in 1..Len(q), a < b, Relevant(q[a]), Of(kd, q[b], q[a].r, q[a].n),
                        \A m \in 1..Len(q) : a < m /\ m < b => ~Of(kd, q[m], q[a].r, q[a].n)
                 PROVE  Goes(q[b], q[a].n, Place(q[a]))
        BY <1>2, <1>3 DEF Chain
    <2> QED  BY <1>4 DEF Chain
<1>5. ASSUME NEW r, NEW n, NEW i, Last(kd, q, r, n, i) PROVE Last(kd, s, r, n, i)
    BY <1>2, <1>3, <1>5 DEF Last
<1> QED
    BY <1>1, <1>4, <1>5

-----------------------------------------------------------------------------
(* The uploads and the frames that belong to them. *)

\* What has come of an upload is the first chunks of one attempt, and the
\* next of its frames goes on from there.
Pieces ==
    \A p \in pending :
        /\ First(kind, up, p.r, p.n, Len(p.got))
        /\ p.got = [i \in 1..Len(p.got) |-> <<p.n, i>>]

\* What the phone has sent is the last that is under way, or what has come.
Streams ==
    \A r \in Requests : task[r].st = "streaming" =>
        /\ Last(kind, up, r, task[r].n, task[r].i)
        /\ Absent(kind, up, r, task[r].n) =>
              \A p \in pending : p.r = r /\ (kind = "aoa" \/ p.n = task[r].n) => p.n = task[r].n /\ Len(p.got) = task[r].i

Linked == Chain(kind, up) /\ Pieces /\ Streams

\* Uploads go on as they did, or not at all.
Fewer ==
    \A r \in Requests : task'[r].st = "streaming" =>
        task[r].st = "streaming" /\ task'[r].n = task[r].n /\ task'[r].i = task[r].i

Silent == \A r \in Requests : task'[r].st # "streaming"

\* Uploads are dropped, or given up.
LEMMA KeepsLinked ==
    ASSUME Linked, kind' = kind, up' = up, pending' \subseteq pending, Fewer
    PROVE  Linked'
<1>1. Chain(kind', up') /\ Pieces'
    BY DEF Linked, Pieces
<1>2. Streams'
    BY DEF Linked, Streams, Fewer
<1> QED
    BY <1>1, <1>2 DEF Linked

\* The queue loses its end when no upload goes on.
LEMMA CutsLinked ==
    ASSUME Linked, kind' = kind, pending' = pending, Silent, Proper(up), Cut
    PROVE  Linked'
<1>0. up \in Seq(Frames) /\ Len(up) \in Nat
    BY LenProperties DEF Proper
<1>1. PICK k \in 0..Len(up) : up' = SubSeq(up, 1, k) \/ up' = Append(SubSeq(up, 1, k), Plain("torn"))
    BY DEF Cut
<1>2. 1 \in 1..(Len(up) + 1) /\ SubSeq(up, 1, k) \in Seq(Frames)
    BY <1>0, PartOf
<1>a. PICK q \in Seq(Frames) : q = SubSeq(up, 1, k)
    BY <1>2
<1>3. Chain(kind, q) /\ \A p \in pending : First(kind, q, p.r, p.n, Len(p.got))
    BY <1>0, <1>2, <1>a, LinkedPart DEF Linked, Pieces
<1>4. PICK f \in Frames : f = Plain("torn") /\ \A r, n : ~Of(kind, f, r, n)
    BY OtherFrames DEF Plain, Frame, Of, Relevant
<1>5. Chain(kind, Append(q, f)) /\ \A p \in pending : First(kind, Append(q, f), p.r, p.n, Len(p.got))
    BY <1>3, <1>4, LinkedAdded
<1>6. Chain(kind, up') /\ \A p \in pending : First(kind, up', p.r, p.n, Len(p.got))
    BY <1>1, <1>3, <1>4, <1>5, <1>a
<1> QED
    BY <1>6 DEF Linked, Pieces, Streams, Silent

\* The queue is empty, and no upload goes on or has started.
LEMMA EmptyLinked ==
    ASSUME Linked, kind' = kind, up' = <<>>, pending' = pending, Silent \/ (pending = {} /\ Fewer)
    PROVE  Linked'
<1>1. Chain(kind, up') /\ \A r, n, i : First(kind, up', r, n, i) /\ Last(kind, up', r, n, i)
    BY LinkedEmpty
<1> QED
    BY <1>1 DEF Linked, Pieces, Streams, Silent, Fewer

\* The queue loses its beginning when no upload has started.
LEMMA DropsLinked ==
    ASSUME Linked, kind' = kind, pending' = {}, task' = task, Chain(kind, up'),
           \A r, n, i : Last(kind, up, r, n, i) => Last(kind, up', r, n, i)
    PROVE  Linked'
BY DEF Linked, Pieces, Streams

\* A frame that is not of an upload is added.
LEMMA OtherLinked ==
    ASSUME Linked, kind' = kind, pending' = pending, Fewer, Proper(up),
           NEW f \in Frames, ~Relevant(f), up' = Append(up, f)
    PROVE  Linked'
<1>1. up \in Seq(Frames) /\ \A r, n : ~Of(kind, f, r, n)
    BY DEF Proper, Of
<1>2. /\ Chain(kind, up')
      /\ \A r, n, i : /\ First(kind, up, r, n, i) => First(kind, up', r, n, i)
                      /\ Last(kind, up, r, n, i) => Last(kind, up', r, n, i)
      /\ \A r, n : Absent(kind, up', r, n) => Absent(kind, up, r, n)
    BY <1>1, LinkedAdded DEF Linked
<1>3. Pieces'
    BY <1>2 DEF Linked, Pieces
<1>4. Streams'
    BY <1>2 DEF Linked, Streams, Fewer
<1> QED
    BY <1>2, <1>3, <1>4 DEF Linked

\* The next frame of an upload is sent.
LEMMA GrowsLinked ==
    ASSUME Linked, kind' = kind, pending' = pending, Proper(up),
           NEW f \in Frames, Relevant(f), up' = Append(up, f), NEW r \in Requests, f.r = r,
           f.t = "start" \/ (task[r].st = "streaming" /\ f.n = task[r].n /\ Place(f) = task[r].i + 1),
           \A q \in Requests \ {r} : task'[q] = task[q],
           task'[r].st = "streaming" => task'[r].n = f.n /\ task'[r].i = Place(f)
    PROVE  Linked'
<1>0. up \in Seq(Frames) /\ Len(up) \in Nat
    BY LenProperties DEF Proper
<1>1. ASSUME NEW j \in 1..Len(up), Relevant(up[j]), Of(kind, f, up[j].r, up[j].n),
             \A m \in 1..Len(up) : j < m => ~Of(kind, up[m], up[j].r, up[j].n)
      PROVE  Goes(f, up[j].n, Place(up[j]))
    <2>1. CASE f.t = "start"
        BY <2>1 DEF Goes
    <2>2. CASE task[r].st = "streaming" /\ f.n = task[r].n /\ Place(f) = task[r].i + 1
        <3>1. Last(kind, up, r, task[r].n, task[r].i)
            BY <2>2 DEF Linked, Streams
        <3>2. /\ Of(kind, up[j], r, task[r].n)
              /\ \A m \in 1..Len(up) : Of(kind, up[m], r, task[r].n) => Of(kind, up[m], up[j].r, up[j].n)
            BY <1>1, <2>2 DEF Of
        <3>3. up[j].n = task[r].n /\ Place(up[j]) = task[r].i
            BY <1>1, <3>1, <3>2 DEF Last
        <3> QED  BY <2>2, <3>3 DEF Goes
    <2> QED  BY <2>1, <2>2
<1>2. Chain(kind, up')
    BY <1>0, <1>1, LinkedAdded DEF Linked
<1>3. Pieces'
    <2> SUFFICES ASSUME NEW p \in pending
                 PROVE  First(kind, up', p.r, p.n, Len(p.got)) /\ p.got = [i \in 1..Len(p.got) |-> <<p.n, i>>]
        BY DEF Pieces
    <2>1. First(kind, up, p.r, p.n, Len(p.got)) /\ p.got = [i \in 1..Len(p.got) |-> <<p.n, i>>]
        BY DEF Linked, Pieces
    <2>2. ASSUME Of(kind, f, p.r, p.n), Absent(kind, up, p.r, p.n)
          PROVE  Goes(f, p.n, Len(p.got))
        <3>1. CASE f.t = "start"
            BY <3>1 DEF Goes
        <3>2. CASE task[r].st = "streaming" /\ f.n = task[r].n /\ Place(f) = task[r].i + 1
            <4>1. p.r = r /\ (kind = "aoa" \/ p.n = task[r].n) /\ Absent(kind, up, r, task[r].n)
                BY <2>2, <3>2 DEF Of, Absent
            <4>2. p.n = task[r].n /\ Len(p.got) = task[r].i
                BY <3>2, <4>1 DEF Linked, Streams
            <4> QED  BY <3>2, <4>2 DEF Goes
        <3> QED  BY <3>1, <3>2
    <2> QED  BY <1>0, <2>1, <2>2, LinkedAdded
<1>4. Streams'
    <2> SUFFICES ASSUME NEW q \in Requests, task'[q].st = "streaming"
                 PROVE  /\ Last(kind, up', q, task'[q].n, task'[q].i)
                        /\ Absent(kind, up', q, task'[q].n) =>
                              \A p \in pending : p.r = q /\ (kind = "aoa" \/ p.n = task'[q].n)
                                                 => p.n = task'[q].n /\ Len(p.got) = task'[q].i
        BY DEF Streams
    <2>1. CASE q = r
        <3>1. Of(kind, f, q, task'[q].n)
            BY <2>1 DEF Of
        <3> QED  BY <1>0, <2>1, <3>1, LinkedAdded
    <2>2. CASE q # r
        <3>1. ~Of(kind, f, q, task[q].n) /\ task'[q] = task[q]
            BY <2>2 DEF Of
        <3>2. /\ Last(kind, up, q, task[q].n, task[q].i)
              /\ Absent(kind, up, q, task[q].n) =>
                    \A p \in pending : p.r = q /\ (kind = "aoa" \/ p.n = task[q].n) => p.n = task[q].n /\ Len(p.got) = task[q].i
            BY <3>1 DEF Linked, Streams
        <3> QED  BY <1>0, <3>1, <3>2, LinkedAdded
    <2> QED  BY <2>1, <2>2
<1> QED
    BY <1>2, <1>3, <1>4 DEF Linked

\* Uploads with the request id of a frame.
LEMMA WithIs == \A p, f : p \in With(f) <=> p \in pending /\ p.r = f.r /\ (kind = "aoa" \/ p.n = f.n)
BY DEF With, Id

\* The upload is what has come up to the frame.
PieceUpTo(q, f) == q.r = f.r /\ q.n = f.n /\ Len(q.got) = Place(f) /\ q.got = [i \in 1..Len(q.got) |-> <<q.n, i>>]

\* The next frame of an upload is read: what has come of it is replaced.
LEMMA ReadLinked ==
    ASSUME Linked, kind' = kind, task' = task, up # <<>>, Proper(up), up' = Tail(up),
           NEW f, f = Head(up), Relevant(f), NEW Q,
           pending' \subseteq (pending \ With(f)) \cup Q,
           \A q \in Q : PieceUpTo(q, f)
    PROVE  Linked'
<1>0. up \in Seq(Frames) /\ Chain(kind, up)
    BY DEF Proper, Linked
<1>1. /\ Chain(kind, up') /\ First(kind, up', f.r, f.n, Place(f))
      /\ \A r, n, i : /\ Last(kind, up, r, n, i) => Last(kind, up', r, n, i)
                      /\ First(kind, up, r, n, i) /\ ~Of(kind, f, r, n) => First(kind, up', r, n, i)
                      /\ Of(kind, f, r, n) /\ Absent(kind, up', r, n) /\ Last(kind, up, r, n, i) => f.n = n /\ Place(f) = i
      /\ \A r, n : ~Of(kind, f, r, n) /\ Absent(kind, up', r, n) => Absent(kind, up, r, n)
    BY <1>0, LinkedTaken
<1>2. \A p \in pending \ With(f) : ~Of(kind, f, p.r, p.n)
    BY WithIs DEF Of
<1>3. Pieces'
    <2> SUFFICES ASSUME NEW p \in pending'
                 PROVE  First(kind, up', p.r, p.n, Len(p.got)) /\ p.got = [i \in 1..Len(p.got) |-> <<p.n, i>>]
        BY DEF Pieces
    <2>1. CASE p \in pending \ With(f)
        BY <1>1, <1>2, <2>1 DEF Linked, Pieces
    <2>2. CASE p \in Q
        BY <1>1, <2>2 DEF PieceUpTo
    <2> QED  BY <2>1, <2>2
<1>4. Streams'
    <2> SUFFICES ASSUME NEW r \in Requests, task[r].st = "streaming"
                 PROVE  /\ Last(kind, up', r, task[r].n, task[r].i)
                        /\ Absent(kind, up', r, task[r].n) =>
                              \A p \in pending' : p.r = r /\ (kind = "aoa" \/ p.n = task[r].n)
                                                  => p.n = task[r].n /\ Len(p.got) = task[r].i
        BY DEF Streams
    <2>1. /\ Last(kind, up, r, task[r].n, task[r].i)
          /\ Absent(kind, up, r, task[r].n) =>
                \A p \in pending : p.r = r /\ (kind = "aoa" \/ p.n = task[r].n) => p.n = task[r].n /\ Len(p.got) = task[r].i
        BY DEF Linked, Streams
    <2>2. ASSUME Absent(kind, up', r, task[r].n), NEW p \in pending', p.r = r, kind = "aoa" \/ p.n = task[r].n
          PROVE  p.n = task[r].n /\ Len(p.got) = task[r].i
        <3>1. CASE Of(kind, f, r, task[r].n)
            <4>1. f.n = task[r].n /\ Place(f) = task[r].i
                BY <1>1, <2>1, <2>2, <3>1
            <4>2. Of(kind, f, p.r, p.n)
                BY <2>2, <3>1 DEF Of
            <4>3. p \in Q
                BY <1>2, <4>2
            <4> QED  BY <4>1, <4>3 DEF PieceUpTo
        <3>2. CASE ~Of(kind, f, r, task[r].n)
            <4>1. Absent(kind, up, r, task[r].n)
                BY <1>1, <2>2, <3>2
            <4>2. ~Of(kind, f, p.r, p.n)
                BY <2>2, <3>2 DEF Of
            <4>3. p \notin Q
                BY <4>2 DEF Of, PieceUpTo
            <4> QED  BY <2>1, <2>2, <4>1, <4>3
        <3> QED  BY <3>1, <3>2
    <2> QED  BY <1>1, <2>1, <2>2
<1> QED
    BY <1>1, <1>3, <1>4 DEF Linked

\* A frame that is read when no upload has started, or that ends its session.
LEMMA LeavesLinked ==
    ASSUME Linked, kind' = kind, task' = task, up # <<>>, Proper(up), up' = Tail(up), pending' = {}
    PROVE  Linked'
<1>0. up \in Seq(Frames) /\ Chain(kind, up)
    BY DEF Proper, Linked
<1>1. Chain(kind, up') /\ \A r, n, i : Last(kind, up, r, n, i) => Last(kind, up', r, n, i)
    BY <1>0, LinkedTaken
<1> QED
    BY <1>1, DropsLinked

\* A completion finds all chunks of its attempt.
LEMMA CompleteIsWhole ==
    ASSUME Linked, TypeUploads, up # <<>>, Proper(up), NEW f, f = Head(up), f.t = "complete", NEW p \in With(f)
    PROVE  p.got = [i \in 1..Chunks |-> <<p.n, i>>]
<1>0. up \in Seq(Frames) /\ Chain(kind, up)
    BY DEF Proper, Linked
<1>1. p \in pending /\ Of(kind, f, p.r, p.n)
    BY WithIs DEF Of, Relevant
<1>2. First(kind, up, p.r, p.n, Len(p.got)) /\ p.got = [i \in 1..Len(p.got) |-> <<p.n, i>>]
    BY <1>1 DEF Linked, Pieces
<1>3. Goes(f, p.n, Len(p.got))
    BY <1>0, <1>1, <1>2, LinkedTaken
<1>4. Len(p.got) \in Nat
    BY <1>1, LenProperties DEF TypeUploads, Upload
<1>5. Len(p.got) = Chunks
    BY <1>3, <1>4, Numbers DEF Goes, Place
<1> QED
    BY <1>2, <1>5

\* A chunk that is added to what has come.
LEMMA GrownIsPiece ==
    ASSUME Linked, TypeUploads, up # <<>>, Proper(up), NEW f, f = Head(up), f.t = "chunk", NEW p \in With(f)
    PROVE  PieceUpTo(Grown(p, f), f)
<1>0. up \in Seq(Frames) /\ Chain(kind, up) /\ f \in Frames /\ Named(f)
    BY ProperTaken DEF Proper, Linked
<1>1. p \in pending /\ p \in Upload /\ p.r = f.r /\ Of(kind, f, p.r, p.n)
    BY WithIs DEF Of, Relevant, TypeUploads
<1>2. First(kind, up, p.r, p.n, Len(p.got)) /\ p.got = [i \in 1..Len(p.got) |-> <<p.n, i>>]
    BY <1>1 DEF Linked, Pieces
<1>3. Goes(f, p.n, Len(p.got))
    BY <1>0, <1>1, <1>2, LinkedTaken
<1>4. PICK len \in Nat : len = Len(p.got)
    BY <1>1, LenProperties DEF Upload
<1>5. p.n = f.n /\ f.i = len + 1 /\ Place(f) = len + 1
    BY <1>3, <1>4 DEF Goes, Place
<1>6. PICK e \in Tries \X (1..Chunks) : e = <<f.n, f.i>>
    BY <1>0 DEF Named
<1>7. PICK got : got = Append(p.got, e)
    OBVIOUS
<1>8. /\ got \in Seq(Tries \X (1..Chunks)) /\ Len(got) = len + 1 /\ got[len + 1] = e
      /\ \A i \in 1..len : got[i] = p.got[i]
    BY <1>1, <1>4, <1>6, <1>7, AppendProperties DEF Upload
<1>9. got = [i \in 1..Len(got) |-> <<f.n, i>>]
    <2>1. got = [i \in 1..Len(got) |-> got[i]]
        BY <1>8, LenProperties, SeqDef
    <2>2. ASSUME NEW i \in 1..Len(got) PROVE got[i] = <<f.n, i>>
        <3>1. CASE i = len + 1
            BY <1>5, <1>6, <1>8, <3>1
        <3>2. CASE i \in 1..len
            BY <1>2, <1>4, <1>5, <1>8, <3>2
        <3> QED  BY <1>4, <1>8, <3>1, <3>2
    <2> QED  BY <2>1, <2>2
<1>10. Grown(p, f) = [p EXCEPT !.got = got]
    BY <1>6, <1>7 DEF Grown
<1>11. PICK q : q = Grown(p, f) /\ q.r = p.r /\ q.n = p.n /\ q.got = got
    BY <1>1, <1>10 DEF Upload
<1> QED
    BY <1>1, <1>5, <1>8, <1>9, <1>11 DEF PieceUpTo

-----------------------------------------------------------------------------
(* One thread at a time. *)

\* No more than one thread runs, and uploads have started only in a session of
\* a desktop that knows the phone.
Alone == \A v, w \in Workers : worker[v].pc # "off" /\ worker[w].pc # "off" => v = w
Served == pending # {} => known /\ \E w \in Workers : worker[w].pc = "session"

\* A thread that is not in a session finds no upload that has started.
LEMMA NothingStarted ==
    ASSUME Alone, Served, NEW w \in Workers, worker[w].pc \in {"head", "open", "challenge", "auth", "wait"}
    PROVE  pending = {}
BY DEF Alone, Served

\* A step of a thread leaves the others where they are, and makes none.
LEMMA StepMoves ==
    ASSUME TypeDesktop, NEW w \in Workers, Step(w)
    PROVE  /\ \A v \in Workers \ {w} : worker'[v].pc = worker[v].pc
           /\ worker[w].pc # "off" \/ worker'[w].pc = worker[w].pc
<1>1. CASE CloseDetached(w)
    <2>1. worker' = [v \in Workers |-> IF v \in {w} THEN [worker[v] EXCEPT !.open = FALSE] ELSE worker[v]]
        BY <1>1 DEF CloseDetached, TypeDesktop
    <2> QED  BY <2>1, CloseStep
<1>2. CASE Teardown(w) /\ worker[w].pc # "off"
    BY <1>2, TeardownStep
<1>3. CASE UNCHANGED worker
    BY <1>3
<1>4. CASE worker[w].pc # "off" /\ \A v \in Workers \ {w} : worker'[v] = worker[v]
    BY <1>4
<1>5. CASE Begin(w)
    BY <1>4, <1>5 DEF Begin, TypeDesktop
<1>6. CASE OpenFails(w)
    BY <1>2, <1>4, <1>6, GotoStep DEF OpenFails
<1>7. CASE Open(w)
    BY <1>7, ClaimStep DEF Open
<1>8. CASE Challenge(w)
    BY <1>2, <1>4, <1>8, GotoStep DEF Challenge
<1>9. CASE AuthRead(w)
    BY <1>2, <1>3, <1>4, <1>9, AuthStep DEF AuthRead
<1>10. CASE AuthFails(w) \/ SessionEnds(w)
    BY <1>2, <1>10 DEF AuthFails, SessionEnds
<1>11. CASE SessionRead(w)
    BY <1>2, <1>3, <1>11, SessionEffect DEF SessionRead
<1>12. CASE Wait(w)
    BY <1>4, <1>12, GotoStep DEF Wait
<1> QED
    BY <1>1, <1>5, <1>6, <1>7, <1>8, <1>9, <1>10, <1>11, <1>12 DEF Step

\* Whoever is not a thread of the desktop leaves its threads where they are,
\* and a new session begins with none.
LEMMA OthersMove ==
    ASSUME TypeDesktop, [Next]_vars, ~\E w \in Workers : Step(w), ~Configure
    PROVE  \A w \in Workers : worker'[w].pc = worker[w].pc
<1>1. CASE UNCHANGED worker
    BY <1>1
<1>2. ASSUME NEW S \in SUBSET Workers, worker' = [w \in Workers |-> IF w \in S THEN [worker[w] EXCEPT !.open = FALSE] ELSE worker[w]]
      PROVE  \A w \in Workers : worker'[w].pc = worker[w].pc
    BY <1>2, CloseStep
<1>3. CASE Stop
    <2>1. worker' = [w \in Workers |-> IF w \in {slot} \cap Workers THEN [worker[w] EXCEPT !.open = FALSE] ELSE worker[w]]
        BY <1>3 DEF Stop
    <2> QED  BY <1>2, <2>1
<1>4. CASE Scan
    <2>1. UNCHANGED worker \/ worker' = [w \in Workers |-> IF w \in {conn} \cap Workers THEN [worker[w] EXCEPT !.open = FALSE] ELSE worker[w]]
        BY <1>4 DEF Scan
    <2> QED  BY <1>1, <1>2, <2>1
<1>5. CASE Unplug
    <2>1. worker' = [w \in Workers |-> IF w \in Workers THEN [worker[w] EXCEPT !.open = FALSE] ELSE worker[w]]
        BY <1>5 DEF Unplug
    <2> QED  BY <1>2, <2>1
<1>6. CASE Resync \/ Plug \/ Phone
    BY <1>1, <1>6 DEF Resync, Plug, Phone, Reopen, Notice, PhoneRead
<1>7. CASE \E r \in Requests : UploadStart(r) \/ UploadChunk(r) \/ UploadFinish(r) \/ UploadReturns(r) \/ UploadBreaks(r)
    BY <1>1, <1>7 DEF UploadStart, UploadChunk, UploadFinish, UploadReturns, UploadBreaks, UploadStep
<1> QED
    BY <1>1, <1>3, <1>4, <1>5, <1>6, <1>7 DEF Next

\* Without threads that outlive stop, one thread runs at a time.
LEMMA AloneStep ==
    ASSUME SlowStop = FALSE, TypeDesktop, Alone, [Next]_vars
    PROVE  Alone'
<1>1. ASSUME \A w \in Workers : worker[w].pc # "off" \/ worker'[w].pc = worker[w].pc
      PROVE  Alone'
    BY <1>1 DEF Alone
<1>2. CASE \E w \in Workers : Step(w)
    BY <1>1, <1>2, StepMoves
<1>3. CASE Configure
    <2>1. CloseActive \in [Workers -> Thread] /\ \A w \in Workers : CloseActive[w].pc = worker[w].pc
        <3>1. CloseActive = [w \in Workers |-> IF kind = "aoa" /\ w = slot THEN [worker[w] EXCEPT !.open = FALSE] ELSE worker[w]]
            BY DEF CloseActive
        <3> QED  BY <3>1 DEF TypeDesktop, Thread
    <2>2. PICK threads : threads = CloseActive
        OBVIOUS
    <2>3. Start(threads)
        BY <1>3, <2>2 DEF Configure
    <2>4. CASE worker' = threads
        BY <1>1, <2>1, <2>2, <2>4
    <2>5. CASE worker' # threads
        <3>0. threads \in [Workers -> Thread]
            BY <2>1, <2>2
        <3>2. \E w \in Workers : /\ SlowStop \/ \A v \in Workers : worker[v].pc = "off"
                                 /\ worker'[w].pc = "head" /\ \A v \in Workers \ {w} : worker'[v] = threads[v]
            BY <2>3, <2>5, <3>0, StartStep
        <3>1. PICK w \in Workers : /\ \A v \in Workers : worker[v].pc = "off"
                                   /\ \A v \in Workers \ {w} : worker'[v] = threads[v]
            BY <3>2
        <3> QED  BY <2>1, <2>2, <3>1 DEF Alone
    <2> QED  BY <2>4, <2>5
<1> QED
    BY <1>1, <1>2, <1>3, OthersMove

-----------------------------------------------------------------------------
(* What is handed on is whole. *)

\* A frame of a session keeps what has come in order, and hands on whole photos.
LEMMA SessionLinked ==
    ASSUME TypeUploads, Linked, Served, UploadWhole, kind' = kind, task' = task, Proper(up), up' = Tail(up), up # <<>>,
           NEW w \in Workers, SessionStep(w, Head(up))
    PROVE  Linked' /\ UploadWhole' /\ (pending' = {} \/ (known /\ worker' = worker))
<1>1. PICK f \in Frames : f = Head(up) /\ Named(f) /\ SessionStep(w, f)
    BY ProperTaken
<1>2. ASSUME pending' = {} PROVE Linked'
    BY <1>2, LeavesLinked
<1>3. CASE SessionStart(w, f)
    <2>1. PICK q : q = NewUpload(f)
        OBVIOUS
    <2>2. q.r = f.r /\ q.n = f.n /\ q.got = <<>> /\ Len(q.got) = 0 /\ Place(f) = 0 /\ Relevant(f)
        BY <1>3, <2>1, EmptySeq DEF SessionStart, NewUpload, Place, Relevant
    <2>3. PieceUpTo(q, f)
        <3>1. 1..Len(q.got) = {}
            BY <2>2
        <3> QED  BY <2>2, <3>1 DEF PieceUpTo
    <2>4. pending' \subseteq (pending \ With(f)) \cup {q} /\ known /\ UNCHANGED <<worker, given>>
        BY <1>3, <2>1 DEF SessionStart
    <2>5. Linked'
        <3>1. PICK Q : Q = {q}
            OBVIOUS
        <3>2. \A x \in Q : PieceUpTo(x, f)
            BY <2>3, <3>1
        <3>3. pending' \subseteq (pending \ With(f)) \cup Q
            BY <2>4, <3>1
        <3> QED  BY <1>1, <2>2, <3>2, <3>3, ReadLinked
    <2> QED  BY <2>4, <2>5 DEF UploadWhole
<1>4. CASE SessionRefuse(w, f)
    <2>1. pending = {} /\ given' = given
        BY <1>4 DEF SessionRefuse, Served
    <2>2. pending' = {}
        BY <1>4, <2>1 DEF SessionRefuse, Respond, Teardown
    <2> QED  BY <1>2, <2>1, <2>2 DEF UploadWhole
<1>5. CASE SessionChunk(w, f)
    <2>1. PICK p \in With(f) : pending' = (pending \ {p}) \cup {Grown(p, f)}
        BY <1>5 DEF SessionChunk
    <2>2. With(f) \subseteq {p}
        BY <2>1 DEF TypeUploads, With
    <2>3. PICK q : q = Grown(p, f)
        OBVIOUS
    <2>4. PieceUpTo(q, f)
        BY <1>1, <1>5, <2>1, <2>3, GrownIsPiece DEF SessionChunk
    <2>5. pending' \subseteq (pending \ With(f)) \cup {q} /\ Relevant(f) /\ UNCHANGED <<worker, given>> /\ pending # {}
        BY <1>5, <2>1, <2>2, <2>3, WithIs DEF SessionChunk, Relevant
    <2>6. Linked'
        <3>1. PICK Q : Q = {q}
            OBVIOUS
        <3>2. \A x \in Q : PieceUpTo(x, f)
            BY <2>4, <3>1
        <3>3. pending' \subseteq (pending \ With(f)) \cup Q
            BY <2>5, <3>1
        <3> QED  BY <1>1, <2>5, <3>2, <3>3, ReadLinked
    <2> QED  BY <2>5, <2>6 DEF UploadWhole, Served
<1>6. CASE StrayChunk(w, f)
    <2>1. pending' = {} \/ UNCHANGED <<pending, worker>>
        BY <1>6 DEF StrayChunk, Teardown
    <2>2. With(f) = {} /\ Relevant(f) /\ given' = given
        BY <1>6 DEF StrayChunk, Relevant
    <2>3. CASE UNCHANGED <<pending, worker>> /\ pending # {}
        <3>1. PICK Q : Q = {} /\ pending' \subseteq (pending \ With(f)) \cup Q
            BY <2>2, <2>3
        <3>2. \A x \in Q : PieceUpTo(x, f)
            BY <3>1
        <3>3. Linked'
            BY <1>1, <2>2, <3>1, <3>2, ReadLinked
        <3> QED  BY <2>2, <2>3, <3>3 DEF UploadWhole, Served
    <2> QED  BY <1>2, <2>1, <2>2, <2>3 DEF UploadWhole
<1>7. CASE SessionComplete(w, f)
    <2>1. given' = given \cup With(f) /\ f.t = "complete" /\ Relevant(f)
        BY <1>7 DEF SessionComplete, Relevant
    <2>2. UploadWhole'
        BY <1>1, <2>1, CompleteIsWhole DEF UploadWhole
    <2>3. pending' = {} \/ (pending' = pending \ With(f) /\ worker' = worker)
        BY <1>7 DEF SessionComplete, Respond, Teardown
    <2>4. CASE pending' = pending \ With(f) /\ worker' = worker /\ pending' # {}
        <3>1. PICK Q : Q = {} /\ pending' \subseteq (pending \ With(f)) \cup Q
            BY <2>4
        <3>3. \A x \in Q : PieceUpTo(x, f)
            BY <3>1
        <3>2. Linked'
            BY <1>1, <2>1, <3>1, <3>3, ReadLinked
        <3> QED  BY <2>2, <2>4, <3>2 DEF Served
    <2> QED  BY <1>2, <2>2, <2>3, <2>4
<1>8. CASE SessionTorn(w, f)
    <2>1. pending' = {} /\ given' = given
        BY <1>8 DEF SessionTorn, Teardown
    <2> QED  BY <1>2, <2>1 DEF UploadWhole
<1> QED
    BY <1>1, <1>3, <1>4, <1>5, <1>6, <1>7, <1>8 DEF SessionStep

\* A step of a thread keeps what has come in order.
LEMMA ThreadLinked ==
    ASSUME TypeDesktop, TypeUploads, TypeCable, Proper(up), Alone, Served, Linked, UploadWhole, kind' = kind, known' = known,
           NEW w \in Workers, Step(w)
    PROVE  Linked' /\ UploadWhole' /\ Served'
<1>1. ASSUME pending' = {}, given' = given, Linked' PROVE Linked' /\ UploadWhole' /\ Served'
    BY <1>1 DEF UploadWhole, Served
<1>0. up \in Seq(Frames) /\ Len(up) \in Nat /\ Chain(kind, up)
    BY LenProperties DEF Proper, Linked
<1>2. ASSUME task' = task, up' = up, given' = given, pending' = {} PROVE Linked' /\ UploadWhole' /\ Served'
    <2>1. Linked'
        BY <1>2, KeepsLinked DEF Fewer
    <2> QED  BY <1>1, <1>2, <2>1
<1>3. CASE Begin(w) \/ OpenFails(w) \/ AuthFails(w) \/ Wait(w)
    <2>1. pending = {}
        BY <1>3, NothingStarted DEF Begin, OpenFails, AuthFails, Wait
    <2> QED  BY <1>2, <1>3, <2>1 DEF Begin, OpenFails, AuthFails, Wait, Teardown
<1>4. CASE SessionEnds(w)
    BY <1>2, <1>4 DEF SessionEnds, Teardown
<1>5. CASE CloseDetached(w)
    <2>1. UNCHANGED <<up, task, pending, given>>
        BY <1>5 DEF CloseDetached
    <2>2. Linked'
        BY <2>1, KeepsLinked DEF Fewer
    <2>3. worker' = [v \in Workers |-> IF v \in {w} THEN [worker[v] EXCEPT !.open = FALSE] ELSE worker[v]]
        BY <1>5 DEF CloseDetached, TypeDesktop
    <2>4. Served'
        BY <2>1, <2>3, CloseStep DEF Served
    <2> QED  BY <2>1, <2>2, <2>4 DEF UploadWhole
<1>6. CASE Open(w)
    <2>1. pending = {} /\ UNCHANGED <<pending, given, task>>
        BY <1>6, NothingStarted DEF Open
    <2>2. up' = up \/ up' = <<>>
        BY <1>6 DEF Open, EnterAccessoryMode, ConnectSocket
    <2>3. Linked'
        BY <2>1, <2>2, KeepsLinked, EmptyLinked DEF Fewer
    <2> QED  BY <1>1, <2>1, <2>3
<1>7. CASE Challenge(w)
    <2>1. pending = {} /\ UNCHANGED <<given, task>>
        BY <1>7, NothingStarted DEF Challenge
    <2>2. pending' = {}
        BY <1>7, <2>1 DEF Challenge, Teardown
    <2>3. up' = <<>> \/ up' = Older(up)
        BY <1>7 DEF Challenge, Drained
    <2>4. Chain(kind, up') /\ \A r, n, i : Last(kind, up, r, n, i) => Last(kind, up', r, n, i)
        BY <1>0, <2>3, LinkedEmpty, LinkedAged
    <2> QED  BY <1>1, <2>1, <2>2, <2>4, DropsLinked
<1>8. CASE AuthRead(w)
    <2>1. pending = {} /\ UNCHANGED <<given, task>> /\ up # <<>>
        BY <1>8, NothingStarted DEF AuthRead, Readable
    <2>2. pending' = {}
        BY <1>8, <2>1 DEF AuthRead, Teardown
    <2>3. CASE Proved(w, Head(up))
        <3>1. PICK k \in 2..(IF kind = "aoa" THEN Len(up) + 1 ELSE 2) : up' = SubSeq(up, k, Len(up))
            BY <1>8, <2>3 DEF AuthRead
        <3>2. Len(up) >= 1
            BY <1>0, <2>1, Taken
        <3>3. k \in 1..(Len(up) + 1) /\ Len(up) \in 0..Len(up)
            BY <1>0, <3>2
        <3>4. Chain(kind, up') /\ \A r, n, i : Last(kind, up, r, n, i) => Last(kind, up', r, n, i)
            BY <1>0, <3>1, <3>3, LinkedPart
        <3> QED  BY <1>1, <2>1, <2>2, <3>4, DropsLinked
    <2>4. CASE ~Proved(w, Head(up))
        <3>1. up' = Tail(up)
            BY <1>8, <2>4 DEF AuthRead
        <3> QED  BY <1>1, <2>1, <2>2, <3>1, LeavesLinked
    <2> QED  BY <2>3, <2>4
<1>9. CASE SessionRead(w)
    <2>1. Linked' /\ UploadWhole' /\ (pending' = {} \/ (known /\ worker' = worker))
        BY <1>9, SessionLinked DEF SessionRead, Readable
    <2> QED  BY <1>9, <2>1 DEF SessionRead, Served
<1> QED
    BY <1>3, <1>4, <1>5, <1>6, <1>7, <1>8, <1>9 DEF Step

\* Uploads that the phone loses do not go on.
LEMMA LosesSilent == ASSUME TypePhone, LoseTasks PROVE Silent /\ Fewer
BY LoseStep DEF Silent, Fewer

\* What the phone reads keeps what has come in order.
LEMMA PhoneLinked ==
    ASSUME TypeCable, TypePhone, Proper(up), Linked, kind' = kind, pending' = pending, PhoneRead
    PROVE  Linked'
<1>0. Head(down) \in Frames
    BY Taken DEF PhoneRead, TypeCable
<1>1. CASE ReadAnswer(Head(down))
    <2>1. up' = up /\ Fewer
        BY <1>0, <1>1, AnswerStep DEF ReadAnswer, Fewer
    <2> QED  BY <2>1, KeepsLinked
<1>2. CASE ReadChallenge(Head(down))
    <2>1. CASE LoseTasks /\ Cut
        BY <2>1, LosesSilent, CutsLinked
    <2>2. Fewer \/ (LoseTasks /\ Cut)
        BY <1>2, LosesSilent DEF ReadChallenge, Fewer
    <2>3. ASSUME NEW f \in Frames, ~Relevant(f), up' = Append(up, f), Fewer
          PROVE  Linked'
        BY <2>3, OtherLinked
    <2>4. /\ Signed("proof", scanned, Head(down).fresh) \in Frames /\ ~Relevant(Signed("proof", scanned, Head(down).fresh))
          /\ Plain("refused") \in Frames /\ ~Relevant(Plain("refused"))
        BY <1>0, OtherFrames DEF TypePhone, Frames, Signed, Plain, Frame, Relevant
    <2>5. \/ LoseTasks /\ Cut
          \/ up' = Append(up, Signed("proof", scanned, Head(down).fresh))
          \/ up' = Append(up, Plain("refused"))
          \/ up' = up
        BY <1>2 DEF ReadChallenge
    <2> QED  BY <2>1, <2>2, <2>3, <2>4, <2>5, KeepsLinked
<1> QED
    BY <1>1, <1>2 DEF PhoneRead

\* What holds in every state when one thread runs at a time.
Orderly == Basics /\ Alone /\ Served /\ Linked /\ UploadWhole

LEMMA OrderlyInit == Init => Orderly
<1> SUFFICES ASSUME Init PROVE Orderly
    OBVIOUS
<1>1. Alone /\ Served /\ UploadWhole
    BY DEF Init, Alone, Served, UploadWhole, Off
<1>2. Linked
    BY LinkedEmpty DEF Init, Linked, Pieces, Streams
<1> QED
    BY <1>1, <1>2, BasicsInit DEF Orderly

LEMMA OrderlyStep == ASSUME SlowStop = FALSE PROVE Orderly /\ [Next]_vars => Orderly'
<1> SUFFICES ASSUME Orderly, [Next]_vars PROVE Orderly'
    OBVIOUS
<1>1. TypeDesktop /\ TypeUploads /\ TypeCable /\ TypePhone /\ TypeRest /\ Proper(up) /\ Begun
    BY TypeParts DEF Orderly, Basics
<1>2. kind' = kind /\ known' = known
    BY <1>1, UploadsStep
<1>3. Alone'
    BY <1>1, AloneStep DEF Orderly
<1> SUFFICES Linked' /\ Served' /\ UploadWhole'
    BY <1>3, BasicsStep DEF Orderly
<1>4. ASSUME Linked', pending' \subseteq pending, given' = given, ~Configure, ~\E w \in Workers : Step(w)
      PROVE  Linked' /\ Served' /\ UploadWhole'
    BY <1>1, <1>2, <1>4, OthersMove DEF Served, UploadWhole, Orderly
<1>5. CASE \E w \in Workers : Step(w)
    BY <1>1, <1>2, <1>5, ThreadLinked DEF Orderly
<1>6. CASE Configure
    <2>1. pending' = {} /\ UNCHANGED <<up, task, given>>
        BY <1>6 DEF Configure
    <2>2. Linked'
        BY <1>2, <2>1, KeepsLinked DEF Orderly, Fewer
    <2> QED  BY <2>1, <2>2 DEF Served, UploadWhole, Orderly
<1>7. CASE Stop \/ Plug \/ Reopen
    <2>1. pending' \subseteq pending /\ UNCHANGED <<up, task, given>>
        BY <1>7 DEF Stop, Plug, Reopen
    <2>2. Linked'
        BY <1>2, <2>1, KeepsLinked DEF Orderly, Fewer
    <2> QED  BY <1>4, <1>5, <1>6, <2>1, <2>2
<1>8. CASE Scan \/ Resync \/ Notice
    <2>1. UNCHANGED upload /\ (Cut \/ up' = up) /\ LoseTasks
        BY <1>8 DEF Scan, Resync, Notice
    <2>2. Linked'
        BY <1>1, <1>2, <2>1, LosesSilent, KeepsLinked, CutsLinked DEF Orderly
    <2> QED  BY <1>4, <1>5, <1>6, <2>1, <2>2
<1>9. CASE Unplug
    <2>1. UNCHANGED upload /\ up' = <<>> /\ LoseTasks
        BY <1>9 DEF Unplug
    <2>2. Linked'
        BY <1>1, <1>2, <2>1, LosesSilent, EmptyLinked DEF Orderly
    <2> QED  BY <1>4, <1>5, <1>6, <2>1, <2>2
<1>10. CASE PhoneRead
    <2>1. UNCHANGED upload
        BY <1>10 DEF PhoneRead
    <2>2. Linked'
        BY <1>1, <1>2, <1>10, <2>1, PhoneLinked DEF Orderly
    <2> QED  BY <1>4, <1>5, <1>6, <2>1, <2>2
<1>11. ASSUME NEW r \in Requests, UploadReturns(r) \/ UploadBreaks(r)
       PROVE  Linked' /\ Served' /\ UploadWhole'
    <2>1. UNCHANGED <<up, pending, given>>
        BY <1>11 DEF UploadReturns, UploadBreaks
    <2>2. Fewer
        <3>1. PICK st \in {"done", "failed", "lost"} : task' = [task EXCEPT ![r].st = st]
            <4>1. (IF task[r].ans = "ok" THEN "done" ELSE "failed") \in {"done", "failed", "lost"}
                OBVIOUS
            <4> QED  BY <1>11, <4>1 DEF UploadReturns, UploadBreaks
        <3>2. \A q \in Requests \ {r} : task'[q] = task[q]
            BY <3>1 DEF TypePhone
        <3>3. task'[r].st = st
            BY <1>1, <3>1 DEF TypePhone, Task
        <3> QED  BY <3>2, <3>3 DEF Fewer
    <2>3. Linked'
        BY <1>2, <2>1, <2>2, KeepsLinked DEF Orderly
    <2> QED  BY <1>4, <1>5, <1>6, <2>1, <2>3
<1>12. ASSUME NEW r \in Requests, NEW f \in Frames, NEW t, UploadStep(r, f, t), Relevant(f), f.r = r,
              f.t = "start" \/ (task[r].st = "streaming" /\ f.n = task[r].n /\ Place(f) = task[r].i + 1),
              t.st = "streaming" => t.n = f.n /\ t.i = Place(f)
       PROVE  Linked' /\ Served' /\ UploadWhole'
    <2>1. up' = Append(up, f) /\ task' = [task EXCEPT ![r] = t] /\ UNCHANGED upload
        BY <1>12 DEF UploadStep
    <2>2. task'[r] = t /\ \A q \in Requests \ {r} : task'[q] = task[q]
        BY <1>1, <2>1 DEF TypePhone
    <2>3. Linked'
        BY <1>1, <1>2, <1>12, <2>1, <2>2, GrowsLinked DEF Orderly
    <2> QED  BY <1>4, <1>5, <1>6, <2>1, <2>3
<1>13. ASSUME NEW r \in Requests, UploadStart(r)
       PROVE  Linked' /\ Served' /\ UploadWhole'
    <2>1. PICK n \in Tries : /\ UploadStep(r, Frame("start", r, n, 0), [st |-> "streaming", n |-> n, i |-> 0, ans |-> None])
                             /\ Frame("start", r, n, 0) \in Frames
        BY <1>1, <1>13, UploadFrames DEF Begun
    <2>2. Relevant(Frame("start", r, n, 0)) /\ Place(Frame("start", r, n, 0)) = 0
        BY DEF Relevant, Place, Frame
    <2> QED  BY <1>12, <2>1, <2>2 DEF Frame
<1>14. ASSUME NEW r \in Requests, UploadChunk(r)
       PROVE  Linked' /\ Served' /\ UploadWhole'
    <2> DEFINE t == task[r]
               f == Frame("chunk", r, t.n, t.i + 1)
    <2>1. /\ UploadStep(r, f, [st |-> "streaming", n |-> t.n, i |-> t.i + 1, ans |-> t.ans])
          /\ t.st = "streaming" /\ f \in Frames
        BY <1>1, <1>14, UploadFrames DEF Begun
    <2>2. Relevant(f) /\ Place(f) = t.i + 1 /\ f.r = r /\ f.n = t.n
        BY DEF Relevant, Place, Frame
    <2> QED  BY <1>12, <2>1, <2>2
<1>15. ASSUME NEW r \in Requests, UploadFinish(r)
       PROVE  Linked' /\ Served' /\ UploadWhole'
    <2> DEFINE t == task[r]
               f == Frame("complete", r, t.n, 0)
    <2>1. /\ UploadStep(r, f, [st |-> "waiting", n |-> t.n, i |-> t.i, ans |-> t.ans])
          /\ t.st = "streaming" /\ f \in Frames /\ t.i = Chunks
        BY <1>1, <1>15, UploadFrames DEF Begun
    <2>2. Relevant(f) /\ Place(f) = Chunks + 1 /\ f.r = r /\ f.n = t.n
        BY DEF Relevant, Place, Frame
    <2> QED  BY <1>12, <2>1, <2>2
<1>16. CASE UNCHANGED vars
    <2>1. Linked'
        BY <1>2, <1>16, KeepsLinked DEF Orderly, Fewer
    <2> QED  BY <1>16, <2>1 DEF Served, UploadWhole, Orderly
<1> QED
    BY <1>5, <1>6, <1>7, <1>8, <1>9, <1>10, <1>11, <1>13, <1>14, <1>15, <1>16 DEF Next, Phone

\* What is handed on as one photo is all chunks of one attempt in their order,
\* if no thread of an adapter outlives the stop that ends it: an upload that
\* _handle_aoa_session has begun is dropped whenever frames may be missing.
THEOREM UploadWholeHolds == SlowStop = FALSE => (Spec => []UploadWhole)
<1> SUFFICES ASSUME SlowStop = FALSE PROVE Spec => []UploadWhole
    OBVIOUS
<1>1. Orderly /\ [Next]_vars => Orderly'
    BY OrderlyStep
<1>2. Orderly => UploadWhole
    BY DEF Orderly
<1> QED
    BY <1>1, <1>2, OrderlyInit, PTL DEF Spec
=============================================================================
