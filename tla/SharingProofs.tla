--------------------------- MODULE SharingProofs ----------------------------
(***************************************************************************)
(* Proofs about instant sharing.                                           *)
(*                                                                         *)
(* InstantShare: the invariant says how far each request has come for its  *)
(* image.  It is saved before it is counted, and a phone that has not      *)
(* started its batch again has one request at a time, so its count is      *)
(* never ahead of what is saved.  Attempts that overlap after a time-out   *)
(* may count one image twice; of those it says only that what the phone    *)
(* was answered is saved.                                                  *)
(*                                                                         *)
(* ShareAgent: an instance that lists the service, or still may, is held   *)
(* by the advertiser or by a thread inside stop; the hard step is a start, *)
(* which replaces the advertiser's instance.                               *)
(***************************************************************************)
EXTENDS InstantShare, ShareAgent, FiniteSetTheorems, TLAPS

USE DEF receiving, sharing, vars

States == {"queued", "negotiating", "transferring", "delivering", "done"}
UploadAts == {"enter", "receive", "write", "look", "count", "move", "publish", "check", "deliver", "delivering", "done", "answer"}
ReaderAts == {"manifest", "time", "open", "read", "claim", "notice"}
Before == {"enter", "receive", "write", "look", "count"}
Written == {"look", "count", "move", "publish", "check", "deliver", "delivering", "done", "answer"}
Counted == {"count", "move", "publish", "check", "deliver", "delivering", "done"}

Sitting == [st : States, want : Sizes \cup {0}, got : Nat]
Batch == [pc : {"idle", "hand", "apply", "confirm", "send", "wait", "ok", "failed"}, i : Nat, tries : 1 .. Hosts, again : BOOLEAN]
Job == [at : UploadAts \cup ReaderAts, s : Sessions, i : Nat, old : States \cup {"none"},
        then : {"none", "check", "done", "answer"}, live : BOOLEAN]

\* A request is for an image of its batch, and publishes a state that it has seen.
RequestOK(h) ==
  /\ thread[h].i \in Items(thread[h].s)
  /\ thread[h].at = "publish" => thread[h].old \in States /\ thread[h].then # "none"

\* The types of what uploads work with.
Shapes ==
  /\ flow \in [Sessions -> Flows] /\ size \in [Sessions -> Sizes]
  /\ sess \in [Sessions -> Sitting \cup {Absent}]
  /\ saved \in [Sessions -> SUBSET Nat] /\ \A s \in Sessions : saved[s] \subseteq Items(s)
  /\ phone \in [Sessions -> Batch] /\ \A s \in Sessions : phone[s].i \in Items(s)
  /\ thread \in [Handlers -> Job \cup {Idle}]
  /\ \A h \in Handlers : Busy(h) => RequestOK(h)

\* The types of the rest.
Views ==
  /\ trust \in [Sessions -> {"none", "fresh", "keyed", "pin", "trusted"}]
  /\ shown \in [Sessions -> {"none", "waiting", "pin", "transferring", "delivering", "success", "aborted"}]
  /\ gone \in [Sessions -> SUBSET Nat] /\ \A s \in Sessions : gone[s] \subseteq Files(s)
  /\ late \in [Sessions -> BOOLEAN]
  /\ peer \in [Sessions -> {"none", "started", "joined", "auth", "left"}]
  /\ qr \in [Sessions -> {"none", "shown", "claimed", "expired", "cancelled"}]
  /\ others \in 0 .. MaxOthers

\* What holds of a session, whoever serves it: images before the phone's next
\* one are saved, and the count is not ahead of them, unless the phone has
\* started again.
SessionOK(s) ==
  /\ ~ToPc(s) => phone[s].pc = "idle" /\ ~Have(s)
  /\ \A j \in Items(s) : j < phone[s].i => j \in saved[s]
  /\ phone[s].pc = "ok" => saved[s] = Items(s)
  /\ Have(s) => sess[s].want \in {0, size[s]}
  /\ Have(s) /\ ~phone[s].again =>
        /\ 1 .. sess[s].got \subseteq saved[s]
        /\ phone[s].pc \in {"idle", "hand", "apply", "confirm", "send"} => sess[s].got < phone[s].i
        /\ sess[s].st \in {"delivering", "done"} => saved[s] = Items(s)

\* What holds of a request.
HandlerOK(h) ==
  LET t == thread[h]
      s == thread[h].s
  IN  /\ t.at \in UploadAts <=> ToPc(s)
      /\ t.live => ToPc(s) /\ phone[s].pc = "wait" /\ phone[s].i = t.i
      /\ t.at \in Written => t.i \in saved[s]
      /\ ToPc(s) /\ ~phone[s].again =>
            /\ phone[s].pc \in {"wait", "failed"} /\ phone[s].i = t.i
            /\ Have(s) => /\ sess[s].got <= t.i
                          /\ t.at \in Before => sess[s].got < t.i
                          /\ t.at \in Counted => sess[s].want = size[s]
                          /\ t.at = "delivering" => Complete(s)

\* A phone waits for one request, and one that has not started again has no other.
Serves(h, s) == Busy(h) /\ thread[h].s = s

Turns ==
  /\ \A h, g \in Handlers, s \in Sessions :
        /\ Serves(h, s) /\ Serves(g, s)
        /\ (thread[h].live /\ thread[g].live) \/ (ToPc(s) /\ ~phone[s].again)
        => h = g
  /\ \A s \in Sessions : phone[s].pc = "wait" => \E h \in Handlers : Serves(h, s) /\ thread[h].live

IInv ==
  /\ Shapes /\ Views
  /\ \A s \in Sessions : SessionOK(s)
  /\ \A h \in Handlers : Busy(h) => HandlerOK(h)
  /\ Turns

-----------------------------------------------------------------------------
(* Records. *)

\* A busy handler has a request.
LEMMA IdleIsNoJob == \A t \in Job \cup {Idle} : t # Idle <=> t \in Job
BY DEF Idle, Job, UploadAts, ReaderAts

\* A session that is there is a record.
LEMMA AbsentIsNoSitting == \A x \in Sitting \cup {Absent} : x # Absent <=> x \in Sitting
BY DEF Absent, Sitting, States

\* Images are numbered from one, without gaps.
LEMMA Images ==
  ASSUME size \in [Sessions -> Sizes], NEW s \in Sessions
  PROVE  /\ size[s] \in Nat
         /\ \A j \in Items(s) : j \in Nat /\ 1 <= j
         /\ \A j \in Items(s), k \in Nat : 1 <= k /\ k <= j => k \in Items(s)
         /\ \A j, k \in Items(s) : j < k => j + 1 \in Items(s)
         /\ size[s] = 0 => Items(s) = {1}
         /\ size[s] # 0 => Items(s) = 1 .. size[s]
         /\ 1 \in Items(s)
<1>1. size[s] \in Nat
  BY ShareAssumption
<1>2. CASE size[s] = 0
  BY <1>1, <1>2 DEF Items
<1>3. CASE size[s] # 0
  BY <1>1, <1>3 DEF Items
<1> QED
  BY <1>2, <1>3

\* A handler goes on.
LEMMA GoesStep ==
  ASSUME thread \in [Handlers -> Job \cup {Idle}], NEW h \in Handlers, Busy(h), NEW at \in UploadAts \cup ReaderAts, Goes(h, at)
  PROVE  /\ thread' \in [Handlers -> Job \cup {Idle}] /\ thread'[h] # Idle
         /\ thread'[h].at = at /\ thread'[h].s = thread[h].s /\ thread'[h].i = thread[h].i /\ thread'[h].live = thread[h].live
         /\ thread'[h].old = thread[h].old /\ thread'[h].then = thread[h].then
         /\ \A g \in Handlers \ {h} : thread'[g] = thread[g]
<1>1. thread[h] \in Job
  BY IdleIsNoJob DEF Busy
<1>2. PICK t : t = [thread[h] EXCEPT !.at = at]
  OBVIOUS
<1>3. t \in Job /\ t.at = at /\ t.s = thread[h].s /\ t.i = thread[h].i /\ t.live = thread[h].live
      /\ t.old = thread[h].old /\ t.then = thread[h].then
  BY <1>1, <1>2 DEF Job
<1>4. thread' = [thread EXCEPT ![h] = t]
  BY <1>2 DEF Goes
<1>5. t # Idle
  BY <1>3, IdleIsNoJob
<1> QED
  BY <1>3, <1>4, <1>5

\* A handler goes on with what it has seen.
LEMMA SawStep ==
  ASSUME thread \in [Handlers -> Job \cup {Idle}], NEW h \in Handlers, Busy(h), NEW at \in UploadAts \cup ReaderAts,
         NEW old \in States \cup {"none"}, NEW then \in {"none", "check", "done", "answer"}, Saw(h, at, old, then)
  PROVE  /\ thread' \in [Handlers -> Job \cup {Idle}] /\ thread'[h] # Idle
         /\ thread'[h].at = at /\ thread'[h].s = thread[h].s /\ thread'[h].i = thread[h].i /\ thread'[h].live = thread[h].live
         /\ thread'[h].old = old /\ thread'[h].then = then
         /\ \A g \in Handlers \ {h} : thread'[g] = thread[g]
<1>1. thread[h] \in Job
  BY IdleIsNoJob DEF Busy
<1>2. PICK t : t = [at |-> at, s |-> thread[h].s, i |-> thread[h].i, old |-> old, then |-> then, live |-> thread[h].live]
  OBVIOUS
<1>3. t \in Job /\ t.at = at /\ t.s = thread[h].s /\ t.i = thread[h].i /\ t.live = thread[h].live
      /\ t.old = old /\ t.then = then
  BY <1>1, <1>2 DEF Job
<1>4. thread' = [thread EXCEPT ![h] = t]
  BY <1>2 DEF Saw
<1>5. t # Idle
  BY <1>3, IdleIsNoJob
<1> QED
  BY <1>3, <1>4, <1>5

\* The phone tries its next host or gives up.
LEMMA NextHostStep ==
  ASSUME phone \in [Sessions -> Batch], NEW s \in Sessions, NextHost(s)
  PROVE  /\ phone' \in [Sessions -> Batch] /\ \A r \in Sessions \ {s} : phone'[r] = phone[r]
         /\ \/ phone'[s].pc = "send" /\ phone'[s].i = 1 /\ phone'[s].again = TRUE
            \/ phone'[s].pc = "failed" /\ phone'[s].i = phone[s].i /\ phone'[s].again = phone[s].again
<1>1. CASE phone[s].tries > 1
  <2>1. PICK p : p = [pc |-> "send", i |-> 1, tries |-> phone[s].tries - 1, again |-> TRUE]
    OBVIOUS
  <2>2. p \in Batch /\ p.pc = "send" /\ p.i = 1 /\ p.again = TRUE
    BY <1>1, <2>1, ShareAssumption DEF Batch
  <2>3. phone' = [phone EXCEPT ![s] = p]
    BY <1>1, <2>1 DEF NextHost
  <2> QED  BY <2>2, <2>3
<1>2. CASE ~(phone[s].tries > 1)
  <2>1. phone' = [phone EXCEPT ![s].pc = "failed"]
    BY <1>2 DEF NextHost, Steps
  <2> QED  BY <2>1 DEF Batch
<1> QED
  BY <1>1, <1>2

\* The phone takes a step with its batch where it is.
LEMMA StepsStep ==
  ASSUME phone \in [Sessions -> Batch], NEW s \in Sessions,
         NEW pc \in {"idle", "hand", "apply", "confirm", "send", "wait", "ok", "failed"}, Steps(s, pc)
  PROVE  /\ phone' \in [Sessions -> Batch] /\ \A r \in Sessions \ {s} : phone'[r] = phone[r]
         /\ phone'[s].pc = pc /\ phone'[s].i = phone[s].i /\ phone'[s].again = phone[s].again
BY DEF Steps, Batch

\* A handler ends with its answer.
LEMMA AnswerStep ==
  ASSUME Shapes, NEW h \in Handlers, Busy(h), NEW ok \in BOOLEAN, Answer(h, ok)
  PROVE  LET s == thread[h].s IN
         /\ thread' \in [Handlers -> Job \cup {Idle}] /\ thread'[h] = Idle /\ \A g \in Handlers \ {h} : thread'[g] = thread[g]
         /\ phone' \in [Sessions -> Batch] /\ \A r \in Sessions \ {s} : phone'[r] = phone[r]
         /\ \/ ~thread[h].live /\ phone' = phone
            \/ /\ thread[h].live
               /\ \/ phone'[s].pc = "send" /\ phone'[s].i = 1 /\ phone'[s].again = TRUE
                  \/ phone'[s].pc = "failed" /\ phone'[s].i = phone[s].i /\ phone'[s].again = phone[s].again
                  \/ /\ ok /\ phone[s].i + 1 \in Items(s) /\ phone'[s].pc = "send"
                     /\ phone'[s].i = phone[s].i + 1 /\ phone'[s].again = phone[s].again
                  \/ /\ ok /\ phone[s].i + 1 \notin Items(s) /\ phone'[s].pc = "ok"
                     /\ phone'[s].i = phone[s].i /\ phone'[s].again = phone[s].again
<1>1. PICK s \in Sessions : s = thread[h].s
  BY IdleIsNoJob DEF Shapes, Busy, Job
<1>2. thread' \in [Handlers -> Job \cup {Idle}] /\ thread'[h] = Idle /\ \A g \in Handlers \ {h} : thread'[g] = thread[g]
  BY DEF Answer, Shapes
<1>3. CASE ~thread[h].live
  BY <1>1, <1>2, <1>3 DEF Answer, Shapes
<1>4. CASE thread[h].live /\ NextHost(s)
  BY <1>1, <1>2, <1>4, NextHostStep DEF Shapes
<1>5. CASE thread[h].live /\ ok /\ NextItem(s)
  <2>1. CASE phone[s].i + 1 \in Items(s)
    <3>1. PICK p : p = [pc |-> "send", i |-> phone[s].i + 1, tries |-> phone[s].tries, again |-> phone[s].again]
      OBVIOUS
    <3>2. p \in Batch /\ p.pc = "send" /\ p.i = phone[s].i + 1 /\ p.again = phone[s].again
      BY <3>1 DEF Shapes, Batch
    <3>3. phone' = [phone EXCEPT ![s] = p]
      BY <1>5, <2>1, <3>1 DEF NextItem
    <3> QED  BY <1>1, <1>2, <1>5, <2>1, <3>2, <3>3 DEF Shapes
  <2>2. CASE phone[s].i + 1 \notin Items(s)
    <3>1. Steps(s, "ok")
      BY <1>5, <2>2 DEF NextItem
    <3> QED  BY <1>1, <1>2, <1>5, <2>2, <3>1, StepsStep DEF Shapes
  <2> QED  BY <2>1, <2>2
<1>6. CASE thread[h].live /\ ~ok /\ Steps(s, "failed")
  BY <1>1, <1>2, <1>6, StepsStep DEF Shapes
<1> QED
  BY <1>1, <1>3, <1>4, <1>5, <1>6 DEF Answer

-----------------------------------------------------------------------------
(* What a step of one request or phone leaves alone. *)

\* A session to which nothing happens.
LEMMA SessionSame ==
  ASSUME NEW r \in Sessions, SessionOK(r), flow'[r] = flow[r], size'[r] = size[r],
         sess'[r] = sess[r], phone'[r] = phone[r], saved'[r] = saved[r]
  PROVE  SessionOK(r)'
BY DEF SessionOK, ToPc, Have, Items

\* A request is not disturbed by what happens to other sessions.
LEMMA HandlerSame ==
  ASSUME NEW g \in Handlers, HandlerOK(g), thread'[g] = thread[g], NEW r \in Sessions, r = thread[g].s,
         flow'[r] = flow[r], size'[r] = size[r], sess'[r] = sess[r], phone'[r] = phone[r], saved'[r] = saved[r]
  PROVE  HandlerOK(g)'
BY DEF HandlerOK, ToPc, Have, Complete

\* Nor by its own session when that is known to be in a second attempt.
LEMMA HandlerAgain ==
  ASSUME NEW g \in Handlers, HandlerOK(g), thread'[g] = thread[g], NEW r \in Sessions, r = thread[g].s,
         flow'[r] = flow[r], saved[r] \subseteq saved'[r],
         thread[g].live => phone'[r] = phone[r],
         ToPc(r) => phone'[r].again
  PROVE  HandlerOK(g)'
BY DEF HandlerOK, ToPc

\* A request goes on: the sessions and the other requests are as they were.
LEMMA GoesOn ==
  ASSUME IInv, NEW h \in Handlers, Busy(h), thread[h].at \in UploadAts, NEW s \in Sessions, s = thread[h].s,
         flow' = flow, size' = size, phone' = phone,
         thread' \in [Handlers -> Job \cup {Idle}], thread'[h] # Idle,
         thread'[h].s = s, thread'[h].i = thread[h].i, thread'[h].live = thread[h].live,
         \A g \in Handlers \ {h} : thread'[g] = thread[g],
         thread'[h].at = "publish" => thread'[h].old \in States /\ thread'[h].then # "none",
         sess' \in [Sessions -> Sitting \cup {Absent}], \A r \in Sessions \ {s} : sess'[r] = sess[r],
         saved' \in [Sessions -> SUBSET Nat], \A r \in Sessions \ {s} : saved'[r] = saved[r],
         saved[s] \subseteq saved'[s], saved'[s] \subseteq Items(s),
         SessionOK(s)', HandlerOK(h)'
  PROVE  /\ Shapes' /\ \A r \in Sessions : SessionOK(r)'
         /\ \A g \in Handlers : Busy(g)' => HandlerOK(g)'
         /\ Turns'
<1>0. Shapes /\ Turns /\ ToPc(s)
  BY DEF IInv, HandlerOK
<1>1. Shapes'
  <2>1. \A r \in Sessions : Items(r)' = Items(r)
    BY DEF Items
  <2>2. \A r \in Sessions : saved'[r] \subseteq Items(r)
    BY <1>0 DEF Shapes
  <2>3. ASSUME NEW g \in Handlers, Busy(g)'
        PROVE  RequestOK(g)'
    <3>1. CASE g = h
      BY <1>0, <3>1 DEF Shapes, RequestOK, Items
    <3>2. CASE g # h
      BY <1>0, <2>3, <3>2 DEF Shapes, Busy, RequestOK, Items
    <3> QED  BY <3>1, <3>2
  <2> QED  BY <1>0, <2>1, <2>2, <2>3 DEF Shapes
<1>2. ASSUME NEW r \in Sessions
      PROVE  SessionOK(r)'
  BY SessionSame DEF IInv
<1>3. ASSUME NEW g \in Handlers, Busy(g)'
      PROVE  HandlerOK(g)'
  <2>1. CASE g = h
    BY <2>1
  <2>2. CASE g # h
    <3>1. thread'[g] = thread[g] /\ Busy(g) /\ HandlerOK(g)
      BY <1>3, <2>2 DEF Busy, IInv
    <3>2. PICK r \in Sessions : r = thread[g].s
      BY <1>0, <3>1, IdleIsNoJob DEF Shapes, Busy, Job
    <3>3. CASE r = s
      <4>1. phone[s].again = TRUE
        BY <1>0, <2>2, <3>1, <3>2, <3>3 DEF Turns, Serves, Shapes, Batch
      <4> QED  BY <3>1, <3>2, <3>3, <4>1, HandlerAgain
    <3>4. CASE r # s
      BY <3>1, <3>2, <3>4, HandlerSame
    <3> QED  BY <3>3, <3>4
  <2> QED  BY <2>1, <2>2
<1>4. \A g \in Handlers : Busy(g)' <=> Busy(g)
  BY DEF Busy
<1>5. /\ \A g \in Handlers, r \in Sessions : Serves(g, r)' <=> Serves(g, r)
      /\ \A g \in Handlers : thread'[g].live = thread[g].live
  BY <1>4 DEF Serves
<1>6. Turns'
  <2>1. \A r : ToPc(r)' <=> ToPc(r)
    BY DEF ToPc
  <2> QED  BY <1>0, <1>5, <2>1 DEF Turns
<1> QED
  BY <1>1, <1>2, <1>3, <1>6

\* A request ends: its session has at most one live request, which it was.
LEMMA EndsHere ==
  ASSUME IInv, NEW h \in Handlers, Busy(h), NEW s \in Sessions, s = thread[h].s, ToPc(s), NEW ok \in BOOLEAN,
         flow' = flow, size' = size, sess' = sess, saved' = saved,
         Answer(h, ok), ok => thread[h].i \in saved[s] /\ thread[h].at \notin Before
  PROVE  /\ Shapes' /\ \A r \in Sessions : SessionOK(r)'
         /\ \A g \in Handlers : Busy(g)' => HandlerOK(g)'
         /\ Turns'
<1>0. Shapes /\ Turns /\ HandlerOK(h) /\ SessionOK(s)
  BY DEF IInv
<1>1. /\ thread' \in [Handlers -> Job \cup {Idle}] /\ thread'[h] = Idle /\ \A g \in Handlers \ {h} : thread'[g] = thread[g]
      /\ phone' \in [Sessions -> Batch] /\ \A r \in Sessions \ {s} : phone'[r] = phone[r]
  BY <1>0, AnswerStep
<1>2. \/ ~thread[h].live /\ phone' = phone
      \/ /\ thread[h].live
         /\ \/ phone'[s].pc = "send" /\ phone'[s].i = 1 /\ phone'[s].again = TRUE
            \/ phone'[s].pc = "failed" /\ phone'[s].i = phone[s].i /\ phone'[s].again = phone[s].again
            \/ /\ ok /\ phone[s].i + 1 \in Items(s) /\ phone'[s].pc = "send"
               /\ phone'[s].i = phone[s].i + 1 /\ phone'[s].again = phone[s].again
            \/ /\ ok /\ phone[s].i + 1 \notin Items(s) /\ phone'[s].pc = "ok"
               /\ phone'[s].i = phone[s].i /\ phone'[s].again = phone[s].again
  BY <1>0, AnswerStep
<1>3. /\ \A r \in Sessions : Items(r)' = Items(r)
      /\ 1 \in Items(s) /\ \A j \in Items(s) : j \in Nat /\ 1 <= j
      /\ \A j, k \in Items(s) : j < k => j + 1 \in Items(s)
  BY <1>0, Images DEF Items, Shapes
<1>4. phone[s] \in Batch /\ phone'[s] \in Batch /\ thread[h] \in Job
  BY <1>0, <1>1, IdleIsNoJob DEF Shapes, Busy
<1>5. Shapes'
  <2>1. \A r \in Sessions : phone'[r].i \in Items(r)
    <3>1. phone'[s].i \in Items(s)
      BY <1>0, <1>2, <1>3 DEF Shapes
    <3> QED  BY <1>0, <1>1, <3>1 DEF Shapes
  <2>2. ASSUME NEW g \in Handlers, Busy(g)'
        PROVE  RequestOK(g)'
    BY <1>0, <1>1, <2>2 DEF Shapes, Busy, RequestOK, Items
  <2> QED  BY <1>0, <1>1, <1>3, <2>1, <2>2 DEF Shapes
<1>6. SessionOK(s)'
  <2>1. CASE ~thread[h].live
    BY <1>0, <1>2, <2>1, SessionSame
  <2>2. CASE thread[h].live
    <3>0. phone[s].pc = "wait" /\ phone[s].i = thread[h].i
      BY <1>0, <2>2 DEF HandlerOK
    <3>1. CASE phone'[s].pc = "send" /\ phone'[s].i = 1 /\ phone'[s].again = TRUE
      BY <1>0, <1>3, <3>1 DEF SessionOK, ToPc, Have, Items
    <3>2. CASE phone'[s].pc = "failed" /\ phone'[s].i = phone[s].i /\ phone'[s].again = phone[s].again
      BY <1>0, <3>2 DEF SessionOK, ToPc, Have, Items
    <3>3. CASE ok /\ phone'[s].i = phone[s].i + 1 /\ phone'[s].pc = "send" /\ phone'[s].again = phone[s].again
      <4>1. \A j \in Items(s) : j < phone'[s].i => j \in saved[s]
        BY <1>0, <1>3, <1>4, <3>0, <3>3 DEF SessionOK, Batch
      <4>2. Have(s) /\ ~phone[s].again => sess[s].got < phone'[s].i
        <5>1. Have(s) => sess[s] \in Sitting
          BY <1>0, AbsentIsNoSitting DEF Shapes, Have
        <5>2. ~phone[s].again /\ Have(s) => sess[s].got <= thread[h].i
          BY <1>0 DEF HandlerOK
        <5> QED  BY <1>4, <3>0, <3>3, <5>1, <5>2 DEF Sitting, Job
      <4> QED  BY <1>0, <3>3, <4>1, <4>2 DEF SessionOK, ToPc, Have, Items
    <3>4. CASE ok /\ phone[s].i + 1 \notin Items(s) /\ phone'[s].pc = "ok" /\ phone'[s].i = phone[s].i /\ phone'[s].again = phone[s].again
      <4>1. saved[s] = Items(s)
        <5>1. \A j \in Items(s) : j <= phone[s].i
          BY <1>0, <1>3, <1>4, <3>4 DEF Shapes, Batch
        <5>2. \A j \in Items(s) : j \in saved[s]
          BY <1>0, <1>3, <1>4, <3>0, <3>4, <5>1 DEF SessionOK, Batch
        <5> QED  BY <1>0, <5>2 DEF Shapes
      <4> QED  BY <1>0, <3>4, <4>1 DEF SessionOK, ToPc, Have, Items
    <3> QED  BY <1>2, <2>2, <3>1, <3>2, <3>3, <3>4
  <2> QED  BY <2>1, <2>2
<1>7. ASSUME NEW r \in Sessions
      PROVE  SessionOK(r)'
  BY <1>1, <1>6, SessionSame DEF IInv
<1>8. phone[s].again => phone'[s].again
  BY <1>2, <1>4 DEF Batch
<1>9. ASSUME NEW g \in Handlers, Busy(g)'
      PROVE  HandlerOK(g)'
  <2>1. g # h /\ thread'[g] = thread[g] /\ Busy(g) /\ HandlerOK(g)
    BY <1>1, <1>9 DEF Busy, IInv
  <2>2. PICK r \in Sessions : r = thread[g].s
    BY <1>0, <2>1, IdleIsNoJob DEF Shapes, Busy, Job
  <2>3. CASE r = s
    <3>1. phone[s].again = TRUE
      BY <1>0, <2>1, <2>2, <2>3 DEF Turns, Serves, Shapes, Batch
    <3>2. thread[g].live => ~thread[h].live
      BY <1>0, <2>1, <2>2, <2>3 DEF Turns, Serves
    <3> QED  BY <1>2, <1>8, <2>1, <2>2, <2>3, <3>1, <3>2, HandlerAgain
  <2>4. CASE r # s
    BY <1>1, <2>1, <2>2, <2>4, HandlerSame
  <2> QED  BY <2>3, <2>4
<1>10. Turns'
  <2>1. ASSUME NEW a \in Handlers, NEW b \in Handlers, NEW r \in Sessions, Serves(a, r)', Serves(b, r)',
               (thread'[a].live /\ thread'[b].live) \/ (ToPc(r)' /\ ~phone'[r].again)
        PROVE  a = b
    <3>1. a # h /\ b # h /\ thread'[a] = thread[a] /\ thread'[b] = thread[b] /\ Serves(a, r) /\ Serves(b, r)
      BY <1>1, <2>1 DEF Busy, Serves
    <3>3. ~phone'[r].again => ~phone[r].again
      BY <1>1, <1>8
    <3>4. ToPc(r)' <=> ToPc(r)
      BY DEF ToPc
    <3> QED  BY <1>0, <2>1, <3>1, <3>3, <3>4 DEF Turns
  <2>2. ASSUME NEW r \in Sessions, phone'[r].pc = "wait"
        PROVE  \E g \in Handlers : Serves(g, r)' /\ thread'[g].live
    <3>1. phone[r].pc = "wait" /\ ~(r = s /\ thread[h].live)
      BY <1>1, <1>2, <2>2
    <3>2. PICK g \in Handlers : Serves(g, r) /\ thread[g].live
      BY <1>0, <3>1 DEF Turns
    <3> QED  BY <1>1, <3>1, <3>2 DEF Busy, Serves
  <2> QED  BY <2>1, <2>2 DEF Turns
<1> QED
  BY <1>5, <1>7, <1>9, <1>10

-----------------------------------------------------------------------------
(* An upload, action by action. *)

\* What uploads depend on, without the views.
Kept ==
  /\ Shapes /\ \A s \in Sessions : SessionOK(s)
  /\ \A h \in Handlers : Busy(h) => HandlerOK(h)
  /\ Turns

\* What is known of a request and its session.
LEMMA ServedRequest ==
  ASSUME IInv, NEW h \in Handlers, Busy(h), thread[h].at \in UploadAts, NEW s, s = thread[h].s
  PROVE  /\ s \in Sessions /\ ToPc(s) /\ thread[h] \in Job /\ HandlerOK(h) /\ SessionOK(s) /\ RequestOK(h)
         /\ thread[h].i \in Items(s) /\ Items(s) \subseteq Nat /\ size[s] \in Nat /\ phone[s] \in Batch
         /\ Have(s) => sess[s] \in Sitting
<1>1. Shapes /\ thread[h] \in Job /\ s \in Sessions
  BY IdleIsNoJob DEF IInv, Shapes, Busy, Job
<1>2. Have(s) => sess[s] \in Sitting
  BY <1>1, AbsentIsNoSitting DEF Shapes, Have
<1>3. HandlerOK(h) /\ SessionOK(s) /\ ToPc(s) /\ RequestOK(h)
  BY <1>1 DEF IInv, HandlerOK, Shapes
<1>4. Items(s) \subseteq Nat /\ size[s] \in Nat
  BY <1>1, Images DEF Shapes
<1> QED
  BY <1>1, <1>2, <1>3, <1>4 DEF RequestOK, Shapes

\* A request goes on and nothing else happens.
LEMMA GoesAlone ==
  ASSUME IInv, NEW h \in Handlers, Busy(h), thread[h].at \in UploadAts, NEW at \in UploadAts \ {"publish"}, Goes(h, at),
         UNCHANGED <<flow, size, sess, saved, phone>>, HandlerOK(h)'
  PROVE  Kept'
<1>1. PICK s \in Sessions : s = thread[h].s
  BY ServedRequest
<1>2. SessionOK(s)'
  BY SessionSame DEF IInv
<1> QED
  BY <1>1, <1>2, GoesStep, GoesOn DEF IInv, Shapes, Kept

\* An exception of the orchestrator.
LEMMA SwallowedKeeps ==
  ASSUME IInv, NEW h \in Handlers, Busy(h), thread[h].at \in Written, Swallowed(h),
         UNCHANGED <<flow, size, saved, phone>>
  PROVE  Kept'
<1>0. thread[h].at \in UploadAts /\ "answer" \in UploadAts \ {"publish"}
  BY DEF Written, UploadAts
<1>1. Goes(h, "answer") /\ sess' = sess
  BY DEF Swallowed
<1>2. HandlerOK(h)'
  BY <1>0, <1>1, GoesStep, ServedRequest DEF IInv, Shapes, HandlerOK, Written, Before, Counted, UploadAts, ToPc, Have
<1> QED
  BY <1>0, <1>1, <1>2, GoesAlone

\* Enter: the trust session or the registry lets the upload in, or it ends.
LEMMA EnterKeeps ==
  ASSUME IInv, NEW h \in Handlers, Enter(h)
  PROVE  Kept'
<1>0. Busy(h) /\ thread[h].at = "enter" /\ thread[h].at \in UploadAts /\ "receive" \in UploadAts \ {"publish"}
  BY DEF Enter, At, UploadAts
<1>1. PICK s \in Sessions : s = thread[h].s
  BY <1>0, ServedRequest
<1>2. UNCHANGED <<flow, size, saved>>
  BY DEF Enter
<1>3. CASE Goes(h, "receive") /\ UNCHANGED <<sess, phone>>
  <2>1. HandlerOK(h)'
    BY <1>0, <1>1, <1>2, <1>3, GoesStep, ServedRequest DEF IInv, Shapes, HandlerOK, Written, Before, Counted, UploadAts, ToPc, Have
  <2> QED  BY <1>0, <1>2, <1>3, <2>1, GoesAlone
<1>4. CASE Goes(h, "receive") /\ phone' = phone /\ MayRevisit(s) /\ sess' = [sess EXCEPT ![s] = Revisited(s)]
  <2>0. /\ ToPc(s) /\ thread[h] \in Job /\ HandlerOK(h) /\ SessionOK(s) /\ thread[h].i \in Items(s)
        /\ size[s] \in Nat /\ size[s] \in Sizes /\ phone[s] \in Batch /\ (Have(s) => sess[s] \in Sitting)
    BY <1>0, <1>1, ServedRequest DEF IInv, Shapes
  <2>1. PICK r : r = Revisited(s)
    OBVIOUS
  <2>2. r \in Sitting /\ r.st = "transferring" /\ r.want \in {0, size[s]}
        /\ r.got = IF Have(s) THEN sess[s].got ELSE 0
    <3>1. PICK want \in Sizes \cup {0} :
            /\ want = IF size[s] > 0 THEN size[s] ELSE IF Have(s) THEN sess[s].want ELSE 0
            /\ want \in {0, size[s]}
      BY <2>0 DEF Sitting, SessionOK
    <3>2. PICK got \in Nat : got = IF Have(s) THEN sess[s].got ELSE 0
      BY <2>0 DEF Sitting
    <3> QED  BY <2>1, <3>1, <3>2 DEF Revisited, Sitting, States
  <2>3. /\ sess' \in [Sessions -> Sitting \cup {Absent}] /\ sess'[s] = r /\ r # Absent
        /\ \A q \in Sessions \ {s} : sess'[q] = sess[q]
    BY <1>4, <2>1, <2>2, AbsentIsNoSitting DEF IInv, Shapes
  <2>4. /\ thread' \in [Handlers -> Job \cup {Idle}] /\ thread'[h] # Idle
        /\ thread'[h].at = "receive" /\ thread'[h].s = s /\ thread'[h].i = thread[h].i /\ thread'[h].live = thread[h].live
        /\ \A g \in Handlers \ {h} : thread'[g] = thread[g]
    BY <1>0, <1>1, <1>4, GoesStep DEF IInv, Shapes
  <2>5. ~phone[s].again => /\ phone[s].pc \in {"wait", "failed"} /\ r.got < thread[h].i
                           /\ 1 .. r.got \subseteq saved[s]
    <3>1. 1 <= thread[h].i /\ thread[h].i \in Nat
      BY <1>1, <2>0, Images DEF IInv, Shapes
    <3>2. 1 .. 0 = {}
      OBVIOUS
    <3> QED  BY <1>0, <1>1, <2>0, <2>2, <3>1, <3>2 DEF HandlerOK, SessionOK, Before
  <2>6. SessionOK(s)'
    BY <1>2, <1>4, <2>0, <2>2, <2>3, <2>5 DEF SessionOK, ToPc, Have, Items
  <2>7. HandlerOK(h)'
    BY <1>0, <1>1, <1>2, <1>4, <2>0, <2>2, <2>3, <2>4, <2>5 DEF HandlerOK, ToPc, Have, UploadAts, Written, Before, Counted, Sitting, Job
  <2>8. saved \in [Sessions -> SUBSET Nat] /\ saved[s] \subseteq Items(s)
    BY DEF IInv, Shapes
  <2> QED  BY <1>0, <1>1, <1>2, <1>4, <2>3, <2>4, <2>6, <2>7, <2>8, GoesOn DEF Kept
<1>5. CASE Answer(h, FALSE) /\ sess' = sess
  BY <1>0, <1>1, <1>2, <1>5, ServedRequest, EndsHere DEF Kept
<1> QED
  BY <1>1, <1>3, <1>4, <1>5 DEF Enter

\* Receive: the batch takes the image, or the upload ends.
LEMMA ReceiveKeeps ==
  ASSUME IInv, NEW h \in Handlers, Receive(h)
  PROVE  Kept'
<1>0. Busy(h) /\ thread[h].at = "receive" /\ thread[h].at \in UploadAts /\ "write" \in UploadAts \ {"publish"}
  BY DEF Receive, At, UploadAts
<1>1. PICK s \in Sessions : s = thread[h].s
  BY <1>0, ServedRequest
<1>2. UNCHANGED <<flow, size, saved, sess>>
  BY DEF Receive
<1>3. CASE Goes(h, "write") /\ UNCHANGED phone
  <2>1. HandlerOK(h)'
    BY <1>0, <1>1, <1>2, <1>3, GoesStep, ServedRequest DEF IInv, Shapes, HandlerOK, Written, Before, Counted, UploadAts, ToPc, Have
  <2> QED  BY <1>0, <1>2, <1>3, <2>1, GoesAlone
<1>4. CASE Answer(h, FALSE)
  BY <1>0, <1>1, <1>2, <1>4, ServedRequest, EndsHere DEF Kept
<1> QED
  BY <1>3, <1>4 DEF Receive

\* Write: the image is saved before anything counts it.
LEMMA WriteKeeps ==
  ASSUME IInv, NEW h \in Handlers, Write(h)
  PROVE  Kept'
<1>0. Busy(h) /\ thread[h].at = "write" /\ thread[h].at \in UploadAts
  BY DEF Write, At, UploadAts
<1>1. PICK s \in Sessions : s = thread[h].s
  BY <1>0, ServedRequest
<1>2. UNCHANGED <<flow, size, sess>>
  BY DEF Write
<1>3. CASE Answer(h, FALSE) /\ saved' = saved
  BY <1>0, <1>1, <1>2, <1>3, ServedRequest, EndsHere DEF Kept
<1>4. CASE saved' = [saved EXCEPT ![s] = @ \cup {thread[h].i}] /\ Goes(h, AfterWrite(s)) /\ phone' = phone
  <2>0. /\ ToPc(s) /\ thread[h] \in Job /\ HandlerOK(h) /\ SessionOK(s) /\ thread[h].i \in Items(s)
        /\ size[s] \in Nat /\ phone[s] \in Batch /\ (Have(s) => sess[s] \in Sitting) /\ Items(s) \subseteq Nat
    BY <1>0, <1>1, ServedRequest
  <2>1. PICK at \in {"look", "deliver"} : at = AfterWrite(s) /\ (at = "deliver" => size[s] = 0)
    BY DEF AfterWrite
  <2>2. /\ thread' \in [Handlers -> Job \cup {Idle}] /\ thread'[h] # Idle
        /\ thread'[h].at = at /\ thread'[h].s = s /\ thread'[h].i = thread[h].i /\ thread'[h].live = thread[h].live
        /\ \A g \in Handlers \ {h} : thread'[g] = thread[g]
    BY <1>0, <1>1, <1>4, <2>1, GoesStep DEF IInv, Shapes, UploadAts
  <2>3. /\ saved' \in [Sessions -> SUBSET Nat] /\ saved'[s] = saved[s] \cup {thread[h].i} /\ saved'[s] \subseteq Items(s)
        /\ \A r \in Sessions \ {s} : saved'[r] = saved[r]
    BY <1>4, <2>0 DEF IInv, Shapes
  <2>4. SessionOK(s)'
    BY <1>2, <1>4, <2>0, <2>3 DEF SessionOK, ToPc, Have, Items
  <2>5. HandlerOK(h)'
    <3>1. Have(s) => sess[s].want \in {0, size[s]}
      BY <2>0 DEF SessionOK
    <3> QED  BY <1>0, <1>1, <1>2, <1>4, <2>0, <2>1, <2>2, <2>3, <3>1 DEF HandlerOK, ToPc, Have, UploadAts, Written, Before, Counted
  <2> QED  BY <1>0, <1>1, <1>2, <1>4, <2>1, <2>2, <2>3, <2>4, <2>5, GoesOn DEF Kept, IInv, Shapes
<1> QED
  BY <1>1, <1>3, <1>4 DEF Write

\* Look: the size of the batch is set.
LEMMA LookKeeps ==
  ASSUME IInv, NEW h \in Handlers, Look(h)
  PROVE  Kept'
<1>0. Busy(h) /\ thread[h].at = "look" /\ thread[h].at \in UploadAts /\ thread[h].at \in Written
  BY DEF Look, At, UploadAts, Written
<1>1. PICK s \in Sessions : s = thread[h].s
  BY <1>0, ServedRequest
<1>2. UNCHANGED <<flow, size, saved, phone>>
  BY DEF Look
<1>3. CASE Swallowed(h)
  BY <1>0, <1>2, <1>3, SwallowedKeeps
<1>4. CASE Have(s) /\ sess' = [sess EXCEPT ![s].want = IF @ = 0 THEN size[s] ELSE @] /\ Saw(h, "count", sess[s].st, "none")
  <2>0. /\ ToPc(s) /\ thread[h] \in Job /\ HandlerOK(h) /\ SessionOK(s) /\ thread[h].i \in Items(s)
        /\ size[s] \in Nat /\ size[s] \in Sizes /\ phone[s] \in Batch /\ sess[s] \in Sitting /\ Items(s) \subseteq Nat
    BY <1>0, <1>1, <1>4, ServedRequest DEF IInv, Shapes
  <2>1. PICK want \in Sizes \cup {0} : want = (IF sess[s].want = 0 THEN size[s] ELSE sess[s].want) /\ want = size[s]
    BY <1>4, <2>0 DEF SessionOK, Sitting
  <2>2. PICK r : r = [sess[s] EXCEPT !.want = want]
    OBVIOUS
  <2>3. r \in Sitting /\ r.want = size[s] /\ r.st = sess[s].st /\ r.got = sess[s].got
    BY <2>0, <2>1, <2>2 DEF Sitting
  <2>4. sess' = [sess EXCEPT ![s] = r]
    BY <1>4, <2>1, <2>2
  <2>5. /\ sess' \in [Sessions -> Sitting \cup {Absent}] /\ sess'[s] = r /\ r # Absent
        /\ \A q \in Sessions \ {s} : sess'[q] = sess[q]
    BY <2>3, <2>4, AbsentIsNoSitting DEF IInv, Shapes
  <2>6. /\ thread' \in [Handlers -> Job \cup {Idle}] /\ thread'[h] # Idle
        /\ thread'[h].at = "count" /\ thread'[h].s = s /\ thread'[h].i = thread[h].i /\ thread'[h].live = thread[h].live
        /\ \A g \in Handlers \ {h} : thread'[g] = thread[g]
    BY <1>0, <1>1, <1>4, <2>0, SawStep DEF IInv, Shapes, UploadAts, Sitting
  <2>7. SessionOK(s)'
    BY <1>2, <1>4, <2>0, <2>3, <2>5 DEF SessionOK, ToPc, Have, Items
  <2>8. HandlerOK(h)'
    BY <1>0, <1>1, <1>2, <1>4, <2>0, <2>3, <2>5, <2>6 DEF HandlerOK, ToPc, Have, UploadAts, Written, Before, Counted
  <2>9. saved \in [Sessions -> SUBSET Nat] /\ saved[s] \subseteq Items(s)
    BY DEF IInv, Shapes
  <2> QED  BY <1>0, <1>1, <1>2, <1>4, <2>5, <2>6, <2>7, <2>8, <2>9, GoesOn DEF Kept
<1> QED
  BY <1>1, <1>3, <1>4 DEF Look

\* Count: the count catches up with an image that is saved.
LEMMA CountKeeps ==
  ASSUME IInv, NEW h \in Handlers, Count(h)
  PROVE  Kept'
<1>0. Busy(h) /\ thread[h].at = "count" /\ thread[h].at \in UploadAts /\ thread[h].at \in Written
  BY DEF Count, At, UploadAts, Written
<1>1. PICK s \in Sessions : s = thread[h].s
  BY <1>0, ServedRequest
<1>2. UNCHANGED <<flow, size, saved, phone>>
  BY DEF Count
<1>3. CASE Swallowed(h)
  BY <1>0, <1>2, <1>3, SwallowedKeeps
<1>4. CASE Have(s) /\ sess' = [sess EXCEPT ![s].got = @ + 1] /\ Goes(h, "move")
  <2>0. /\ ToPc(s) /\ thread[h] \in Job /\ HandlerOK(h) /\ SessionOK(s) /\ thread[h].i \in Items(s)
        /\ phone[s] \in Batch /\ sess[s] \in Sitting /\ Items(s) \subseteq Nat
    BY <1>0, <1>1, <1>4, ServedRequest
  <2>1. PICK r : r = [sess[s] EXCEPT !.got = sess[s].got + 1]
    OBVIOUS
  <2>2. r \in Sitting /\ r.want = sess[s].want /\ r.st = sess[s].st /\ r.got = sess[s].got + 1
    BY <2>0, <2>1 DEF Sitting
  <2>3. sess' = [sess EXCEPT ![s] = r]
    BY <1>4, <2>1
  <2>4. /\ sess' \in [Sessions -> Sitting \cup {Absent}] /\ sess'[s] = r /\ r # Absent
        /\ \A q \in Sessions \ {s} : sess'[q] = sess[q]
    BY <2>2, <2>3, AbsentIsNoSitting DEF IInv, Shapes
  <2>5. /\ thread' \in [Handlers -> Job \cup {Idle}] /\ thread'[h] # Idle
        /\ thread'[h].at = "move" /\ thread'[h].s = s /\ thread'[h].i = thread[h].i /\ thread'[h].live = thread[h].live
        /\ \A g \in Handlers \ {h} : thread'[g] = thread[g]
    BY <1>0, <1>1, <1>4, GoesStep DEF IInv, Shapes, UploadAts
  <2>6. ~phone[s].again => /\ phone[s].pc \in {"wait", "failed"} /\ phone[s].i = thread[h].i /\ r.got <= thread[h].i
                           /\ 1 .. r.got \subseteq saved[s] /\ sess[s].want = size[s]
    <3>1. SUFFICES ASSUME ~phone[s].again PROVE /\ phone[s].pc \in {"wait", "failed"} /\ phone[s].i = thread[h].i /\ r.got <= thread[h].i
                           /\ 1 .. r.got \subseteq saved[s] /\ sess[s].want = size[s]
      OBVIOUS
    <3>2. /\ phone[s].pc \in {"wait", "failed"} /\ phone[s].i = thread[h].i /\ sess[s].got < thread[h].i
          /\ sess[s].want = size[s] /\ thread[h].i \in saved[s]
      BY <1>0, <1>1, <1>4, <2>0, <3>1 DEF HandlerOK, Before, Counted
    <3>3. r.got \in Nat /\ r.got <= thread[h].i /\ thread[h].i \in Nat
      BY <2>0, <2>2, <3>2 DEF Sitting, Job
    <3>4. ASSUME NEW j \in 1 .. r.got
          PROVE  j \in saved[s]
      <4>1. j \in Items(s)
        BY <2>0, <3>3, Images DEF IInv, Shapes
      <4>2. j = thread[h].i \/ j < phone[s].i
        BY <2>0, <3>2, <3>3
      <4> QED  BY <2>0, <3>2, <4>1, <4>2 DEF SessionOK
    <3> QED  BY <3>2, <3>3, <3>4
  <2>7. SessionOK(s)'
    BY <1>2, <1>4, <2>0, <2>2, <2>4, <2>6 DEF SessionOK, ToPc, Have, Items
  <2>8. HandlerOK(h)'
    BY <1>0, <1>1, <1>2, <1>4, <2>0, <2>2, <2>4, <2>5, <2>6 DEF HandlerOK, ToPc, Have, UploadAts, Written, Before, Counted
  <2>9. saved \in [Sessions -> SUBSET Nat] /\ saved[s] \subseteq Items(s)
    BY DEF IInv, Shapes
  <2> QED  BY <1>0, <1>1, <1>2, <1>4, <2>4, <2>5, <2>7, <2>8, <2>9, GoesOn DEF Kept
<1> QED
  BY <1>1, <1>3, <1>4 DEF Count

\* DONE comes after DELIVERING only.
LEMMA AllowedOnly ==
  ASSUME NEW x \in States, "done" \in Allowed[x]
  PROVE  x = "delivering"
BY DEF States, Allowed

\* A transition that the registry makes or refuses.
LEMMA TransitionKeeps ==
  ASSUME IInv, NEW h \in Handlers, Busy(h), NEW st \in States, NEW then \in {"check", "done", "answer"},
         \/ thread[h].at = "move" /\ st = "transferring"
         \/ thread[h].at = "delivering" /\ st = "delivering"
         \/ thread[h].at = "done" /\ st = "done",
         Transition(h, st, then), UNCHANGED <<flow, size, saved, phone>>
  PROVE  Kept'
<1>0. thread[h].at \in UploadAts /\ thread[h].at \in Written /\ thread[h].at \in Counted
  BY DEF UploadAts, Written, Counted
<1>1. PICK s \in Sessions : s = thread[h].s
  BY <1>0, ServedRequest
<1>2. CASE Swallowed(h)
  BY <1>0, <1>2, SwallowedKeeps
<1>3. CASE Have(s) /\ st \in Allowed[sess[s].st] /\ sess' = [sess EXCEPT ![s].st = st] /\ Saw(h, "publish", st, then)
  <2>0. /\ ToPc(s) /\ thread[h] \in Job /\ HandlerOK(h) /\ SessionOK(s) /\ thread[h].i \in Items(s)
        /\ phone[s] \in Batch /\ sess[s] \in Sitting /\ Items(s) \subseteq Nat /\ size[s] \in Nat
    BY <1>0, <1>1, <1>3, ServedRequest
  <2>1. PICK r : r = [sess[s] EXCEPT !.st = st]
    OBVIOUS
  <2>2. r \in Sitting /\ r.want = sess[s].want /\ r.st = st /\ r.got = sess[s].got
    BY <2>0, <2>1 DEF Sitting
  <2>3. sess' = [sess EXCEPT ![s] = r]
    BY <1>3, <2>1
  <2>4. /\ sess' \in [Sessions -> Sitting \cup {Absent}] /\ sess'[s] = r /\ r # Absent
        /\ \A q \in Sessions \ {s} : sess'[q] = sess[q]
    BY <2>2, <2>3, AbsentIsNoSitting DEF IInv, Shapes
  <2>5. /\ thread' \in [Handlers -> Job \cup {Idle}] /\ thread'[h] # Idle
        /\ thread'[h].at = "publish" /\ thread'[h].s = s /\ thread'[h].i = thread[h].i /\ thread'[h].live = thread[h].live
        /\ thread'[h].old = st /\ thread'[h].then = then
        /\ \A g \in Handlers \ {h} : thread'[g] = thread[g]
    <3>1. "publish" \in UploadAts \cup ReaderAts /\ st \in States \cup {"none"} /\ then \in {"none", "check", "done", "answer"}
      BY DEF UploadAts
    <3>2. thread \in [Handlers -> Job \cup {Idle}]
      BY DEF IInv, Shapes
    <3> QED  BY <1>1, <1>3, <3>1, <3>2, SawStep
  <2>9. saved \in [Sessions -> SUBSET Nat] /\ saved[s] \subseteq Items(s)
    BY DEF IInv, Shapes
  <2>6. ASSUME ~phone[s].again, st \in {"delivering", "done"}
        PROVE  saved[s] = Items(s)
    <3>1. CASE thread[h].at = "delivering"
      <4>1. sess[s].want = size[s] /\ Complete(s) /\ 1 .. sess[s].got \subseteq saved[s] /\ thread[h].i \in saved[s]
        BY <1>0, <1>1, <1>3, <2>0, <2>6, <3>1 DEF HandlerOK, SessionOK
      <4>2. CASE size[s] = 0
        <5>1. Items(s) = {1}
          BY <4>2, Images DEF IInv, Shapes
        <5> QED  BY <2>0, <2>9, <4>1, <5>1
      <4>3. CASE size[s] # 0
        <5>1. Items(s) = 1 .. size[s] /\ sess[s].got >= size[s] /\ sess[s].got \in Nat
          BY <2>0, <4>1, <4>3, Images DEF IInv, Shapes, Complete, Sitting
        <5>2. 1 .. size[s] \subseteq 1 .. sess[s].got
          BY <2>0, <5>1
        <5> QED  BY <2>9, <4>1, <5>1, <5>2
      <4> QED  BY <4>2, <4>3
    <3>2. CASE thread[h].at = "done"
      <4>1. sess[s].st = "delivering"
        BY <1>3, <2>0, <3>2, AllowedOnly DEF Sitting
      <4> QED  BY <1>3, <2>0, <2>6, <4>1 DEF SessionOK
    <3> QED  BY <2>6, <3>1, <3>2
  <2>7. SessionOK(s)'
    BY <1>3, <2>0, <2>2, <2>4, <2>6 DEF SessionOK, ToPc, Have, Items
  <2>8. HandlerOK(h)'
    BY <1>0, <1>1, <1>3, <2>0, <2>2, <2>4, <2>5 DEF HandlerOK, ToPc, Have, UploadAts, Written, Before, Counted
  <2> QED  BY <1>0, <1>1, <1>3, <2>4, <2>5, <2>7, <2>8, <2>9, GoesOn DEF Kept
<1> QED
  BY <1>1, <1>2, <1>3 DEF Transition

\* Moves: the first image of a batch starts the transfer.
LEMMA MovesKeeps ==
  ASSUME IInv, NEW h \in Handlers, Moves(h)
  PROVE  Kept'
<1>0. Busy(h) /\ thread[h].at = "move" /\ thread[h].at \in UploadAts /\ thread[h].at \in Written
  BY DEF Moves, At, UploadAts, Written
<1>1. PICK s \in Sessions : s = thread[h].s
  BY <1>0, ServedRequest
<1>2. UNCHANGED <<flow, size, saved, phone>>
  BY DEF Moves
<1>3. CASE Transition(h, "transferring", "check")
  BY <1>0, <1>2, <1>3, TransitionKeeps DEF States
<1>4. CASE Swallowed(h)
  BY <1>0, <1>2, <1>4, SwallowedKeeps
<1>5. CASE Have(s) /\ Saw(h, "publish", sess[s].st, "check") /\ sess' = sess
  <2>0. sess[s] \in Sitting /\ sess[s].st \in States
    BY <1>0, <1>1, <1>5, ServedRequest DEF Sitting
  <2>1. /\ thread' \in [Handlers -> Job \cup {Idle}] /\ thread'[h] # Idle
        /\ thread'[h].at = "publish" /\ thread'[h].s = s /\ thread'[h].i = thread[h].i /\ thread'[h].live = thread[h].live
        /\ thread'[h].old = sess[s].st /\ thread'[h].then = "check"
        /\ \A g \in Handlers \ {h} : thread'[g] = thread[g]
    BY <1>0, <1>1, <1>5, <2>0, SawStep DEF IInv, Shapes, UploadAts
  <2>2. HandlerOK(h)'
    BY <1>0, <1>1, <1>2, <1>5, <2>1, ServedRequest DEF HandlerOK, ToPc, Have, UploadAts, Written, Before, Counted
  <2>3. SessionOK(s)'
    BY <1>2, <1>5, SessionSame DEF IInv
  <2>4. saved \in [Sessions -> SUBSET Nat] /\ saved[s] \subseteq Items(s) /\ sess \in [Sessions -> Sitting \cup {Absent}]
    BY DEF IInv, Shapes
  <2> QED  BY <1>0, <1>1, <1>2, <1>5, <2>0, <2>1, <2>2, <2>3, <2>4, GoesOn DEF Kept
<1> QED
  BY <1>1, <1>3, <1>4, <1>5 DEF Moves

\* Publish: the window changes.
LEMMA PublishKeeps ==
  ASSUME IInv, NEW h \in Handlers, Publish(h)
  PROVE  Kept'
<1>0. Busy(h) /\ thread[h].at = "publish" /\ thread[h].at \in UploadAts /\ thread[h].at \in Written
  BY DEF Publish, At, UploadAts, Written
<1>1. PICK s \in Sessions : s = thread[h].s
  BY <1>0, ServedRequest
<1>2. UNCHANGED <<flow, size, saved, phone, sess>>
  BY DEF Publish
<1>3. PICK then \in {"check", "done", "answer"} : then = thread[h].then
  BY <1>0, <1>1, ServedRequest DEF RequestOK, Job
<1>4. Saw(h, then, "none", "none")
  BY <1>3 DEF Publish
<1>5. /\ thread' \in [Handlers -> Job \cup {Idle}] /\ thread'[h] # Idle
      /\ thread'[h].at = then /\ thread'[h].s = s /\ thread'[h].i = thread[h].i /\ thread'[h].live = thread[h].live
      /\ \A g \in Handlers \ {h} : thread'[g] = thread[g]
  BY <1>0, <1>1, <1>4, SawStep DEF IInv, Shapes, UploadAts
<1>6. HandlerOK(h)'
  BY <1>0, <1>1, <1>2, <1>3, <1>5, ServedRequest DEF HandlerOK, ToPc, Have, UploadAts, Written, Before, Counted
<1>7. SessionOK(s)'
  BY <1>2, SessionSame DEF IInv
<1>8. saved \in [Sessions -> SUBSET Nat] /\ saved[s] \subseteq Items(s) /\ sess \in [Sessions -> Sitting \cup {Absent}]
  BY DEF IInv, Shapes
<1> QED
  BY <1>0, <1>1, <1>2, <1>3, <1>5, <1>6, <1>7, <1>8, GoesOn DEF Kept

\* Check: only a handler that saw the batch complete delivers.
LEMMA CheckKeeps ==
  ASSUME IInv, NEW h \in Handlers, Check(h)
  PROVE  Kept'
<1>0. Busy(h) /\ thread[h].at = "check" /\ thread[h].at \in UploadAts
  BY DEF Check, At, UploadAts
<1>1. PICK s \in Sessions : s = thread[h].s
  BY <1>0, ServedRequest
<1>2. UNCHANGED <<flow, size, saved, phone, sess>>
  BY DEF Check
<1>3. PICK at \in {"deliver", "answer"} : Goes(h, at)
  BY DEF Check
<1>4. at \in UploadAts \ {"publish"}
  BY DEF UploadAts
<1>5. HandlerOK(h)'
  BY <1>0, <1>1, <1>2, <1>3, <1>4, GoesStep, ServedRequest DEF IInv, Shapes, HandlerOK, Written, Before, Counted, UploadAts, ToPc, Have
<1> QED
  BY <1>0, <1>2, <1>3, <1>4, <1>5, GoesAlone

\* Deliver: the count is compared once more.
LEMMA DeliverKeeps ==
  ASSUME IInv, NEW h \in Handlers, Deliver(h)
  PROVE  Kept'
<1>0. Busy(h) /\ thread[h].at = "deliver" /\ thread[h].at \in UploadAts /\ thread[h].at \in Written
  BY DEF Deliver, At, UploadAts, Written
<1>1. PICK s \in Sessions : s = thread[h].s
  BY <1>0, ServedRequest
<1>2. UNCHANGED <<flow, size, saved, phone, sess>>
  BY DEF Deliver, Swallowed
<1>3. CASE Swallowed(h)
  BY <1>0, <1>2, <1>3, SwallowedKeeps
<1>4. CASE Complete(s) /\ thread' = [thread EXCEPT ![h].at = IF sess[s].st = "delivering" THEN "done" ELSE "delivering"]
  <2>1. PICK at \in {"done", "delivering"} : Goes(h, at)
    BY <1>4 DEF Goes
  <2>2. at \in UploadAts \ {"publish"}
    BY DEF UploadAts
  <2>3. HandlerOK(h)'
    BY <1>0, <1>1, <1>2, <1>4, <2>1, <2>2, GoesStep, ServedRequest
       DEF IInv, Shapes, HandlerOK, Written, Before, Counted, UploadAts, ToPc, Have, Complete
  <2> QED  BY <1>0, <1>2, <2>1, <2>2, <2>3, GoesAlone
<1> QED
  BY <1>1, <1>3, <1>4 DEF Deliver

\* All actions of an upload.
LEMMA UploadKeeps ==
  ASSUME IInv, NEW h \in Handlers, Upload(h)
  PROVE  Kept'
<1>1. CASE Delivering(h)
  BY <1>1, TransitionKeeps DEF Delivering, At, States
<1>2. CASE Done(h)
  BY <1>2, TransitionKeeps DEF Done, At, States
<1>3. CASE Delivered(h)
  <2>0. Busy(h) /\ thread[h].at = "answer" /\ thread[h].at \in UploadAts /\ thread[h].at \in Written /\ thread[h].at \notin Before
    BY <1>3 DEF Delivered, At, UploadAts, Written, Before
  <2>1. PICK s \in Sessions : s = thread[h].s
    BY <2>0, ServedRequest
  <2>2. ToPc(s) /\ thread[h].i \in saved[s]
    BY <2>0, <2>1, ServedRequest DEF HandlerOK
  <2> QED  BY <1>3, <2>0, <2>1, <2>2, EndsHere DEF Kept, Delivered
<1> QED
  BY <1>1, <1>2, <1>3, EnterKeeps, ReceiveKeeps, WriteKeeps, LookKeeps, CountKeeps, MovesKeeps, PublishKeeps, CheckKeeps, DeliverKeeps DEF Upload

-----------------------------------------------------------------------------
(* The phone, the clean-up and the readers. *)

\* Steps of other parts.
LEMMA NothingHere ==
  ASSUME IInv, UNCHANGED <<flow, size, sess, saved, phone, thread>>
  PROVE  Kept'
<1>1. Shapes'
  BY DEF IInv, Shapes, Busy, RequestOK, Items
<1>2. \A s \in Sessions : SessionOK(s)'
  BY SessionSame DEF IInv
<1>3. \A h \in Handlers : Busy(h)' => HandlerOK(h)'
  BY DEF IInv, HandlerOK, Busy, ToPc, Have, Complete
<1>4. Turns'
  BY DEF IInv, Turns, Serves, Busy, ToPc
<1> QED
  BY <1>1, <1>2, <1>3, <1>4 DEF Kept

\* The phone moves while no request of its own is at work.
LEMMA PhoneMoves ==
  ASSUME IInv, NEW s \in Sessions, ToPc(s), phone[s].pc \in {"idle", "hand", "apply", "confirm", "send"},
         UNCHANGED <<flow, size, saved, thread>>,
         phone' \in [Sessions -> Batch], \A r \in Sessions \ {s} : phone'[r] = phone[r],
         phone'[s].i \in Items(s), phone'[s].pc # "wait", phone[s].again => phone'[s].again,
         sess' \in [Sessions -> Sitting \cup {Absent}], \A r \in Sessions \ {s} : sess'[r] = sess[r],
         SessionOK(s)'
  PROVE  Kept'
<1>0. Shapes /\ Turns
  BY DEF IInv
<1>1. Shapes'
  <2>1. \A r \in Sessions : Items(r)' = Items(r)
    BY DEF Items
  <2>2. \A g \in Handlers : Busy(g)' => RequestOK(g)'
    BY <1>0 DEF Shapes, Busy, RequestOK, Items
  <2> QED  BY <1>0, <2>1, <2>2 DEF Shapes
<1>2. \A r \in Sessions : SessionOK(r)'
  BY SessionSame DEF IInv
<1>3. ASSUME NEW g \in Handlers, Busy(g)'
      PROVE  HandlerOK(g)'
  <2>1. Busy(g) /\ HandlerOK(g)
    BY <1>3 DEF Busy, IInv
  <2>2. PICK r \in Sessions : r = thread[g].s
    BY <1>0, <2>1, IdleIsNoJob DEF Shapes, Busy, Job
  <2>3. CASE r = s
    <3>1. ~thread[g].live /\ phone[s].again
      BY <2>1, <2>2, <2>3 DEF HandlerOK
    <3> QED  BY <2>1, <2>2, <2>3, <3>1, HandlerAgain
  <2>4. CASE r # s
    BY <2>1, <2>2, <2>4, HandlerSame
  <2> QED  BY <2>3, <2>4
<1>4. Turns'
  <2>1. \A g \in Handlers, r \in Sessions : Serves(g, r)' <=> Serves(g, r)
    BY DEF Serves, Busy
  <2>2. \A r \in Sessions : (phone[r].again => phone'[r].again) /\ (phone'[r].pc = "wait" => phone[r].pc = "wait")
    OBVIOUS
  <2>3. \A r : ToPc(r)' <=> ToPc(r)
    BY DEF ToPc
  <2>4. ASSUME NEW a \in Handlers, NEW b \in Handlers, NEW r \in Sessions, Serves(a, r)', Serves(b, r)',
               (thread'[a].live /\ thread'[b].live) \/ (ToPc(r)' /\ ~phone'[r].again)
        PROVE  a = b
    BY <1>0, <2>1, <2>2, <2>3, <2>4 DEF Turns
  <2>5. ASSUME NEW r \in Sessions, phone'[r].pc = "wait"
        PROVE  \E g \in Handlers : Serves(g, r)' /\ thread'[g].live
    BY <1>0, <2>1, <2>2, <2>5 DEF Turns
  <2> QED  BY <2>4, <2>5 DEF Turns
<1> QED
  BY <1>1, <1>2, <1>3, <1>4 DEF Kept

\* An answer before the upload leaves the batch where it is.
LEMMA AnswersStep ==
  ASSUME phone \in [Sessions -> Batch], NEW s \in Sessions, phone[s].pc \in {"hand", "apply", "confirm"},
         NEW pc \in {"apply", "confirm", "send"}, Answers(s, pc) \/ Steps(s, "failed")
  PROVE  /\ phone' \in [Sessions -> Batch] /\ \A r \in Sessions \ {s} : phone'[r] = phone[r]
         /\ phone'[s].pc \in {"hand", "apply", "confirm", "send", "failed"}
         /\ phone'[s].i = phone[s].i /\ phone'[s].again = phone[s].again
BY StepsStep DEF Answers

\* The phone before and between its uploads.
LEMMA PhoneKeeps ==
  ASSUME IInv, NEW s \in Sessions, Phone(s)
  PROVE  Kept'
<1>0. /\ Shapes /\ SessionOK(s) /\ phone[s] \in Batch /\ phone[s].i \in Items(s)
      /\ phone \in [Sessions -> Batch] /\ sess \in [Sessions -> Sitting \cup {Absent}]
      /\ 1 \in Items(s) /\ \A j \in Items(s) : j \in Nat /\ 1 <= j
  BY Images DEF IInv, Shapes
<1>1. UNCHANGED <<flow, size, saved, thread>>
  BY DEF Phone, Share, Handshake, Apply, Confirm, NoRoute
<1>2. CASE Share(s)
  <2>1. PICK pc \in {"hand", "send"} : Steps(s, pc)
    BY <1>2 DEF Share
  <2>2. /\ phone' \in [Sessions -> Batch] /\ \A r \in Sessions \ {s} : phone'[r] = phone[r]
        /\ phone'[s].pc = pc /\ phone'[s].i = phone[s].i /\ phone'[s].again = phone[s].again
    BY <1>0, <2>1, StepsStep
  <2>3. ToPc(s) /\ phone[s].pc = "idle" /\ sess' = sess
    BY <1>2 DEF Share
  <2>4. SessionOK(s)'
    BY <1>0, <1>1, <2>2, <2>3 DEF SessionOK, ToPc, Have, Items
  <2> QED  BY <1>0, <1>1, <2>2, <2>3, <2>4, PhoneMoves
<1>3. CASE NoRoute(s)
  <2>1. NextHost(s) /\ phone[s].pc = "send" /\ sess' = sess
    BY <1>3 DEF NoRoute
  <2>2. /\ phone' \in [Sessions -> Batch] /\ \A r \in Sessions \ {s} : phone'[r] = phone[r]
        /\ \/ phone'[s].pc = "send" /\ phone'[s].i = 1 /\ phone'[s].again = TRUE
           \/ phone'[s].pc = "failed" /\ phone'[s].i = phone[s].i /\ phone'[s].again = phone[s].again
    BY <1>0, <2>1, NextHostStep
  <2>3. ToPc(s)
    BY <1>0, <2>1 DEF SessionOK
  <2>4. SessionOK(s)'
    <3>1. CASE phone'[s].pc = "send" /\ phone'[s].i = 1 /\ phone'[s].again = TRUE
      BY <1>0, <1>1, <2>1, <2>3, <3>1 DEF SessionOK, ToPc, Have, Items
    <3>2. CASE phone'[s].pc = "failed" /\ phone'[s].i = phone[s].i /\ phone'[s].again = phone[s].again
      BY <1>0, <1>1, <2>1, <2>3, <3>2 DEF SessionOK, ToPc, Have, Items
    <3> QED  BY <2>2, <3>1, <3>2
  <2>5. phone'[s].i \in Items(s) /\ phone'[s].pc # "wait" /\ (phone[s].again => phone'[s].again)
    BY <1>0, <2>2
  <2> QED  BY <1>0, <1>1, <2>1, <2>2, <2>3, <2>4, <2>5, PhoneMoves
<1>4. CASE Handshake(s) \/ Apply(s) \/ Confirm(s)
  <2>1. /\ phone[s].pc \in {"hand", "apply", "confirm"}
        /\ \E pc \in {"apply", "confirm", "send"} : Answers(s, pc) \/ Steps(s, "failed")
    BY <1>4 DEF Handshake, Apply, Confirm
  <2>2. /\ phone' \in [Sessions -> Batch] /\ \A r \in Sessions \ {s} : phone'[r] = phone[r]
        /\ phone'[s].pc \in {"hand", "apply", "confirm", "send", "failed"}
        /\ phone'[s].i = phone[s].i /\ phone'[s].again = phone[s].again
    BY <1>0, <2>1, AnswersStep
  <2>3. ToPc(s)
    BY <1>0, <2>1 DEF SessionOK
  <2>4. CASE sess' = sess
    <3>1. SessionOK(s)'
      BY <1>0, <1>1, <2>1, <2>2, <2>3, <2>4 DEF SessionOK, ToPc, Have, Items
    <3> QED  BY <1>0, <1>1, <2>1, <2>2, <2>3, <2>4, <3>1, PhoneMoves
  <2>5. CASE ~Have(s) /\ sess' = [sess EXCEPT ![s] = [st |-> "negotiating", want |-> 0, got |-> 0]]
    <3>1. PICK r : r = [st |-> "negotiating", want |-> 0, got |-> 0]
      OBVIOUS
    <3>2. r \in Sitting /\ r.st = "negotiating" /\ r.want = 0 /\ r.got = 0
      BY <3>1 DEF Sitting, States
    <3>3. /\ sess' \in [Sessions -> Sitting \cup {Absent}] /\ sess'[s] = r /\ r # Absent
          /\ \A q \in Sessions \ {s} : sess'[q] = sess[q]
      BY <1>0, <2>5, <3>1, <3>2, AbsentIsNoSitting
    <3>4. 1 .. r.got = {} /\ r.got < phone[s].i
      BY <1>0, <3>2
    <3>5. SessionOK(s)'
      BY <1>0, <1>1, <2>1, <2>2, <2>3, <3>2, <3>3, <3>4 DEF SessionOK, ToPc, Have, Items
    <3> QED  BY <1>0, <1>1, <2>1, <2>2, <2>3, <3>3, <3>5, PhoneMoves
  <2> QED  BY <1>4, <2>4, <2>5 DEF Handshake, Apply, Confirm
<1> QED
  BY <1>2, <1>3, <1>4 DEF Phone

\* The registry forgets a session that is done.
LEMMA CleanupKeeps ==
  ASSUME IInv, NEW s \in Sessions, Cleanup(s)
  PROVE  Kept'
<1>0. Shapes /\ Turns /\ SessionOK(s)
  BY DEF IInv
<1>1. UNCHANGED <<flow, size, saved, phone, thread>> /\ sess' = [sess EXCEPT ![s] = Absent] /\ Have(s)
  BY DEF Cleanup
<1>2. /\ sess' \in [Sessions -> Sitting \cup {Absent}] /\ sess'[s] = Absent
      /\ \A r \in Sessions \ {s} : sess'[r] = sess[r]
  BY <1>0, <1>1 DEF Shapes
<1>3. Shapes'
  <2>1. \A r \in Sessions : Items(r)' = Items(r)
    BY <1>1 DEF Items
  <2>2. \A g \in Handlers : Busy(g)' => RequestOK(g)'
    BY <1>0, <1>1 DEF Shapes, Busy, RequestOK, Items
  <2> QED  BY <1>0, <1>1, <1>2, <2>1, <2>2 DEF Shapes
<1>4. SessionOK(s)'
  BY <1>0, <1>1, <1>2 DEF SessionOK, ToPc, Have, Items
<1>5. \A r \in Sessions : SessionOK(r)'
  BY <1>1, <1>2, <1>4, SessionSame DEF IInv
<1>6. ASSUME NEW g \in Handlers, Busy(g)'
      PROVE  HandlerOK(g)'
  <2>1. Busy(g) /\ HandlerOK(g)
    BY <1>1, <1>6 DEF Busy, IInv
  <2>2. PICK r \in Sessions : r = thread[g].s
    BY <1>0, <2>1, IdleIsNoJob DEF Shapes, Busy, Job
  <2>3. CASE r = s
    BY <1>1, <1>2, <2>1, <2>2, <2>3 DEF HandlerOK, ToPc, Have
  <2>4. CASE r # s
    BY <1>1, <1>2, <2>1, <2>2, <2>4, HandlerSame
  <2> QED  BY <2>3, <2>4
<1>7. Turns'
  BY <1>0, <1>1 DEF Turns, Serves, Busy, ToPc
<1> QED
  BY <1>3, <1>5, <1>6, <1>7 DEF Kept

\* The phone gives the request up; the handler works on for nobody.
LEMMA TimesOutKeeps ==
  ASSUME IInv, NEW h \in Handlers, TimesOut(h)
  PROVE  Kept'
<1>0. Shapes /\ Turns /\ Busy(h) /\ HandlerOK(h) /\ thread[h].live /\ thread[h] \in Job
  BY IdleIsNoJob DEF IInv, Shapes, TimesOut, Busy
<1>1. PICK s \in Sessions : s = thread[h].s
  BY <1>0 DEF Job
<1>2. UNCHANGED <<flow, size, saved, sess>> /\ NextHost(s) /\ thread' = [thread EXCEPT ![h].live = FALSE]
  BY <1>1 DEF TimesOut
<1>3. PICK t : t = [thread[h] EXCEPT !.live = FALSE]
  OBVIOUS
<1>4. t \in Job /\ t.at = thread[h].at /\ t.s = s /\ t.i = thread[h].i /\ t.live = FALSE /\ t.old = thread[h].old /\ t.then = thread[h].then
  BY <1>0, <1>1, <1>3 DEF Job
<1>5. /\ thread' \in [Handlers -> Job \cup {Idle}] /\ thread'[h] = t /\ t # Idle
      /\ \A g \in Handlers \ {h} : thread'[g] = thread[g]
  BY <1>0, <1>2, <1>3, <1>4, IdleIsNoJob DEF Shapes
<1>6. /\ phone' \in [Sessions -> Batch] /\ \A r \in Sessions \ {s} : phone'[r] = phone[r]
      /\ \/ phone'[s].pc = "send" /\ phone'[s].i = 1 /\ phone'[s].again = TRUE
         \/ phone'[s].pc = "failed" /\ phone'[s].i = phone[s].i /\ phone'[s].again = phone[s].again
  BY <1>0, <1>2, NextHostStep DEF Shapes
<1>7. /\ SessionOK(s) /\ ToPc(s) /\ phone[s].pc = "wait" /\ phone[s].i = thread[h].i
      /\ 1 \in Items(s) /\ \A j \in Items(s) : j \in Nat /\ 1 <= j
  BY <1>0, <1>1, Images DEF IInv, Shapes, HandlerOK
<1>8. \A g \in Handlers : Busy(g)' <=> Busy(g)
  BY <1>0, <1>5 DEF Busy
<1>9. Shapes'
  <2>1. \A r \in Sessions : Items(r)' = Items(r)
    BY <1>2 DEF Items
  <2>2. ASSUME NEW g \in Handlers, Busy(g)'
        PROVE  RequestOK(g)'
    <3>1. RequestOK(g)
      BY <1>0, <1>8, <2>2 DEF Shapes
    <3>2. thread'[g].i = thread[g].i /\ thread'[g].s = thread[g].s /\ thread'[g].at = thread[g].at
          /\ thread'[g].old = thread[g].old /\ thread'[g].then = thread[g].then
      BY <1>1, <1>4, <1>5
    <3> QED  BY <1>2, <3>1, <3>2 DEF RequestOK, Items
  <2>3. \A r \in Sessions : phone'[r].i \in Items(r)
    BY <1>0, <1>6, <1>7 DEF Shapes
  <2> QED  BY <1>0, <1>2, <1>5, <1>6, <2>1, <2>2, <2>3 DEF Shapes
<1>10. SessionOK(s)'
  <2>1. CASE phone'[s].pc = "send" /\ phone'[s].i = 1 /\ phone'[s].again = TRUE
    BY <1>2, <1>7, <2>1 DEF SessionOK, ToPc, Have, Items
  <2>2. CASE phone'[s].pc = "failed" /\ phone'[s].i = phone[s].i /\ phone'[s].again = phone[s].again
    BY <1>2, <1>7, <2>2 DEF SessionOK, ToPc, Have, Items
  <2> QED  BY <1>6, <2>1, <2>2
<1>11. \A r \in Sessions : SessionOK(r)'
  BY <1>2, <1>6, <1>10, SessionSame DEF IInv
<1>12. HandlerOK(h)'
  <2>1. CASE phone'[s].again
    BY <1>0, <1>1, <1>2, <1>4, <1>5, <2>1 DEF HandlerOK, ToPc
  <2>2. CASE phone'[s].pc = "failed" /\ phone'[s].i = phone[s].i /\ phone'[s].again = phone[s].again
    BY <1>0, <1>1, <1>2, <1>4, <1>5, <1>7, <2>2 DEF HandlerOK, ToPc, Have, Complete
  <2> QED  BY <1>6, <2>1, <2>2
<1>13. phone[s].again => phone'[s].again
  BY <1>6
<1>14. ASSUME NEW g \in Handlers, Busy(g)'
       PROVE  HandlerOK(g)'
  <2>1. CASE g = h
    BY <1>12, <2>1
  <2>2. CASE g # h
    <3>1. thread'[g] = thread[g] /\ Busy(g) /\ HandlerOK(g)
      BY <1>5, <1>8, <1>14, <2>2 DEF IInv
    <3>2. PICK r \in Sessions : r = thread[g].s
      BY <1>0, <3>1, IdleIsNoJob DEF Shapes, Busy, Job
    <3>3. CASE r = s
      <4>1. phone[s].again /\ ~thread[g].live
        BY <1>0, <1>1, <1>7, <2>2, <3>1, <3>2, <3>3 DEF Turns, Serves
      <4> QED  BY <1>2, <1>13, <3>1, <3>2, <3>3, <4>1, HandlerAgain
    <3>4. CASE r # s
      BY <1>2, <1>6, <3>1, <3>2, <3>4, HandlerSame
    <3> QED  BY <3>3, <3>4
  <2> QED  BY <2>1, <2>2
<1>15. Turns'
  <2>1. \A g \in Handlers, r \in Sessions : Serves(g, r)' <=> Serves(g, r)
    BY <1>1, <1>4, <1>5, <1>8 DEF Serves
  <2>2. \A r \in Sessions : phone[r].again => phone'[r].again
    BY <1>6, <1>13
  <2>3. \A g \in Handlers : thread'[g].live => thread[g].live
    BY <1>0, <1>5
  <2>4. \A r : ToPc(r)' <=> ToPc(r)
    BY <1>2 DEF ToPc
  <2>5. ASSUME NEW a \in Handlers, NEW b \in Handlers, NEW r \in Sessions, Serves(a, r)', Serves(b, r)',
               (thread'[a].live /\ thread'[b].live) \/ (ToPc(r)' /\ ~phone'[r].again)
        PROVE  a = b
    BY <1>0, <2>1, <2>2, <2>3, <2>4, <2>5 DEF Turns
  <2>6. ASSUME NEW r \in Sessions, phone'[r].pc = "wait"
        PROVE  \E g \in Handlers : Serves(g, r)' /\ thread'[g].live
    <3>1. r # s /\ phone[r].pc = "wait"
      BY <1>6, <2>6
    <3>2. PICK g \in Handlers : Serves(g, r) /\ thread[g].live
      BY <1>0, <3>1 DEF Turns
    <3>3. g # h
      BY <1>1, <3>1, <3>2 DEF Serves
    <3> QED  BY <1>5, <2>1, <3>2, <3>3
  <2> QED  BY <2>5, <2>6 DEF Turns
<1> QED
  BY <1>9, <1>11, <1>14, <1>15 DEF Kept

\* A new request.
LEMMA RequestIsJob ==
  ASSUME NEW at \in UploadAts \cup ReaderAts, NEW s \in Sessions, NEW i \in Nat
  PROVE  /\ Request(at, s, i) \in Job /\ Request(at, s, i).at = at /\ Request(at, s, i).s = s
         /\ Request(at, s, i).i = i /\ Request(at, s, i).live = ToPc(s)
BY DEF Request, Job, ToPc, States

\* A new upload is the only one of a phone that did not start again.
LEMMA SendKeeps ==
  ASSUME IInv, NEW s \in Sessions, NEW h \in Handlers, Send(s, h)
  PROVE  Kept'
<1>0. /\ Shapes /\ Turns /\ SessionOK(s) /\ ~Busy(h) /\ phone[s].pc = "send" /\ Steps(s, "wait")
      /\ UNCHANGED <<flow, size, saved, sess>> /\ phone[s].i \in Items(s) /\ phone[s] \in Batch
      /\ thread' = [thread EXCEPT ![h] = Request("enter", s, phone[s].i)]
  BY DEF IInv, Shapes, Send
<1>1. ToPc(s)
  BY <1>0 DEF SessionOK
<1>2. PICK t : t = Request("enter", s, phone[s].i)
  OBVIOUS
<1>3. t \in Job /\ t.at = "enter" /\ t.s = s /\ t.i = phone[s].i /\ t.live = TRUE
  BY <1>0, <1>1, <1>2, RequestIsJob DEF Batch, UploadAts
<1>4. /\ thread' \in [Handlers -> Job \cup {Idle}] /\ thread'[h] = t /\ t # Idle
      /\ \A g \in Handlers \ {h} : thread'[g] = thread[g]
  BY <1>0, <1>2, <1>3, IdleIsNoJob DEF Shapes
<1>5. /\ phone' \in [Sessions -> Batch] /\ \A r \in Sessions \ {s} : phone'[r] = phone[r]
      /\ phone'[s].pc = "wait" /\ phone'[s].i = phone[s].i /\ phone'[s].again = phone[s].again
  BY <1>0, StepsStep DEF Shapes
<1>6. Shapes'
  <2>1. \A r \in Sessions : Items(r)' = Items(r)
    BY <1>0 DEF Items
  <2>2. ASSUME NEW g \in Handlers, Busy(g)'
        PROVE  RequestOK(g)'
    <3>1. CASE g = h
      BY <1>0, <1>3, <1>4, <3>1 DEF RequestOK, Items
    <3>2. CASE g # h
      BY <1>0, <1>4, <2>2, <3>2 DEF Shapes, Busy, RequestOK, Items
    <3> QED  BY <3>1, <3>2
  <2>3. \A r \in Sessions : phone'[r].i \in Items(r)
    BY <1>0, <1>5 DEF Shapes
  <2> QED  BY <1>0, <1>4, <1>5, <2>1, <2>2, <2>3 DEF Shapes
<1>7. SessionOK(s)'
  BY <1>0, <1>1, <1>5 DEF SessionOK, ToPc, Have, Items
<1>8. \A r \in Sessions : SessionOK(r)'
  BY <1>0, <1>5, <1>7, SessionSame DEF IInv
<1>9. HandlerOK(h)'
  <2>1. Have(s) => sess[s] \in Sitting
    BY <1>0, AbsentIsNoSitting DEF Shapes, Have
  <2>2. Have(s) /\ ~phone[s].again => sess[s].got < phone[s].i /\ sess[s].got <= phone[s].i
    BY <1>0, <2>1 DEF SessionOK, Sitting, Batch
  <2> QED  BY <1>0, <1>1, <1>3, <1>4, <1>5, <2>2 DEF HandlerOK, ToPc, Have, UploadAts, Written, Before, Counted
<1>10. ASSUME NEW g \in Handlers, g # h, Busy(g)'
       PROVE  /\ Busy(g) /\ thread'[g] = thread[g] /\ HandlerOK(g)
              /\ thread[g].s = s => ~thread[g].live /\ phone[s].again
  BY <1>0, <1>1, <1>4, <1>10 DEF Busy, IInv, HandlerOK
<1>11. ASSUME NEW g \in Handlers, Busy(g)'
       PROVE  HandlerOK(g)'
  <2>1. CASE g = h
    BY <1>9, <2>1
  <2>2. CASE g # h
    <3>1. Busy(g) /\ thread'[g] = thread[g] /\ HandlerOK(g) /\ (thread[g].s = s => ~thread[g].live /\ phone[s].again)
      BY <1>10, <1>11, <2>2
    <3>2. PICK r \in Sessions : r = thread[g].s
      BY <1>0, <3>1, IdleIsNoJob DEF Shapes, Busy, Job
    <3>3. CASE r = s
      BY <1>0, <1>5, <3>1, <3>2, <3>3, HandlerAgain
    <3>4. CASE r # s
      BY <1>0, <1>5, <3>1, <3>2, <3>4, HandlerSame
    <3> QED  BY <3>3, <3>4
  <2> QED  BY <2>1, <2>2
<1>12. Turns'
  <2>1. ASSUME NEW a \in Handlers, NEW b \in Handlers, NEW r \in Sessions, Serves(a, r)', Serves(b, r)',
               (thread'[a].live /\ thread'[b].live) \/ (ToPc(r)' /\ ~phone'[r].again)
        PROVE  a = b
    <3>1. CASE a # h /\ b # h
      <4>1. Serves(a, r) /\ Serves(b, r) /\ thread'[a] = thread[a] /\ thread'[b] = thread[b]
        BY <1>4, <2>1, <3>1 DEF Serves, Busy
      <4>2. ToPc(r)' /\ ~phone'[r].again => ToPc(r) /\ ~phone[r].again
        BY <1>0, <1>5 DEF ToPc
      <4> QED  BY <1>0, <2>1, <4>1, <4>2 DEF Turns
    <3>2. CASE a = h \/ b = h
      <4>1. r = s
        BY <1>3, <1>4, <2>1, <3>2 DEF Serves
      <4>2. phone'[s].again = phone[s].again
        BY <1>5
      <4> QED  BY <1>10, <1>4, <2>1, <3>2, <4>1, <4>2 DEF Serves
    <3> QED  BY <3>1, <3>2
  <2>2. ASSUME NEW r \in Sessions, phone'[r].pc = "wait"
        PROVE  \E g \in Handlers : Serves(g, r)' /\ thread'[g].live
    <3>1. CASE r = s
      BY <1>3, <1>4, <3>1 DEF Serves, Busy
    <3>2. CASE r # s
      <4>1. PICK g \in Handlers : Serves(g, r) /\ thread[g].live
        BY <1>0, <1>5, <2>2, <3>2 DEF Turns
      <4>2. g # h
        BY <1>0, <4>1 DEF Serves
      <4> QED  BY <1>4, <4>1, <4>2 DEF Serves, Busy
    <3> QED  BY <3>1, <3>2
  <2> QED  BY <2>1, <2>2 DEF Turns
<1> QED
  BY <1>6, <1>8, <1>11, <1>12 DEF Kept

\* A reader of a stash neither waits for the phone's upload nor touches it.
LEMMA ReaderMoves ==
  ASSUME IInv, NEW h \in Handlers, Busy(h) => thread[h].at \in ReaderAts,
         UNCHANGED <<flow, size, sess, saved, phone>>,
         thread' \in [Handlers -> Job \cup {Idle}], \A g \in Handlers \ {h} : thread'[g] = thread[g],
         \/ thread'[h] = Idle
         \/ /\ thread'[h] # Idle /\ thread'[h].at \in ReaderAts /\ ~thread'[h].live
            /\ ~ToPc(thread'[h].s) /\ thread'[h].i \in Items(thread'[h].s)
  PROVE  Kept'
<1>0. Shapes /\ Turns /\ (Busy(h) => ~thread[h].live)
  <2>1. ReaderAts \cap UploadAts = {}
    BY DEF ReaderAts, UploadAts
  <2> QED  BY <2>1 DEF IInv, HandlerOK
<1>1. PICK t : t = thread'[h]
  OBVIOUS
<1>2. \/ t = Idle
      \/ /\ t # Idle /\ t \in Job /\ t.at \in ReaderAts /\ ~t.live /\ flow[t.s] = "to_phone" /\ t.i \in Items(t.s)
  BY <1>0, <1>1 DEF ToPc, Shapes
<1>3. Shapes'
  <2>1. \A r \in Sessions : Items(r)' = Items(r)
    BY DEF Items
  <2>2. ASSUME NEW g \in Handlers, Busy(g)'
        PROVE  RequestOK(g)'
    <3>1. CASE g = h
      BY <1>1, <1>2, <2>2, <3>1 DEF RequestOK, Items, ReaderAts, Busy
    <3>2. CASE g # h
      BY <1>0, <2>2, <3>2 DEF Shapes, Busy, RequestOK, Items
    <3> QED  BY <3>1, <3>2
  <2> QED  BY <1>0, <2>1, <2>2 DEF Shapes
<1>4. \A r \in Sessions : SessionOK(r)'
  BY SessionSame DEF IInv
<1>5. ASSUME NEW g \in Handlers, Busy(g)'
      PROVE  HandlerOK(g)'
  <2>1. CASE g = h
    BY <1>1, <1>2, <1>5, <2>1 DEF HandlerOK, ToPc, ReaderAts, UploadAts, Written, Busy
  <2>2. CASE g # h
    <3>1. Busy(g) /\ thread'[g] = thread[g] /\ HandlerOK(g)
      BY <1>5, <2>2 DEF Busy, IInv
    <3>2. PICK r \in Sessions : r = thread[g].s
      BY <1>0, <3>1, IdleIsNoJob DEF Shapes, Busy, Job
    <3> QED  BY <3>1, <3>2, HandlerSame
  <2> QED  BY <2>1, <2>2
<1>6. Turns'
  <2>1. ASSUME NEW a \in Handlers, NEW b \in Handlers, NEW r \in Sessions, Serves(a, r)', Serves(b, r)',
               (thread'[a].live /\ thread'[b].live) \/ (ToPc(r)' /\ ~phone'[r].again)
        PROVE  a = b
    <3>1. a # h /\ b # h
      BY <1>1, <1>2, <2>1 DEF Serves, Busy, ToPc
    <3>2. Serves(a, r) /\ Serves(b, r) /\ thread'[a] = thread[a] /\ thread'[b] = thread[b] /\ (ToPc(r)' <=> ToPc(r))
      BY <2>1, <3>1 DEF Serves, Busy, ToPc
    <3> QED  BY <1>0, <2>1, <3>2 DEF Turns
  <2>2. ASSUME NEW r \in Sessions, phone'[r].pc = "wait"
        PROVE  \E g \in Handlers : Serves(g, r)' /\ thread'[g].live
    <3>1. PICK g \in Handlers : Serves(g, r) /\ thread[g].live
      BY <1>0, <2>2 DEF Turns
    <3>2. g # h
      BY <1>0, <3>1 DEF Serves
    <3> QED  BY <3>1, <3>2 DEF Serves, Busy
  <2> QED  BY <2>1, <2>2 DEF Turns
<1> QED
  BY <1>3, <1>4, <1>5, <1>6 DEF Kept

\* A new reader of a stash.
LEMMA BeginKeeps ==
  ASSUME IInv, NEW s \in Sessions, NEW h \in Handlers, Begin(s, h)
  PROVE  Kept'
<1>0. ~Busy(h) /\ ~ToPc(s) /\ Shapes /\ UNCHANGED <<flow, size, sess, saved, phone>> /\ Items(s) \subseteq Nat
  BY Images DEF IInv, Begin, MayRead, Shapes
<1>1. PICK at \in {"manifest", "open"}, i \in Items(s) : thread' = [thread EXCEPT ![h] = Request(at, s, i)]
  BY DEF Begin
<1>2. PICK t : t = Request(at, s, i)
  OBVIOUS
<1>3. t \in Job /\ t.at \in ReaderAts /\ t.s = s /\ t.i = i /\ ~t.live
  <2>1. at \in ReaderAts /\ i \in Nat
    BY <1>0 DEF ReaderAts
  <2>2. t \in Job /\ t.at = at /\ t.s = s /\ t.i = i /\ t.live = ToPc(s)
    BY <1>2, <2>1, RequestIsJob
  <2> QED  BY <1>0, <2>1, <2>2
<1>4. /\ thread' \in [Handlers -> Job \cup {Idle}] /\ thread'[h] = t /\ t # Idle
      /\ \A g \in Handlers \ {h} : thread'[g] = thread[g]
  BY <1>0, <1>1, <1>2, <1>3, IdleIsNoJob DEF Shapes
<1> QED
  BY <1>0, <1>3, <1>4, ReaderMoves

\* The steps of a reader.
LEMMA ReaderKeeps ==
  ASSUME IInv, NEW h \in Handlers, Reader(h)
  PROVE  Kept'
<1>0. Busy(h) /\ thread[h].at \in ReaderAts /\ UNCHANGED <<flow, size, sess, saved, phone>> /\ Shapes
  BY DEF IInv, Reader, Manifest, ManifestTime, Open, Read, Claim, Notice, At, ReaderAts
<1>1. thread[h] \in Job /\ HandlerOK(h) /\ RequestOK(h)
  BY <1>0, IdleIsNoJob DEF IInv, Shapes, Busy
<1>2. ~ToPc(thread[h].s) /\ ~thread[h].live /\ thread[h].i \in Items(thread[h].s)
  BY <1>0, <1>1 DEF HandlerOK, RequestOK, ReaderAts, UploadAts
<1>3. CASE Ends(h)
  BY <1>0, <1>3, ReaderMoves DEF Ends, Shapes
<1>4. CASE \E at \in {"time", "read", "claim", "notice"} : Goes(h, at)
  <2>1. PICK at \in {"time", "read", "claim", "notice"} : Goes(h, at)
    BY <1>4
  <2>2. at \in ReaderAts
    BY DEF ReaderAts
  <2> QED  BY <1>0, <1>2, <2>1, <2>2, GoesStep, ReaderMoves DEF Shapes
<1> QED
  BY <1>3, <1>4 DEF Reader, Manifest, ManifestTime, Open, Read, Claim, Notice

-----------------------------------------------------------------------------
(* The types of the rest. *)

\* The window shows one of its phases.
LEMMA ShowStep ==
  ASSUME Views, NEW s \in Sessions, NEW st \in States, Show(s, st)
  PROVE  shown' \in [Sessions -> {"none", "waiting", "pin", "transferring", "delivering", "success", "aborted"}]
<1>1. Phase(st) \in {"waiting", "transferring", "delivering", "success"}
  BY DEF Phase, States
<1> QED
  BY <1>1 DEF Show, Views

\* Uploads change the window only.
LEMMA ViewsUpload ==
  ASSUME IInv, NEW h \in Handlers, Upload(h)
  PROVE  Views'
<1>0. PICK s \in Sessions : s = thread[h].s
  <2>1. Busy(h)
    BY DEF Upload, Enter, Receive, Write, Look, Count, Moves, Publish, Check, Deliver, Delivering, Done, Delivered, At
  <2> QED  BY <2>1, IdleIsNoJob DEF IInv, Shapes, Busy, Job
<1>1. UNCHANGED <<trust, sharing, others, size>>
  BY DEF Upload, Enter, Receive, Write, Look, Count, Moves, Publish, Check, Deliver, Delivering, Done, Delivered
<1>2. CASE shown' = shown
  BY <1>1, <1>2 DEF IInv, Views, Files, Items
<1>3. CASE \E st \in States : Show(s, st)
  BY <1>1, <1>3, ShowStep DEF IInv, Views, Files, Items
<1>4. (\E st \in States : Show(s, st)) \/ shown' = shown
  <2>1. CASE Enter(h)
    BY <1>0, <2>1 DEF Enter, States
  <2>2. CASE Publish(h)
    <3>1. Busy(h) /\ thread[h].at = "publish" /\ Show(s, thread[h].old)
      BY <1>0, <2>2 DEF Publish, At
    <3>2. thread[h].old \in States
      BY <3>1 DEF IInv, Shapes, RequestOK
    <3> QED  BY <3>1, <3>2
  <2> QED
    BY <2>1, <2>2 DEF Upload, Receive, Write, Look, Count, Moves, Check, Deliver, Delivering, Done, Delivered, Transition, Swallowed
<1> QED
  BY <1>2, <1>3, <1>4

\* The phone's requests change the trust session and the window.
LEMMA ViewsPhone ==
  ASSUME IInv, NEW s \in Sessions, Phone(s) \/ CloseWindow(s) \/ CancelInWindow(s) \/ Cleanup(s)
  PROVE  Views'
<1>0. UNCHANGED <<sharing, others, size>> /\ Views
  BY DEF IInv, Phone, Share, Handshake, Apply, Confirm, NoRoute, CloseWindow, CancelInWindow, Cleanup
<1>1. trust' \in [Sessions -> {"none", "fresh", "keyed", "pin", "trusted"}]
  BY <1>0 DEF Views, Phone, Share, Handshake, Apply, Confirm, NoRoute, CloseWindow, CancelInWindow, Cleanup, Keys, Trusts
<1>2. shown' \in [Sessions -> {"none", "waiting", "pin", "transferring", "delivering", "success", "aborted"}]
  <2>1. CASE Handshake(s)
    BY <1>0, <2>1, ShowStep DEF Handshake, Views, States
  <2>2. CASE Apply(s)
    BY <1>0, <2>2 DEF Apply, ShowPin, Views
  <2> QED
    BY <1>0, <2>1, <2>2 DEF Views, Phone, Share, Confirm, NoRoute, CloseWindow, CancelInWindow, Cleanup
<1> QED
  BY <1>0, <1>1, <1>2 DEF Views, Files, Items

\* The window with the code is told once.
LEMMA NotifyStep ==
  ASSUME Views, NEW s \in Sessions, NEW what \in {"claimed", "expired"}, Notify(s, what)
  PROVE  qr' \in [Sessions -> {"none", "shown", "claimed", "expired", "cancelled"}]
BY DEF Notify, Views

\* Readers change the window with the code.
LEMMA ViewsReader ==
  ASSUME IInv, NEW h \in Handlers, Reader(h)
  PROVE  Views'
<1>0. UNCHANGED <<receiving, late, gone, peer>> /\ Views
  BY DEF IInv, Reader, Manifest, ManifestTime, Open, Read, Claim, Notice
<1>1. PICK s \in Sessions : s = thread[h].s
  <2>1. Busy(h)
    BY DEF Reader, Manifest, ManifestTime, Open, Read, Claim, Notice, At
  <2> QED  BY <2>1, IdleIsNoJob DEF IInv, Shapes, Busy, Job
<1>2. qr' = qr \/ \E what \in {"claimed", "expired"} : Notify(s, what)
  BY <1>1 DEF Reader, Manifest, ManifestTime, Open, Read, Claim, Notice, Invalidate
<1>3. qr' \in [Sessions -> {"none", "shown", "claimed", "expired", "cancelled"}]
  BY <1>0, <1>2, NotifyStep DEF Views
<1> QED
  BY <1>0, <1>3 DEF Views, Files, Items

\* The stash, its peer and its timer.
LEMMA ViewsSharing ==
  ASSUME IInv, NEW s \in Sessions, Sharing(s)
  PROVE  Views'
<1>0. UNCHANGED <<flow, size, sess, shown, saved, phone, others>> /\ Views
  BY DEF IInv, Sharing, Trigger, Handshakes, Confirms, PeerJoins, PeerAuth, PeerLeaves, CancelStash, Elapse, TimerFired, UserRemoves
<1>1. trust' \in [Sessions -> {"none", "fresh", "keyed", "pin", "trusted"}]
  BY <1>0 DEF Views, Sharing, Trigger, Handshakes, Confirms, PeerJoins, PeerAuth, PeerLeaves, CancelStash, Elapse, TimerFired, UserRemoves,
              Keys, Trusts, NewTrust
<1>2. peer' \in [Sessions -> {"none", "started", "joined", "auth", "left"}]
  BY <1>0 DEF Views, Sharing, Trigger, Handshakes, Confirms, PeerJoins, PeerAuth, PeerLeaves, CancelStash, Elapse, TimerFired, UserRemoves, PeerStarts
<1>3. late' \in [Sessions -> BOOLEAN]
  BY <1>0 DEF Views, Sharing, Trigger, Handshakes, Confirms, PeerJoins, PeerAuth, PeerLeaves, CancelStash, Elapse, TimerFired, UserRemoves
<1>4. qr' \in [Sessions -> {"none", "shown", "claimed", "expired", "cancelled"}]
  BY <1>0, NotifyStep DEF Views, Sharing, Trigger, Handshakes, Confirms, PeerJoins, PeerAuth, PeerLeaves, CancelStash, Elapse, TimerFired, UserRemoves
<1>5. gone' \in [Sessions -> SUBSET Nat] /\ \A r \in Sessions : gone'[r] \subseteq Files(r)'
  <2>0. Files(s) \subseteq Nat /\ \A r \in Sessions : Files(r)' = Files(r)
    BY <1>0, Images DEF IInv, Shapes, Files, Items
  <2>1. CASE gone' = gone
    BY <1>0, <2>0, <2>1 DEF Views
  <2>2. CASE UserRemoves(s)
    <3>1. PICK i \in Files(s) : gone' = [gone EXCEPT ![s] = @ \cup {i}]
      BY <2>2 DEF UserRemoves
    <3> QED  BY <1>0, <2>0, <3>1 DEF Views
  <2> QED  BY <2>1, <2>2 DEF Sharing, Trigger, Handshakes, Confirms, PeerJoins, PeerAuth, PeerLeaves, CancelStash, Elapse, TimerFired
<1> QED
  BY <1>0, <1>1, <1>2, <1>3, <1>4, <1>5 DEF Views

-----------------------------------------------------------------------------
(* The invariant and what follows from it. *)

\* The invariant holds at the start.
LEMMA InitHolds == Init => IInv
<1> SUFFICES ASSUME Init PROVE IInv
  OBVIOUS
<1>1. \A s \in Sessions : size[s] \in Nat /\ 1 \in Items(s) /\ Items(s) \subseteq Nat /\ \A j \in Items(s) : 1 <= j
  BY Images DEF Init
<1>2. Hosts \in 1 .. Hosts /\ 0 \in 0 .. MaxOthers
  BY ShareAssumption
<1>3. \A h \in Handlers : ~Busy(h)
  BY DEF Init, Busy
<1>4. Shapes
  BY <1>1, <1>2, <1>3 DEF Init, Shapes, Batch
<1>5. Views
  BY <1>2 DEF Init, Views
<1>6. \A s \in Sessions : SessionOK(s)
  BY <1>1 DEF Init, SessionOK, Have, Absent
<1>7. Turns
  BY <1>3 DEF Init, Turns, Serves
<1> QED
  BY <1>3, <1>4, <1>5, <1>6, <1>7 DEF IInv

\* Every step keeps the invariant.
LEMMA StepKeeps == IInv /\ [Next]_vars => IInv'
<1> SUFFICES ASSUME IInv, [Next]_vars PROVE IInv'
  OBVIOUS
<1>1. ASSUME NEW h \in Handlers, Upload(h)
      PROVE  IInv'
  BY <1>1, UploadKeeps, ViewsUpload DEF IInv, Kept
<1>2. ASSUME NEW h \in Handlers, Reader(h)
      PROVE  IInv'
  BY <1>2, ReaderKeeps, ViewsReader DEF IInv, Kept
<1>3. ASSUME NEW h \in Handlers, TimesOut(h)
      PROVE  IInv'
  <2>1. Views'
    BY <1>3 DEF TimesOut, IInv, Views, Files, Items
  <2> QED  BY <1>3, <2>1, TimesOutKeeps DEF IInv, Kept
<1>4. ASSUME NEW s \in Sessions, Phone(s)
      PROVE  IInv'
  BY <1>4, PhoneKeeps, ViewsPhone DEF IInv, Kept
<1>5. ASSUME NEW s \in Sessions, Cleanup(s)
      PROVE  IInv'
  BY <1>5, CleanupKeeps, ViewsPhone DEF IInv, Kept
<1>6. ASSUME NEW s \in Sessions, CloseWindow(s) \/ CancelInWindow(s)
      PROVE  IInv'
  <2>1. UNCHANGED <<flow, size, sess, saved, phone, thread>>
    BY <1>6 DEF CloseWindow, CancelInWindow
  <2> QED  BY <1>6, <2>1, NothingHere, ViewsPhone DEF IInv, Kept
<1>7. ASSUME NEW s \in Sessions, Sharing(s)
      PROVE  IInv'
  <2>1. UNCHANGED <<flow, size, sess, saved, phone, thread>>
    BY <1>7 DEF Sharing, Trigger, Handshakes, Confirms, PeerJoins, PeerAuth, PeerLeaves, CancelStash, Elapse, TimerFired, UserRemoves
  <2> QED  BY <1>7, <2>1, NothingHere, ViewsSharing DEF IInv, Kept
<1>8. ASSUME NEW s \in Sessions, NEW h \in Handlers, Send(s, h)
      PROVE  IInv'
  <2>1. Views'
    BY <1>8 DEF Send, IInv, Views, Files, Items
  <2> QED  BY <1>8, <2>1, SendKeeps DEF IInv, Kept
<1>9. ASSUME NEW s \in Sessions, NEW h \in Handlers, Begin(s, h)
      PROVE  IInv'
  <2>1. Views'
    BY <1>9 DEF Begin, IInv, Views, Files, Items
  <2> QED  BY <1>9, <2>1, BeginKeeps DEF IInv, Kept
<1>10. CASE Others
  <2>1. Views'
    BY <1>10 DEF Others, IInv, Views, Files, Items
  <2>2. UNCHANGED <<flow, size, sess, saved, phone, thread>>
    BY <1>10 DEF Others
  <2> QED  BY <2>1, <2>2, NothingHere DEF IInv, Kept
<1>11. CASE UNCHANGED vars
  <2>1. Views'
    BY <1>11 DEF IInv, Views, Files, Items
  <2> QED  BY <1>11, <2>1, NothingHere DEF IInv, Kept
<1> QED
  BY <1>1, <1>2, <1>3, <1>4, <1>5, <1>6, <1>7, <1>8, <1>9, <1>10, <1>11 DEF Next

\* The invariant holds in every run.
THEOREM Invariant == Spec => []IInv
BY InitHolds, StepKeeps, PTL DEF Spec

\* A phone that waits has one live request.
LEMMA OneLive ==
  ASSUME IInv, NEW s \in Sessions
  PROVE  Cardinality({h \in Serving(s) : thread[h].live}) = IF phone[s].pc = "wait" THEN 1 ELSE 0
<1>1. CASE phone[s].pc = "wait"
  <2>1. PICK h \in Handlers : Serves(h, s) /\ thread[h].live
    BY <1>1 DEF IInv, Turns
  <2>2. {g \in Serving(s) : thread[g].live} = {h}
    BY <2>1 DEF IInv, Turns, Serves, Serving
  <2> QED  BY <1>1, <2>2, FS_Singleton
<1>2. CASE phone[s].pc # "wait"
  <2>1. {g \in Serving(s) : thread[g].live} = {}
    BY <1>2 DEF IInv, HandlerOK, Serving
  <2> QED  BY <1>2, <2>1, FS_EmptySet
<1> QED
  BY <1>1, <1>2

\* Type correctness: every variable keeps its type, and a phone that waits for
\* an answer waits for exactly one handler (orchestrator and registry).
THEOREM TypeCorrect == Spec => []TypeOK
<1>1. IInv => TypeOK
  <2> SUFFICES ASSUME IInv PROVE TypeOK
    OBVIOUS
  <2>1. \A s \in Sessions : Have(s) => sess[s].st \in DOMAIN Allowed /\ sess[s].want \in Sizes \cup {0} /\ sess[s].got \in Nat
    BY AbsentIsNoSitting DEF IInv, Shapes, Have, Sitting, States, Allowed
  <2>2. \A s \in Sessions :
          /\ saved[s] \subseteq Items(s) /\ gone[s] \subseteq Files(s)
          /\ phone[s].pc \in {"idle", "hand", "apply", "confirm", "send", "wait", "ok", "failed"}
          /\ phone[s].i \in Items(s) /\ phone[s].tries \in 1 .. Hosts
    BY DEF IInv, Shapes, Views, Batch
  <2>3. \A h \in Handlers : Busy(h) => thread[h].s \in Sessions /\ thread[h].i \in Items(thread[h].s)
    BY IdleIsNoJob DEF IInv, Shapes, Busy, Job, RequestOK
  <2> QED  BY <2>1, <2>2, <2>3, OneLive DEF TypeOK, IInv, Shapes, Views
<1> QED
  BY <1>1, Invariant, PTL

\* A phone that was told "delivered" for its whole batch has all of it in the
\* downloads folder, however often it started again (delivery service).
THEOREM OkMeansSavedHolds == Spec => []OkMeansSaved
<1>1. IInv => OkMeansSaved
  BY DEF IInv, SessionOK, OkMeansSaved
<1> QED
  BY <1>1, Invariant, PTL

\* A session whose phone did not start again is DELIVERING or DONE only with
\* every image in the downloads folder (orchestrator.handle_delivery_complete).
THEOREM DoneMeansAllOnceHolds == Spec => []DoneMeansAllOnce
<1>1. IInv => DoneMeansAllOnce
  BY DEF IInv, SessionOK, DoneMeansAllOnce
<1> QED
  BY <1>1, Invariant, PTL

-----------------------------------------------------------------------------
(* ShareAgent. *)

USE DEF process, agentVars

RunAts == {"free", "created", "opened", "read", "serving", "ended"}
CallAts == {"idle", "check", "stop", "close", "join", "start"}
AgentAts == {"down", "watching", "http", "tls", "daemon", "socket", "running", "unwatched",
             "nosocket", "nopeers", "notls", "nohttp", "nodaemon", "ended"}

RunType == [at : RunAts, addr : Nets \cup {None}, open : BOOLEAN, listed : BOOLEAN]
CallType == [at : CallAts, zc : Runs \cup {None}, run : Runs \cup {None}]
MonType == [at : {"off", "started", "listening"}, snap : Nets \cup {None}, due : BOOLEAN, read : Nets \cup {None}]
CurrentType == [thread : Runs \cup {None}, zc : Runs \cup {None}, stop : BOOLEAN]

Types ==
  /\ net \in Nets /\ agent \in AgentAts /\ up \subseteq {"http", "tls", "peers"}
  /\ subscribed \in BOOLEAN /\ starter \in BOOLEAN /\ sock \in {"none", "live", "stale"}
  /\ mon \in MonType /\ current \in CurrentType
  /\ run \in [Runs -> RunType] /\ \A i \in Runs : run[i].listed => run[i].open
  /\ call \in [Callers -> CallType]

\* Only a thread between taking and closing an instance holds one, and main
\* stops the advertiser once.
Tidy ==
  /\ \A c \in Callers : call[c].zc # None => call[c].at = "close"
  /\ call[Main].at # "idle" => agent = "nodaemon"

\* What the advertiser's attributes say of its threads.
Stopped == current.stop => current.thread = None /\ current.zc = None
Created == \A i \in Runs : run[i].at = "created" => current.thread = i
Unlisted == \A i \in Runs : run[i].at \in {"free", "created", "opened", "read"} => ~run[i].listed
Owner == \A i \in Runs : current.zc = i /\ (Alive(i) \/ run[i].listed) => current.thread = i /\ Alive(i)

\* An instance that lists the service, or that its thread may yet register.
Matters(i) == run[i].open /\ (run[i].listed \/ run[i].at \in {"opened", "read"})

Held == \A i \in Runs : Matters(i) => current.zc = i \/ \E c \in Callers : call[c].zc = i

AgentInv == Types /\ Tidy /\ Stopped /\ Created /\ Unlisted /\ Owner /\ Held

-----------------------------------------------------------------------------
(* Types. *)

\* The records that code starts from.
LEMMA Records ==
  /\ NoMonitor \in MonType /\ NoRun \in RunType /\ NoCall \in CallType /\ Unused \in CurrentType
  /\ NoRun.at = "free" /\ NoRun.open = FALSE /\ NoRun.listed = FALSE
  /\ NoCall.at = "idle" /\ NoCall.zc = None /\ NoCall.run = None
  /\ Unused.thread = None /\ Unused.zc = None /\ Unused.stop = FALSE
BY DEF NoMonitor, MonType, NoRun, RunType, NoCall, CallType, Unused, CurrentType, RunAts, CallAts

\* All threads of a process that ends are gone.
LEMMA GoneTypes ==
  ASSUME Gone
  PROVE  /\ mon' \in MonType /\ current' = Unused /\ current' \in CurrentType /\ starter' = FALSE
         /\ run' \in [Runs -> RunType] /\ \A i \in Runs : run'[i] = NoRun
         /\ call' \in [Callers -> CallType] /\ \A c \in Callers : call'[c] = NoCall
BY Records DEF Gone

\* start() leaves everything as it is, or takes a thread that nothing refers to.
LEMMA BeginStep ==
  ASSUME Types, StartRun
  PROVE  /\ current' \in CurrentType /\ run' \in [Runs -> RunType]
         /\ \/ current' = current /\ run' = run
            \/ \E j \in Runs : /\ ~IsRunning /\ Spent(j)
                               /\ current'.thread = j /\ current'.zc = current.zc /\ current'.stop = FALSE
                               /\ run'[j].at = "created" /\ ~run'[j].open /\ ~run'[j].listed
                               /\ \A i \in Runs \ {j} : run'[i] = run[i]
<1>1. CASE IsRunning
  BY <1>1 DEF StartRun, Types
<1>2. CASE ~IsRunning
  <2>1. PICK j \in Runs : Spent(j) /\ NewRun(j)
    BY <1>2 DEF StartRun
  <2>2. PICK x : x = [NoRun EXCEPT !.at = "created"]
    OBVIOUS
  <2>3. x \in RunType /\ x.at = "created" /\ x.open = FALSE /\ x.listed = FALSE
    BY <2>2, Records DEF RunType, RunAts
  <2>4. run' = [run EXCEPT ![j] = x]
    BY <2>1, <2>2 DEF NewRun
  <2>5. current' \in CurrentType /\ current'.thread = j /\ current'.zc = current.zc /\ current'.stop = FALSE
    BY <2>1 DEF NewRun, Types, CurrentType
  <2> QED  BY <1>2, <2>1, <2>3, <2>4, <2>5 DEF Types
<1> QED
  BY <1>1, <1>2

\* A caller of the advertiser goes to its next step.
LEMMA TakeStep ==
  ASSUME Types, NEW c \in Callers, Take(c)
  PROVE  /\ call[c].at = "stop" /\ call' \in [Callers -> CallType] /\ call'[c].at = "close" /\ call'[c].zc = current.zc
         /\ \A d \in Callers \ {c} : call'[d] = call[d]
         /\ current' \in CurrentType /\ current'.thread = None /\ current'.zc = None /\ current'.stop = TRUE
         /\ run' \in [Runs -> RunType]
         /\ \A i \in Runs : /\ run'[i].at = (IF run[i].at = "serving" THEN "ended" ELSE run[i].at)
                            /\ run'[i].open = run[i].open /\ run'[i].listed = run[i].listed
<1>1. PICK x : x = Taken
  OBVIOUS
<1>2. x \in CallType /\ x.at = "close" /\ x.zc = current.zc
  BY <1>1 DEF Taken, Types, CallType, CallAts, CurrentType
<1>3. call' = [call EXCEPT ![c] = x] /\ call[c].at = "stop"
  BY <1>1 DEF Take
<1>4. current' \in CurrentType /\ current'.thread = None /\ current'.zc = None /\ current'.stop = TRUE
  BY DEF Take, CurrentType
<1>5. run' = [i \in Runs |-> [run[i] EXCEPT !.at = IF @ = "serving" THEN "ended" ELSE @]]
  BY DEF Take
<1>6. ASSUME NEW i \in Runs
      PROVE  /\ run'[i] \in RunType /\ run'[i].at = (IF run[i].at = "serving" THEN "ended" ELSE run[i].at)
             /\ run'[i].open = run[i].open /\ run'[i].listed = run[i].listed
  <2>1. run[i] \in RunType
    BY DEF Types
  <2>2. PICK at \in RunAts : at = (IF run[i].at = "serving" THEN "ended" ELSE run[i].at)
    BY <2>1 DEF RunType, RunAts
  <2>3. run'[i] = [run[i] EXCEPT !.at = at]
    BY <1>5, <2>2
  <2> QED  BY <2>1, <2>2, <2>3 DEF RunType
<1>7. run' \in [Runs -> RunType]
  BY <1>5, <1>6
<1> QED
  BY <1>2, <1>3, <1>4, <1>6, <1>7 DEF Types

\* close() outside the lock.
LEMMA CloseStep ==
  ASSUME Types, NEW c \in Callers, Close(c)
  PROVE  /\ call[c].at = "close" /\ call' \in [Callers -> CallType] /\ call'[c].at = "join" /\ call'[c].zc = None
         /\ \A d \in Callers \ {c} : call'[d] = call[d]
         /\ run' \in [Runs -> RunType]
         /\ \A i \in Runs : /\ run'[i].at = run[i].at
                            /\ i = call[c].zc => run'[i].open = FALSE /\ run'[i].listed = FALSE
                            /\ i # call[c].zc => run'[i] = run[i]
<1>1. PICK x : x = [call[c] EXCEPT !.at = "join", !.zc = None]
  OBVIOUS
<1>2. x \in CallType /\ x.at = "join" /\ x.zc = None
  BY <1>1 DEF Types, CallType, CallAts
<1>3. call' = [call EXCEPT ![c] = x] /\ call[c].at = "close"
  BY <1>1 DEF Close
<1>4. run' = [i \in Runs |-> IF i = call[c].zc THEN Closed(i) ELSE run[i]]
  BY DEF Close
<1>5. ASSUME NEW i \in Runs
      PROVE  /\ run'[i] \in RunType /\ run'[i].at = run[i].at
             /\ i = call[c].zc => run'[i].open = FALSE /\ run'[i].listed = FALSE
             /\ i # call[c].zc => run'[i] = run[i]
  <2>1. run[i] \in RunType
    BY DEF Types
  <2>2. PICK y : y = Closed(i)
    OBVIOUS
  <2>3. y \in RunType /\ y.at = run[i].at /\ y.open = FALSE /\ y.listed = FALSE
    BY <2>1, <2>2 DEF Closed, RunType
  <2> QED  BY <1>4, <2>1, <2>2, <2>3
<1>6. run' \in [Runs -> RunType]
  BY <1>4, <1>5
<1> QED
  BY <1>2, <1>3, <1>5, <1>6 DEF Types

\* The other steps of a caller, which hold no instance after them if they held none.
LEMMA CallStep ==
  ASSUME Types, NEW c \in Callers, CheckRunning(c) \/ Join(c) \/ StartAgain(c)
  PROVE  /\ call' \in [Callers -> CallType] /\ \A d \in Callers \ {c} : call'[d] = call[d]
         /\ call[c].at \in {"check", "join", "start"} /\ (call'[c].zc = call[c].zc \/ call'[c].zc = None)
<1>1. call[c] \in CallType
  BY DEF Types
<1>2. CASE CheckRunning(c)
  <2>1. PICK x : x = [call[c] EXCEPT !.at = "stop"]
    OBVIOUS
  <2>2. x \in CallType /\ x.zc = call[c].zc
    BY <1>1, <2>1 DEF CallType, CallAts
  <2>3. call' = [call EXCEPT ![c] = x] \/ call' = [call EXCEPT ![c] = NoCall]
    BY <1>2, <2>1 DEF CheckRunning
  <2> QED  BY <1>2, <2>2, <2>3, Records DEF Types, CheckRunning
<1>3. CASE Join(c)
  <2>1. PICK x : x = [NoCall EXCEPT !.at = "start"]
    OBVIOUS
  <2>2. x \in CallType /\ x.zc = None
    BY <2>1, Records DEF CallType, CallAts
  <2>3. call' = [call EXCEPT ![c] = x]
    BY <1>3, <2>1 DEF Join
  <2> QED  BY <1>3, <2>2, <2>3 DEF Types, Join
<1>4. CASE StartAgain(c)
  BY <1>4, Records DEF Types, StartAgain
<1> QED
  BY <1>2, <1>3, <1>4

\* The advertiser's thread: it opens, reads, registers, or fails.
LEMMA AdvertiserStep ==
  ASSUME Types, NEW i \in Runs, Advertiser(i)
  PROVE  /\ run' \in [Runs -> RunType] /\ current' \in CurrentType /\ \A j \in Runs \ {i} : run'[j] = run[j]
         /\ current'.thread = current.thread /\ current'.stop = current.stop
         /\ \/ /\ run[i].at = "created" /\ run'[i].at = "opened" /\ run'[i].open /\ run'[i].listed = run[i].listed
               /\ current'.zc = i
            \/ /\ run[i].at = "opened" /\ run'[i].at = "read" /\ run'[i].open = run[i].open /\ run'[i].listed = run[i].listed
               /\ current' = current
            \/ /\ run[i].at = "read" /\ run[i].open /\ run'[i].open /\ run'[i].listed
               /\ run'[i].at = (IF current.stop THEN "ended" ELSE "serving") /\ current' = current
            \/ /\ run[i].at \in {"created", "read"} /\ run'[i].at = "ended" /\ run'[i].open = run[i].open
               /\ run'[i].listed = run[i].listed /\ current' = current
<1>1. run[i] \in RunType /\ run \in [Runs -> RunType] /\ current \in CurrentType
  BY DEF Types
<1>2. CASE /\ run[i].at = "created" /\ run' = [run EXCEPT ![i].at = "opened", ![i].open = TRUE]
           /\ current' = [current EXCEPT !.zc = i]
  <2>1. PICK x : x = [run[i] EXCEPT !.at = "opened", !.open = TRUE]
    OBVIOUS
  <2>2. x \in RunType /\ x.at = "opened" /\ x.open = TRUE /\ x.listed = run[i].listed
    BY <1>1, <2>1 DEF RunType, RunAts
  <2>3. run' = [run EXCEPT ![i] = x]
    BY <1>2, <2>1
  <2>4. current' \in CurrentType /\ current'.zc = i /\ current'.thread = current.thread /\ current'.stop = current.stop
    BY <1>1, <1>2 DEF CurrentType
  <2> QED  BY <1>1, <1>2, <2>2, <2>3, <2>4
<1>3. CASE LocalAddresses(i)
  <2>1. PICK x : x = [run[i] EXCEPT !.at = "read", !.addr = net]
    OBVIOUS
  <2>2. x \in RunType /\ x.at = "read" /\ x.open = run[i].open /\ x.listed = run[i].listed
    BY <1>1, <2>1 DEF Types, RunType, RunAts
  <2>3. run' = [run EXCEPT ![i] = x] /\ run[i].at = "opened" /\ current' = current
    BY <1>3, <2>1 DEF LocalAddresses
  <2> QED  BY <1>1, <2>2, <2>3
<1>4. CASE /\ run[i].at = "read" /\ run[i].open /\ current' = current
           /\ run' = [run EXCEPT ![i].listed = TRUE, ![i].at = IF current.stop THEN "ended" ELSE "serving"]
  <2>1. PICK at \in RunAts : at = IF current.stop THEN "ended" ELSE "serving"
    BY DEF RunAts
  <2>2. PICK x : x = [run[i] EXCEPT !.listed = TRUE, !.at = at]
    OBVIOUS
  <2>3. x \in RunType /\ x.at = at /\ x.open = run[i].open /\ x.listed = TRUE
    BY <1>1, <2>2 DEF RunType
  <2>4. run' = [run EXCEPT ![i] = x]
    BY <1>4, <2>1, <2>2
  <2> QED  BY <1>1, <1>4, <2>1, <2>3, <2>4
<1>5. CASE /\ run[i].at \in {"created", "read"} /\ current' = current /\ run' = [run EXCEPT ![i].at = "ended"]
  <2>1. PICK x : x = [run[i] EXCEPT !.at = "ended"]
    OBVIOUS
  <2>2. x \in RunType /\ x.at = "ended" /\ x.open = run[i].open /\ x.listed = run[i].listed
    BY <1>1, <2>1 DEF RunType, RunAts
  <2>3. run' = [run EXCEPT ![i] = x]
    BY <1>5, <2>1
  <2> QED  BY <1>1, <1>5, <2>2, <2>3
<1> QED
  BY <1>2, <1>3, <1>4, <1>5 DEF Advertiser, OpenZeroconf, Register, Fails

\* Steps of main.
Mains == Start \/ StopWatch \/ StopSocket \/ StopPeers \/ StopTls \/ StopHttp \/ StopDaemon

LEMMA MainStep ==
  ASSUME Types, Mains
  PROVE  /\ run' = run /\ current' = current /\ agent' \in AgentAts /\ agent # "nodaemon"
         /\ call' \in [Callers -> CallType] /\ \A c \in Callers : call'[c].zc = call[c].zc
         /\ call' = call \/ (agent' = "nodaemon" /\ \A c \in Callers \ {Main} : call'[c] = call[c])
         /\ Types'
<1>1. run' = run /\ current' = current /\ agent' \in AgentAts /\ agent # "nodaemon" /\ net' = net
  BY DEF Mains, Start, Launch, StartHttp, StartTls, StartDaemon, StartSocket, StartPeers, StopWatch, StopSocket, StopPeers, StopTls,
         StopHttp, StopDaemon, Starts, Stops, Step, AgentAts
<1>2. /\ call' \in [Callers -> CallType] /\ \A c \in Callers : call'[c].zc = call[c].zc
      /\ call' = call \/ (agent' = "nodaemon" /\ \A c \in Callers \ {Main} : call'[c] = call[c])
  <2>1. CASE StopDaemon
    <3>1. PICK x : x = [call[Main] EXCEPT !.at = "stop"]
      OBVIOUS
    <3>2. Main \in Callers /\ x \in CallType /\ x.zc = call[Main].zc
      BY <3>1 DEF Types, CallType, CallAts, Callers
    <3>3. call' = [call EXCEPT ![Main] = x] /\ agent' = "nodaemon"
      BY <2>1, <3>1 DEF StopDaemon, Step
    <3> QED  BY <3>2, <3>3 DEF Types
  <2>2. CASE ~StopDaemon
    <3>1. call' = call
      BY <2>2 DEF Mains, Start, Launch, StartHttp, StartTls, StartDaemon, StartSocket, StartPeers, StopWatch, StopSocket, StopPeers, StopTls,
                  StopHttp, Starts, Stops
    <3> QED  BY <3>1 DEF Types
  <2> QED  BY <2>1, <2>2
<1>3. mon' \in MonType
  <2>1. CASE Launch
    BY <2>1, Records DEF Launch, Watched, MonType, NoMonitor, Types
  <2>2. CASE ~Launch
    BY <2>2, Records DEF Types, Mains, Start, StartHttp, StartTls, StartDaemon, StartSocket, StartPeers, StopWatch, StopSocket, StopPeers,
                         StopTls, StopHttp, StopDaemon, Starts, Stops
  <2> QED  BY <2>1, <2>2
<1>4. up' \subseteq {"http", "tls", "peers"} /\ subscribed' \in BOOLEAN /\ starter' \in BOOLEAN /\ sock' \in {"none", "live", "stale"}
  BY DEF Types, Mains, Start, Launch, StartHttp, StartTls, StartDaemon, StartSocket, StartPeers, StopWatch, StopSocket, StopPeers, StopTls,
         StopHttp, StopDaemon, Starts, Stops
<1> QED
  BY <1>1, <1>2, <1>3, <1>4 DEF Types

\* The network and its monitor, which may start a restart.
LEMMA MonitorStep ==
  ASSUME Types, Monitor \/ \E a \in Nets : NetworkChange(a)
  PROVE  /\ run' = run /\ current' = current /\ agent' = agent
         /\ call' = call \/ \E r \in Restarters : /\ call'[r].zc = call[r].zc /\ call[r] = NoCall
                                                  /\ \A c \in Callers \ {r} : call'[c] = call[c]
         /\ Types'
<1>1. UNCHANGED <<run, current, agent, up, sock, subscribed, starter>>
  BY DEF Monitor, Listen, ReadAddresses, Compare, NetworkChange
<1>2. net' \in Nets /\ mon' \in MonType
  <2>1. CASE \E a \in Nets : NetworkChange(a)
    <3>1. PICK due \in BOOLEAN : mon' = [mon EXCEPT !.due = due]
      BY <2>1 DEF NetworkChange
    <3> QED  BY <2>1, <3>1 DEF NetworkChange, Types, MonType
  <2>2. CASE Listen
    BY <2>2 DEF Listen, Types, MonType
  <2>3. CASE ReadAddresses
    BY <2>3 DEF ReadAddresses, Types, MonType
  <2>4. CASE Compare
    BY <2>4 DEF Compare, Types, MonType
  <2> QED  BY <2>1, <2>2, <2>3, <2>4 DEF Monitor
<1>3. /\ call' = call \/ \E r \in Restarters : /\ call'[r].zc = call[r].zc /\ call[r] = NoCall
                                               /\ \A c \in Callers \ {r} : call'[c] = call[c]
      /\ call' \in [Callers -> CallType]
  <2>1. CASE Published
    <3>1. PICK r \in Restarters : call[r] = NoCall /\ call' = [call EXCEPT ![r].at = "check"]
      BY <2>1 DEF Published
    <3>2. PICK x : x = [call[r] EXCEPT !.at = "check"]
      OBVIOUS
    <3>3. r \in Callers /\ x \in CallType /\ x.zc = call[r].zc
      BY <3>2 DEF Types, CallType, CallAts, Callers
    <3>4. call' = [call EXCEPT ![r] = x]
      BY <3>1, <3>2
    <3> QED  BY <3>1, <3>3, <3>4 DEF Types
  <2>2. CASE call' = call
    BY <2>2 DEF Types
  <2> QED  BY <2>1, <2>2 DEF Monitor, Listen, ReadAddresses, Compare, NetworkChange
<1> QED
  BY <1>1, <1>2, <1>3 DEF Types

\* The end of the process.
LEMMA EndStep ==
  ASSUME Types, Exit \/ Crash
  PROVE  Gone /\ Types'
<1>1. Gone /\ net' = net
  BY DEF Exit, Crash
<1>2. /\ agent' \in AgentAts /\ up' \subseteq {"http", "tls", "peers"} /\ subscribed' \in BOOLEAN
      /\ sock' \in {"none", "live", "stale"}
  BY DEF Exit, Crash, Step, Types, AgentAts
<1> QED
  BY <1>1, <1>2, GoneTypes, Records DEF Types

\* Every step keeps the types.
LEMMA TypesKept == Types /\ [AgentNext]_agentVars => Types'
<1> SUFFICES ASSUME Types, [AgentNext]_agentVars PROVE Types'
  OBVIOUS
<1>1. ASSUME NEW c \in Callers, CheckRunning(c) \/ Join(c) \/ StartAgain(c)
      PROVE  Types'
  <2>1. UNCHANGED <<net, process, mon>>
    BY <1>1 DEF CheckRunning, Join, StartAgain
  <2>2. current' \in CurrentType /\ run' \in [Runs -> RunType] /\ \A i \in Runs : run'[i].listed => run'[i].open
    <3>1. CASE StartAgain(c)
      BY <3>1, BeginStep DEF StartAgain, Types
    <3>2. CASE ~StartAgain(c)
      BY <1>1, <3>2 DEF CheckRunning, Join, Types
    <3> QED  BY <3>1, <3>2
  <2> QED  BY <1>1, <2>1, <2>2, CallStep DEF Types
<1>2. ASSUME NEW c \in Callers, Take(c)
      PROVE  Types'
  BY <1>2, TakeStep DEF Types, Take
<1>3. ASSUME NEW c \in Callers, Close(c)
      PROVE  Types'
  <2>1. UNCHANGED <<net, process, mon, current>>
    BY <1>3 DEF Close
  <2>2. \A i \in Runs : run'[i].listed => run'[i].open
    BY <1>3, CloseStep DEF Types
  <2> QED  BY <1>3, <2>1, <2>2, CloseStep DEF Types
<1>4. ASSUME NEW i \in Runs, Advertiser(i)
      PROVE  Types'
  <2>1. UNCHANGED <<net, process, mon, call>>
    BY <1>4 DEF Advertiser, OpenZeroconf, LocalAddresses, Register
  <2>2. \A j \in Runs : run'[j].listed => run'[j].open
    BY <1>4, AdvertiserStep DEF Types
  <2> QED  BY <1>4, <2>1, <2>2, AdvertiserStep DEF Types
<1>5. CASE FirstStart
  BY <1>5, BeginStep DEF FirstStart, Types
<1>6. CASE UNCHANGED agentVars
  BY <1>6 DEF Types
<1> QED
  BY <1>1, <1>2, <1>3, <1>4, <1>5, <1>6, MainStep, MonitorStep, EndStep DEF AgentNext, Caller, Stop, Mains

-----------------------------------------------------------------------------
(* No advertisement is lost. *)

Rest == Stopped /\ Created /\ Unlisted /\ Owner /\ Held

\* The invariant holds at the start.
LEMMA AgentInitHolds == AgentInit => AgentInv
BY Records, AgentAssumption
   DEF AgentInit, AgentInv, Types, Tidy, Stopped, Created, Unlisted, Owner, Held, Matters, Callers, None, AgentAts

\* Steps that leave the advertiser and what callers hold as they are.
LEMMA NothingHeld ==
  ASSUME Rest, run' = run, current' = current, \A c \in Callers : call'[c].zc = call[c].zc
  PROVE  Rest'
BY DEF Rest, Stopped, Created, Unlisted, Owner, Held, Matters, Alive

\* A start replaces the thread only when it is dead, and what it held is then
\* not listed.
LEMMA StartRunKeeps ==
  ASSUME AgentInv, StartRun, \A c \in Callers : call'[c].zc = call[c].zc
  PROVE  Rest'
<1>1. CASE current' = current /\ run' = run
  BY <1>1, NothingHeld DEF AgentInv, Rest
<1>2. ASSUME NEW j \in Runs, ~IsRunning, Spent(j), current'.thread = j, current'.zc = current.zc, current'.stop = FALSE,
             run'[j].at = "created", ~run'[j].open, ~run'[j].listed, \A i \in Runs \ {j} : run'[i] = run[i]
      PROVE  Rest'
  <2>0. Types /\ Created /\ Unlisted /\ Owner /\ Held /\ None \notin Runs /\ j # None
    BY AgentAssumption DEF AgentInv, None
  <2>1. Stopped'
    BY <1>2 DEF Stopped
  <2>2. Created'
    <3>1. \A i \in Runs : run[i].at # "created"
      BY <1>2, <2>0 DEF Created, IsRunning, Alive
    <3> QED  BY <1>2, <3>1 DEF Created
  <2>3. Unlisted'
    BY <1>2, <2>0 DEF Unlisted
  <2>4. Owner'
    <3>1. ASSUME NEW i \in Runs, i # j, current.zc = i
          PROVE  ~Alive(i) /\ ~run[i].listed
      <4>1. current.thread = i => ~Alive(i)
        BY <1>2, <2>0 DEF IsRunning
      <4> QED  BY <2>0, <3>1, <4>1 DEF Owner
    <3> QED  BY <1>2, <3>1 DEF Owner, Alive
  <2>5. Held'
    BY <1>2, <2>0 DEF Held, Matters
  <2> QED  BY <2>1, <2>2, <2>3, <2>4, <2>5 DEF Rest
<1> QED
  BY <1>1, <1>2, BeginStep DEF AgentInv

\* stop() takes the instance out of the advertiser and into its own thread.
LEMMA TakeKeeps ==
  ASSUME Prompt, AgentInv, NEW c \in Callers, Take(c)
  PROVE  Tidy' /\ Rest'
<1>0. /\ call[c].at = "stop" /\ call'[c].at = "close" /\ call'[c].zc = current.zc
      /\ \A d \in Callers \ {c} : call'[d] = call[d]
      /\ current'.thread = None /\ current'.zc = None /\ current'.stop = TRUE
      /\ \A i \in Runs : /\ run'[i].at = (IF run[i].at = "serving" THEN "ended" ELSE run[i].at)
                         /\ run'[i].open = run[i].open /\ run'[i].listed = run[i].listed
  BY TakeStep DEF AgentInv
<1>1. /\ \A i \in Runs : run[i].at # "created"
      /\ agent' = agent /\ call[c].zc = None /\ None \notin Runs
  BY <1>0, AgentAssumption DEF Take, AgentInv, Tidy, None
<1>2. Tidy'
  <2>1. \A d \in Callers : call'[d].zc # None => call'[d].at = "close"
    BY <1>0, <1>1 DEF AgentInv, Tidy
  <2>2. Main \in Callers /\ (call[Main].at # "idle" => agent = "nodaemon")
    BY DEF AgentInv, Tidy, Callers
  <2>3. call'[Main].at # "idle" => agent' = "nodaemon"
    BY <1>0, <1>1, <2>2
  <2> QED  BY <2>1, <2>3 DEF Tidy
<1>3. Stopped' /\ Created' /\ Unlisted' /\ Owner'
  BY <1>0, <1>1 DEF AgentInv, Stopped, Created, Unlisted, Owner
<1>4. Held'
  <2>1. SUFFICES ASSUME NEW i \in Runs, Matters(i)' PROVE \E d \in Callers : call'[d].zc = i
    BY DEF Held
  <2>2. Matters(i)
    BY <1>0, <2>1 DEF Matters
  <2>3. CASE current.zc = i
    BY <1>0, <2>3
  <2>4. CASE \E d \in Callers : call[d].zc = i
    <3>1. PICK d \in Callers : call[d].zc = i
      BY <2>4
    <3>2. d # c
      BY <1>1, <2>1, <3>1
    <3> QED  BY <1>0, <3>1, <3>2
  <2> QED  BY <2>2, <2>3, <2>4 DEF AgentInv, Held
<1> QED
  BY <1>2, <1>3, <1>4 DEF Rest

\* A closed instance lists nothing.
LEMMA CloseKeeps ==
  ASSUME AgentInv, NEW c \in Callers, Close(c)
  PROVE  Tidy' /\ Rest'
<1>0. /\ call[c].at = "close" /\ call'[c].at = "join" /\ call'[c].zc = None
      /\ \A d \in Callers \ {c} : call'[d] = call[d]
      /\ \A i \in Runs : /\ run'[i].at = run[i].at
                         /\ i = call[c].zc => run'[i].open = FALSE /\ run'[i].listed = FALSE
                         /\ i # call[c].zc => run'[i] = run[i]
      /\ agent' = agent /\ current' = current
  BY CloseStep DEF AgentInv, Close
<1>1. Tidy'
  <2>1. \A d \in Callers : call'[d].zc # None => call'[d].at = "close"
    BY <1>0 DEF AgentInv, Tidy
  <2>2. Main \in Callers /\ (call[Main].at # "idle" => agent = "nodaemon")
    BY DEF AgentInv, Tidy, Callers
  <2>3. call'[Main].at # "idle" => agent' = "nodaemon"
    BY <1>0, <2>2
  <2> QED  BY <2>1, <2>3 DEF Tidy
<1>2. Stopped' /\ Created' /\ Unlisted' /\ Owner'
  BY <1>0 DEF AgentInv, Stopped, Created, Unlisted, Owner, Alive
<1>3. Held'
  BY <1>0 DEF AgentInv, Held, Matters
<1> QED
  BY <1>1, <1>2, <1>3 DEF Rest

\* The other steps of a caller hold nothing.
LEMMA CallKeeps ==
  ASSUME AgentInv, NEW c \in Callers, CheckRunning(c) \/ Join(c) \/ StartAgain(c)
  PROVE  Tidy' /\ Rest'
<1>0. /\ call[c].at \in {"check", "join", "start"} /\ (call'[c].zc = call[c].zc \/ call'[c].zc = None)
      /\ \A d \in Callers \ {c} : call'[d] = call[d]
      /\ agent' = agent
  BY CallStep DEF AgentInv, CheckRunning, Join, StartAgain
<1>1. call[c].zc = None /\ call'[c].zc = None
  BY <1>0 DEF AgentInv, Tidy
<1>2. \A d \in Callers : call'[d].zc = call[d].zc
  BY <1>0, <1>1
<1>3. Tidy'
  <2>1. \A d \in Callers : call'[d].zc # None => call'[d].at = "close"
    BY <1>0, <1>1 DEF AgentInv, Tidy
  <2>2. Main \in Callers /\ (call[Main].at # "idle" => agent = "nodaemon")
    BY DEF AgentInv, Tidy, Callers
  <2>3. call'[Main].at # "idle" => agent' = "nodaemon"
    BY <1>0, <2>2
  <2> QED  BY <2>1, <2>3 DEF Tidy
<1>4. Rest'
  <2>1. CASE StartAgain(c)
    BY <1>2, <2>1, StartRunKeeps DEF StartAgain
  <2>2. CASE ~StartAgain(c)
    BY <1>2, <2>2, NothingHeld DEF AgentInv, Rest, CheckRunning, Join
  <2> QED  BY <2>1, <2>2
<1> QED
  BY <1>3, <1>4

\* A thread of the advertiser opens its instance, or registers it once more
\* only when somebody holds it.
LEMMA AdvertiserKeeps ==
  ASSUME AgentInv, NEW i \in Runs, Advertiser(i)
  PROVE  Tidy' /\ Rest'
<1>0. call' = call /\ agent' = agent
  BY DEF Advertiser, OpenZeroconf, LocalAddresses, Register
<1>1. /\ \A j \in Runs \ {i} : run'[j] = run[j]
      /\ current'.thread = current.thread /\ current'.stop = current.stop
  BY AdvertiserStep DEF AgentInv
<1>2. Tidy'
  BY <1>0 DEF AgentInv, Tidy
<1>3. CASE run[i].at = "created" /\ run'[i].at = "opened" /\ run'[i].open /\ run'[i].listed = run[i].listed /\ current'.zc = i
  <2>1. current.thread = i /\ i # None /\ ~current.stop
    BY <1>3, AgentAssumption DEF AgentInv, Created, Stopped, None
  <2>2. \A j \in Runs \ {i} : current.zc = j => ~Matters(j)
    BY <2>1 DEF AgentInv, Owner, Matters, Alive
  <2>3. Stopped' /\ Created' /\ Unlisted' /\ Owner'
    BY <1>1, <1>3, <2>1 DEF AgentInv, Stopped, Created, Unlisted, Owner, Alive
  <2>4. Held'
    BY <1>0, <1>1, <1>3, <2>2 DEF AgentInv, Held, Matters
  <2> QED  BY <1>2, <2>3, <2>4 DEF Rest
<1>4. CASE run[i].at = "opened" /\ run'[i].at = "read" /\ run'[i].open = run[i].open /\ run'[i].listed = run[i].listed /\ current' = current
  BY <1>0, <1>1, <1>2, <1>4 DEF AgentInv, Rest, Stopped, Created, Unlisted, Owner, Held, Matters, Alive
<1>5. CASE /\ run[i].at = "read" /\ run[i].open /\ run'[i].open /\ run'[i].listed /\ current' = current
           /\ run'[i].at = (IF current.stop THEN "ended" ELSE "serving")
  <2>1. current.stop => current.zc # i
    BY AgentAssumption DEF AgentInv, Stopped, None
  <2>2. Stopped' /\ Created' /\ Unlisted'
    BY <1>1, <1>5 DEF AgentInv, Stopped, Created, Unlisted
  <2>3. Owner'
    BY <1>1, <1>5, <2>1 DEF AgentInv, Owner, Alive
  <2>4. Held'
    BY <1>0, <1>1, <1>5 DEF AgentInv, Held, Matters
  <2> QED  BY <1>2, <2>2, <2>3, <2>4 DEF Rest
<1>6. CASE run[i].at \in {"created", "read"} /\ run'[i].at = "ended" /\ run'[i].open = run[i].open /\ run'[i].listed = run[i].listed /\ current' = current
  BY <1>0, <1>1, <1>2, <1>6 DEF AgentInv, Rest, Stopped, Created, Unlisted, Owner, Held, Matters, Alive
<1> QED
  BY <1>3, <1>4, <1>5, <1>6, AdvertiserStep DEF AgentInv

\* Main calls stop once, with nothing in its hands.
LEMMA MainKeeps ==
  ASSUME AgentInv, Mains
  PROVE  Tidy' /\ Rest'
<1>1. call[Main].at = "idle" /\ \A c \in Callers : call'[c].zc = call[c].zc
  BY MainStep DEF AgentInv, Tidy
<1>2. Tidy'
  <2>1. call[Main].zc = None
    BY <1>1 DEF AgentInv, Tidy, Callers
  <2> QED  BY <1>1, <2>1, MainStep DEF AgentInv, Tidy
<1> QED
  BY <1>1, <1>2, MainStep, NothingHeld DEF AgentInv, Rest

\* A change of the address starts a caller with empty hands.
LEMMA MonitorKeeps ==
  ASSUME AgentInv, Monitor \/ \E a \in Nets : NetworkChange(a)
  PROVE  Tidy' /\ Rest'
<1>1. \A c \in Callers : call'[c].zc = call[c].zc
  BY MonitorStep DEF AgentInv
<1>2. Tidy'
  BY MonitorStep, Records, AgentAssumption DEF AgentInv, Tidy, Callers, Main
<1> QED
  BY <1>1, <1>2, MonitorStep, NothingHeld DEF AgentInv, Rest

\* After the end of the process nothing is listed.
LEMMA EndKeeps ==
  ASSUME AgentInv, Exit \/ Crash
  PROVE  Tidy' /\ Rest'
<1>1. /\ current' = Unused /\ \A i \in Runs : run'[i] = NoRun
      /\ \A c \in Callers : call'[c] = NoCall
  BY EndStep, GoneTypes DEF AgentInv
<1> QED
  BY <1>1, Records, AgentAssumption DEF Tidy, Rest, Stopped, Created, Unlisted, Owner, Held, Matters, Callers, None

\* Every step keeps the invariant.
LEMMA AgentStepKeeps == Prompt /\ AgentInv /\ [AgentNext]_agentVars => AgentInv'
<1> SUFFICES ASSUME Prompt, AgentInv, [AgentNext]_agentVars PROVE AgentInv'
  OBVIOUS
<1>1. Types'
  BY TypesKept DEF AgentInv
<1>2. Tidy' /\ Rest'
  <2>1. CASE FirstStart
    BY <2>1, StartRunKeeps DEF FirstStart, AgentInv, Tidy
  <2>2. CASE UNCHANGED agentVars
    BY <2>2, NothingHeld DEF AgentInv, Tidy, Rest
  <2> QED
    BY <2>1, <2>2, MainKeeps, MonitorKeeps, EndKeeps, TakeKeeps, CloseKeeps, CallKeeps, AdvertiserKeeps DEF AgentNext, Caller, Stop, Mains
<1> QED
  BY <1>1, <1>2 DEF AgentInv, Rest

-----------------------------------------------------------------------------
(* Theorems. *)

\* Type correctness of the launch agent, its monitor and its advertiser, for
\* any addresses, threads and faults (runtime.py, mdns.py).
THEOREM AgentTypeCorrect == AgentSpec => []AgentTypeOK
<1>1. AgentInit => Types
  BY AgentInitHolds DEF AgentInv
<1>2. Types => AgentTypeOK
  BY DEF Types, AgentTypeOK, MonType, CurrentType, RunType, CallType, RunAts, CallAts, AgentAts
<1> QED
  BY <1>1, <1>2, TypesKept, PTL DEF AgentSpec

\* The invariant of the advertiser and of all threads inside its stop and start.
THEOREM Invariance == Prompt => (AgentSpec => []AgentInv)
<1> SUFFICES ASSUME Prompt PROVE AgentSpec => []AgentInv
  OBVIOUS
<1>1. AgentInv /\ [AgentNext]_agentVars => AgentInv'
  BY AgentStepKeeps
<1> QED
  BY <1>1, AgentInitHolds, PTL DEF AgentSpec

\* However the restarts overlap, no advertisement is lost (mdns.py, start and
\* stop), if a started thread runs before its join gives up on it.
THEOREM NoneLeakedHolds == Prompt => (AgentSpec => []NoneLeaked)
<1> SUFFICES ASSUME Prompt PROVE AgentSpec => []NoneLeaked
  OBVIOUS
<1>1. AgentInv => NoneLeaked
  BY DEF AgentInv, Held, Matters, NoneLeaked, Listed
<1> QED
  BY <1>1, Invariance, PTL
=============================================================================
