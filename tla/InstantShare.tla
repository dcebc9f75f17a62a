---------------------------- MODULE InstantShare ----------------------------
(***************************************************************************)
(* Instant sharing between a phone and the launch agent of the desktop     *)
(* (src/instant_sharing).  A session has one of three flows:               *)
(*                                                                         *)
(*   "to_pc"     the phone is new: handshake, PIN and confirmation come    *)
(*               before its text or its batch of images;                   *)
(*   "revisit"   the phone is trusted: the first upload opens the session; *)
(*   "to_phone"  the desktop shows a QR code for a stash of files, which   *)
(*               expires after OPT_CODE_TTL_SECONDS unless a phone that    *)
(*               proved the code downloads one of them.                    *)
(*                                                                         *)
(* Every request runs in a thread of its own.  The registry's methods are  *)
(* atomic, the orchestrator and the stash's readers use several of them    *)
(* in a row, and the phone starts the batch again on its next host when a  *)
(* request times out or its answer is lost.                                *)
(***************************************************************************)
EXTENDS Naturals, FiniteSets

CONSTANTS
  Sessions,      \* ids of sessions
  Handlers,      \* threads that serve requests
  Flows,         \* flows that occur
  Sizes,         \* values of X-Image-Count, 0 for a text without the header
  Hosts,         \* addresses of the desktop the phone knows
  MaxSessions,   \* InstantShareSessionRegistry._max_sessions
  MaxOthers,     \* bound on active sessions of other phones
  MaxGone        \* bound on stashed files that the user deletes

ASSUME ShareAssumption ==
  /\ Flows \subseteq {"to_pc", "revisit", "to_phone"}
  /\ Sizes \subseteq Nat
  /\ Hosts \in Nat \ {0} /\ MaxSessions \in Nat /\ MaxOthers \in Nat /\ MaxGone \in Nat

VARIABLES
  flow,      \* session -> TrustSession._flow_type, or a revisit
  size,      \* session -> number of images the phone announces
  trust,     \* session -> state of its TrustSession
  sess,      \* session -> InstantShareSession of the registry, or Absent
  shown,     \* session -> what its mini window shows
  saved,     \* session -> images that were written to the downloads folder
  phone,     \* session -> the phone's upload
  stash,     \* session -> StashEntry, or Absent
  late,      \* session -> the stash's time is over
  gone,      \* session -> stashed files that are no longer readable
  peer,      \* session -> WebRTCPeer of the stash
  qr,        \* session -> the window with the QR code
  thread,    \* handler -> the request it serves, or Idle
  others     \* active sessions of other phones

receiving == <<flow, size, trust, sess, shown, saved, phone, others>>
sharing == <<stash, late, gone, peer, qr>>
vars == <<receiving, sharing, thread>>

Absent == [st |-> "absent"]
Idle == [at |-> "idle"]

Items(s) == IF size[s] = 0 THEN {1} ELSE 1 .. size[s]
ToPc(s) == flow[s] # "to_phone"

Active == {"queued", "negotiating", "transferring", "delivering"}
Allowed == [queued |-> {"negotiating", "transferring"},
            negotiating |-> {"transferring"},
            transferring |-> {"delivering"},
            delivering |-> {"done"},
            done |-> {}]

Busy(h) == thread[h] # Idle
Serving(s) == {h \in Handlers : Busy(h) /\ thread[h].s = s}
Have(s) == sess[s] # Absent
Full == Cardinality({s \in Sessions : Have(s) /\ sess[s].st \in Active}) + others >= MaxSessions

-----------------------------------------------------------------------------
(* The window of a receiving session.                                      *)

Phase(st) == CASE st \in {"queued", "negotiating"} -> "waiting"
               [] st = "done" -> "success"
               [] OTHER -> st

Show(s, st) == shown' = [shown EXCEPT ![s] = Phase(st)]

ShowPin(s) == IF shown[s] = "none" THEN "none" ELSE "pin"

CloseWindow(s) ==
  /\ shown[s] # "none"
  /\ shown' = [shown EXCEPT ![s] = "none"]
  /\ UNCHANGED <<flow, size, trust, sess, saved, phone, others, sharing, thread>>

\* "Cancel" changes what the window shows and nothing else.
CancelInWindow(s) ==
  /\ shown[s] \in {"waiting", "pin", "transferring", "delivering"}
  /\ shown' = [shown EXCEPT ![s] = "aborted"]
  /\ UNCHANGED <<flow, size, trust, sess, saved, phone, others, sharing, thread>>

-----------------------------------------------------------------------------
(* The phone.                                                              *)

Steps(s, pc) == phone' = [phone EXCEPT ![s].pc = pc]

\* A network error: the next host gets the batch from its first image on.
NextHost(s) ==
  IF phone[s].tries > 1
  THEN phone' = [phone EXCEPT ![s] = [pc |-> "send", i |-> 1, tries |-> @.tries - 1, again |-> TRUE]]
  ELSE Steps(s, "failed")

\* The calls before the upload: answered, repeated on the next host, given up.
Answers(s, pc) == Steps(s, pc) \/ UNCHANGED phone \/ Steps(s, "failed")

Share(s) ==
  /\ ToPc(s) /\ phone[s].pc = "idle"
  /\ Steps(s, IF flow[s] = "to_pc" THEN "hand" ELSE "send")
  /\ UNCHANGED <<flow, size, trust, sess, shown, saved, others, sharing, thread>>

\* TrustSession: keys are agreed once, and proofs of the PIN or the code end it.
Keys(s, new) == trust' = [trust EXCEPT ![s] = IF @ = new THEN "keyed" ELSE @]
Trusts(s) == trust' = [trust EXCEPT ![s] = "trusted"]

\* /trust/handshake of a new phone.  A full registry leaves the trust session
\* without a session to share in; a repeated handshake finds both.
Handshake(s) ==
  /\ phone[s].pc = "hand"
  /\ Keys(s, "none")
  /\ IF Have(s) \/ Full
     THEN UNCHANGED <<sess, shown>>
     ELSE /\ sess' = [sess EXCEPT ![s] = [st |-> "negotiating", want |-> 0, got |-> 0]]
          /\ Show(s, "negotiating")
  /\ Answers(s, "apply")
  /\ UNCHANGED <<flow, size, saved, others, sharing, thread>>

\* /trust/apply: the PIN is generated once and shown in the session's window.
Apply(s) ==
  /\ phone[s].pc = "apply"
  /\ trust' = [trust EXCEPT ![s] = IF @ = "keyed" THEN "pin" ELSE @]
  /\ shown' = [shown EXCEPT ![s] = ShowPin(s)]
  /\ Answers(s, "confirm")
  /\ UNCHANGED <<flow, size, sess, saved, others, sharing, thread>>

\* /trust/confirm; with a wrong PIN (403) the trust session stays as it is.
Confirm(s) ==
  /\ phone[s].pc = "confirm"
  /\ \/ Trusts(s) /\ Answers(s, "send")
     \/ trust' = trust /\ Steps(s, "failed")
  /\ UNCHANGED <<flow, size, sess, shown, saved, others, sharing, thread>>

Request(at, s, i) ==
  [at |-> at, s |-> s, i |-> i, old |-> "none", then |-> "none", live |-> ToPc(s)]

Send(s, h) ==
  /\ phone[s].pc = "send" /\ ~Busy(h)
  /\ thread' = [thread EXCEPT ![h] = Request("enter", s, phone[s].i)]
  /\ Steps(s, "wait")
  /\ UNCHANGED <<flow, size, trust, sess, shown, saved, others, sharing>>

\* The request never reaches the desktop.
NoRoute(s) ==
  /\ phone[s].pc = "send"
  /\ NextHost(s)
  /\ UNCHANGED <<flow, size, trust, sess, shown, saved, others, sharing, thread>>

\* Slip: the answer to a request that timed out counts as that of its repetition.
TimesOutKept(h) ==
  /\ Busy(h) /\ thread[h].live
  /\ NextHost(thread[h].s)
  /\ UNCHANGED <<flow, size, trust, sess, shown, saved, others, sharing, thread>>

\* The phone's time is over while the desktop is still at work.
TimesOut(h) ==
  /\ Busy(h) /\ thread[h].live
  /\ thread' = [thread EXCEPT ![h].live = FALSE]
  /\ NextHost(thread[h].s)
  /\ UNCHANGED <<flow, size, trust, sess, shown, saved, others, sharing>>

-----------------------------------------------------------------------------
(* An upload: _do_transfer_image and _do_transfer_text.                    *)

Goes(h, at) == thread' = [thread EXCEPT ![h].at = at]

\* The handler goes on with a state that it has seen.
Saw(h, at, old, then) ==
  thread' = [thread EXCEPT ![h] = [at |-> at, s |-> @.s, i |-> @.i, old |-> old, then |-> then, live |-> @.live]]

\* The batch goes on with its next item, or is complete.
NextItem(s) == IF phone[s].i + 1 \in Items(s)
               THEN phone' = [phone EXCEPT ![s] = [pc |-> "send", i |-> @.i + 1, tries |-> @.tries, again |-> @.again]]
               ELSE Steps(s, "ok")

\* The handler ends with an answer, which may be lost or find nobody.
Answer(h, ok) ==
  LET s == thread[h].s IN
  /\ thread' = [thread EXCEPT ![h] = Idle]
  /\ IF ~thread[h].live THEN UNCHANGED phone
     ELSE \/ IF ok THEN NextItem(s) ELSE Steps(s, "failed")
          \/ NextHost(s)

At(h, at) == Busy(h) /\ thread[h].at = at

\* The session id is signed with a key whose certificate the desktop has, from
\* the pairing or from the handshake of this session.
Signed(s) == flow[s] = "revisit" \/ trust[s] # "none"

\* handle_revisit_transfer: bootstrap, TRANSFERRING unless it is, the batch's size.
MayRevisit(s) == IF Have(s) THEN sess[s].st = "transferring" ELSE ~Full

Revisited(s) ==
  [st |-> "transferring",
   want |-> IF size[s] > 0 THEN size[s] ELSE IF Have(s) THEN sess[s].want ELSE 0,
   got |-> IF Have(s) THEN sess[s].got ELSE 0]

\* The trust session decides: trusted, unknown (a revisit, whose session is
\* opened or found), or refused.
Enter(h) ==
  LET s == thread[h].s IN
  /\ At(h, "enter")
  /\ IF trust[s] = "trusted" THEN Goes(h, "receive") /\ UNCHANGED <<sess, shown, phone>>
     ELSE IF trust[s] = "none" /\ Signed(s) /\ MayRevisit(s)
     THEN /\ sess' = [sess EXCEPT ![s] = Revisited(s)]
          /\ Show(s, "transferring")
          /\ Goes(h, "receive")
          /\ UNCHANGED phone
     ELSE Answer(h, FALSE) /\ UNCHANGED <<sess, shown>>
  /\ UNCHANGED <<flow, size, trust, saved, others, sharing>>

\* A text goes to the clipboard of any session there is; receive_image looks at
\* the batch before the image is written.
TakesText(s) == Have(s)
TakesImage(s) == Have(s) /\ ~(sess[s].want > 0 /\ sess[s].got >= sess[s].want)

Receive(h) ==
  LET s == thread[h].s IN
  /\ At(h, "receive")
  /\ IF IF size[s] = 0 THEN TakesText(s) ELSE TakesImage(s)
     THEN Goes(h, "write") /\ UNCHANGED phone
     ELSE Answer(h, FALSE)
  /\ UNCHANGED <<flow, size, trust, sess, shown, saved, others, sharing>>

\* Slip: an image that cannot be written is answered like the others.
WriteSwallows(h) ==
  LET s == thread[h].s IN
  /\ At(h, "write")
  /\ \/ saved' = [saved EXCEPT ![s] = @ \cup {thread[h].i}] /\ Goes(h, "look")
     \/ Goes(h, "answer") /\ UNCHANGED saved
  /\ UNCHANGED <<flow, size, trust, sess, shown, phone, others, sharing>>

\* A text of a revisit is not counted.
AfterWrite(s) == IF size[s] = 0 /\ flow[s] = "revisit" THEN "deliver" ELSE "look"

\* The delivery service writes the file, or cannot.
Write(h) ==
  LET s == thread[h].s IN
  /\ At(h, "write")
  /\ \/ /\ saved' = [saved EXCEPT ![s] = @ \cup {thread[h].i}]
        /\ Goes(h, AfterWrite(s))
        /\ UNCHANGED phone
     \/ Answer(h, FALSE) /\ UNCHANGED saved
  /\ UNCHANGED <<flow, size, trust, sess, shown, others, sharing>>

\* An exception of the orchestrator is logged, and the phone is told "delivered".
Swallowed(h) == Goes(h, "answer") /\ UNCHANGED <<sess, shown>>

\* handle_transfer_received: the session it reads here decides about the
\* transition that it makes after the count.
Look(h) ==
  LET s == thread[h].s IN
  /\ At(h, "look")
  /\ IF ~Have(s) THEN Swallowed(h)
     ELSE /\ sess' = [sess EXCEPT ![s].want = IF @ = 0 THEN size[s] ELSE @]
          /\ Saw(h, "count", sess[s].st, "none")
          /\ UNCHANGED shown
  /\ UNCHANGED <<flow, size, trust, saved, phone, others, sharing>>

Count(h) ==
  LET s == thread[h].s IN
  /\ At(h, "count")
  /\ IF ~Have(s) THEN Swallowed(h)
     ELSE sess' = [sess EXCEPT ![s].got = @ + 1] /\ Goes(h, "move") /\ UNCHANGED shown
  /\ UNCHANGED <<flow, size, trust, saved, phone, others, sharing>>

\* InstantShareSessionRegistry.transition, whose caller publishes the session
\* it returns and goes on with `then'.
Transition(h, st, then) ==
  LET s == thread[h].s IN
  IF Have(s) /\ st \in Allowed[sess[s].st]
  THEN /\ sess' = [sess EXCEPT ![s].st = st]
       /\ Saw(h, "publish", st, then)
       /\ UNCHANGED shown
  ELSE Swallowed(h)

\* Slip: every image asks for the transition to TRANSFERRING.
MovesAlways(h) ==
  /\ At(h, "move") /\ Transition(h, "transferring", "check")
  /\ UNCHANGED <<flow, size, trust, saved, phone, others, sharing>>

Moves(h) ==
  LET s == thread[h].s IN
  /\ At(h, "move")
  /\ IF thread[h].old # "transferring" THEN Transition(h, "transferring", "check")
     ELSE IF ~Have(s) THEN Swallowed(h)
     ELSE /\ Saw(h, "publish", sess[s].st, "check")
          /\ UNCHANGED <<sess, shown>>
  /\ UNCHANGED <<flow, size, trust, saved, phone, others, sharing>>

\* The lifecycle event, with the state that the handler saw.
Publish(h) ==
  LET s == thread[h].s IN
  /\ At(h, "publish")
  /\ Show(s, thread[h].old)
  /\ Saw(h, thread[h].then, "none", "none")
  /\ UNCHANGED <<flow, size, trust, sess, saved, phone, others, sharing>>

\* Slip: the image that is being counted is counted once more.
CompleteEarly(s) == sess[s].want = 0 \/ sess[s].got + 1 >= sess[s].want

Complete(s) == sess[s].want = 0 \/ sess[s].got >= sess[s].want

Check(h) ==
  /\ At(h, "check")
  /\ Goes(h, IF Have(thread[h].s) /\ Complete(thread[h].s) THEN "deliver" ELSE "answer")
  /\ UNCHANGED <<receiving, sharing>>

\* handle_delivery_complete: DELIVERING unless another handler was first, then DONE.
Deliver(h) ==
  LET s == thread[h].s IN
  /\ At(h, "deliver")
  /\ IF ~Have(s) \/ ~Complete(s) THEN Swallowed(h)
     ELSE /\ thread' = [thread EXCEPT ![h].at = IF sess[s].st = "delivering" THEN "done" ELSE "delivering"]
          /\ UNCHANGED <<sess, shown>>
  /\ UNCHANGED <<flow, size, trust, saved, phone, others, sharing>>

Delivering(h) ==
  /\ At(h, "delivering") /\ Transition(h, "delivering", "done")
  /\ UNCHANGED <<flow, size, trust, saved, phone, others, sharing>>

Done(h) ==
  /\ At(h, "done") /\ Transition(h, "done", "answer")
  /\ UNCHANGED <<flow, size, trust, saved, phone, others, sharing>>

Delivered(h) ==
  /\ At(h, "answer") /\ Answer(h, TRUE)
  /\ UNCHANGED <<flow, size, trust, sess, shown, saved, others, sharing>>

\* The timer of a session that has ended a minute ago: no handler is in the
\* middle of its work, but an upload may still be on its way ("enter").
Cleanup(s) ==
  /\ Have(s) /\ sess[s].st = "done" /\ \A h \in Serving(s) : thread[h].at = "enter"
  /\ sess' = [sess EXCEPT ![s] = Absent]
  /\ UNCHANGED <<flow, size, trust, shown, saved, phone, others, sharing, thread>>

Others ==
  /\ others' \in 0 .. MaxOthers
  /\ others' # others
  /\ others' > others => ~Full
  /\ UNCHANGED <<flow, size, trust, sess, shown, saved, phone, sharing, thread>>

-----------------------------------------------------------------------------
(* A stash: QRTriggerHandler, WebRTCPeer and the window with the QR code.  *)

Offered(s) == stash[s] # Absent /\ ~stash[s].claimed /\ ~stash[s].expired

Fresh == [claimed |-> FALSE, expired |-> FALSE, timer |-> TRUE]

\* A text is kept in the stash itself, images stay where they are.
Files(s) == IF size[s] = 0 THEN {} ELSE Items(s)

NewTrust(s) == trust' = [trust EXCEPT ![s] = "fresh"]
PeerStarts(s) == peer' = [peer EXCEPT ![s] = "started"]

\* The trust session of the stash is there before its peer starts.
Trigger(s) ==
  /\ ~ToPc(s) /\ stash[s] = Absent
  /\ stash' = [stash EXCEPT ![s] = Fresh]
  /\ NewTrust(s)
  /\ PeerStarts(s)
  /\ qr' = [qr EXCEPT ![s] = "shown"]
  /\ UNCHANGED <<flow, size, sess, shown, saved, phone, others, late, gone, thread>>

\* A phone on the local network proves the code of the QR code.
Handshakes(s) ==
  /\ ~ToPc(s) /\ trust[s] = "fresh"
  /\ Keys(s, "fresh")
  /\ UNCHANGED <<flow, size, sess, shown, saved, phone, others, sharing, thread>>

Confirms(s) ==
  /\ ~ToPc(s) /\ trust[s] = "keyed"
  /\ Trusts(s)
  /\ UNCHANGED <<flow, size, sess, shown, saved, phone, others, sharing, thread>>

\* The peer joins the relay and offers a connection, which a browser takes and
\* proves the code, or it is gone for good.
PeerJoins(s) ==
  /\ peer[s] = "started"
  /\ peer' = [peer EXCEPT ![s] = "joined"]
  /\ UNCHANGED <<receiving, stash, late, gone, qr, thread>>

PeerAuth(s) ==
  /\ peer[s] = "joined"
  /\ peer' = [peer EXCEPT ![s] = "auth"]
  /\ UNCHANGED <<receiving, stash, late, gone, qr, thread>>

PeerLeaves(s) ==
  /\ peer[s] \in {"started", "joined", "auth"}
  /\ peer' = [peer EXCEPT ![s] = "left"]
  /\ UNCHANGED <<receiving, stash, late, gone, qr, thread>>

MayRead(s) == ~ToPc(s) /\ (trust[s] = "trusted" \/ peer[s] = "auth")

Begin(s, h) ==
  /\ MayRead(s) /\ ~Busy(h)
  /\ \E at \in {"manifest", "open"}, i \in Items(s) :
        /\ at = "manifest" => i = 1
        /\ thread' = [thread EXCEPT ![h] = Request(at, s, i)]
  /\ UNCHANGED <<receiving, sharing>>

Ends(h) == thread' = [thread EXCEPT ![h] = Idle]

\* The window goes with the first notice and shows what it said.
Notify(s, what) == qr' = [qr EXCEPT ![s] = IF @ = "shown" THEN what ELSE @]

\* Slip: the timer is off and the stash is not marked.
InvalidateUnmarked(s) ==
  /\ stash' = [stash EXCEPT ![s].claimed = FALSE, ![s].timer = FALSE]
  /\ Notify(s, "expired")

Invalidate(s) ==
  /\ stash' = [stash EXCEPT ![s].expired = TRUE, ![s].claimed = FALSE, ![s].timer = FALSE]
  /\ Notify(s, "expired")

\* retrieve_stash_content: expired, claimed, then the time, one after the other.
Manifest(h) ==
  /\ At(h, "manifest")
  /\ IF Offered(thread[h].s) THEN Goes(h, "time") ELSE Ends(h)
  /\ UNCHANGED <<receiving, sharing>>

ManifestTime(h) ==
  LET s == thread[h].s IN
  /\ At(h, "time")
  /\ IF late[s] THEN Invalidate(s) ELSE UNCHANGED <<stash, qr>>
  /\ Ends(h)
  /\ UNCHANGED <<receiving, late, gone, peer>>

\* retrieve_stash_file: expired, the file's bytes, then the claim.
Open(h) ==
  /\ At(h, "open")
  /\ IF stash[thread[h].s].expired THEN Ends(h) ELSE Goes(h, "read")
  /\ UNCHANGED <<receiving, sharing>>

Read(h) ==
  LET s == thread[h].s IN
  /\ At(h, "read")
  /\ IF thread[h].i \in gone[s] THEN Invalidate(s) /\ Ends(h)
     ELSE Goes(h, "claim") /\ UNCHANGED <<stash, qr>>
  /\ UNCHANGED <<receiving, late, gone, peer>>

Claim(h) ==
  LET s == thread[h].s IN
  /\ At(h, "claim")
  /\ IF stash[s].claimed
     THEN UNCHANGED stash /\ Ends(h)
     ELSE /\ stash' = [stash EXCEPT ![s].claimed = TRUE, ![s].timer = FALSE]
          /\ Goes(h, "notice")
  /\ UNCHANGED <<receiving, late, gone, peer, qr>>

Notice(h) ==
  /\ At(h, "notice")
  /\ Notify(thread[h].s, "claimed")
  /\ Ends(h)
  /\ UNCHANGED <<receiving, stash, late, gone, peer>>

\* The window's button; it closes the window as well.
CancelStash(s) ==
  /\ qr[s] = "shown" /\ stash[s] # Absent
  /\ stash' = IF Offered(s) THEN [stash EXCEPT ![s].expired = TRUE, ![s].timer = FALSE] ELSE stash
  /\ qr' = [qr EXCEPT ![s] = "cancelled"]
  /\ UNCHANGED <<receiving, late, gone, peer, thread>>

Elapse(s) ==
  /\ stash[s] # Absent /\ ~late[s]
  /\ late' = [late EXCEPT ![s] = TRUE]
  /\ UNCHANGED <<receiving, stash, gone, peer, qr, thread>>

TimerFired(s) ==
  /\ stash[s] # Absent /\ stash[s].timer /\ late[s]
  /\ stash' = [stash EXCEPT ![s].timer = FALSE, ![s].expired = @ \/ ~stash[s].claimed]
  /\ IF stash[s].claimed THEN UNCHANGED qr ELSE Notify(s, "expired")
  /\ UNCHANGED <<receiving, late, gone, peer, thread>>

UserRemoves(s) ==
  /\ stash[s] # Absent /\ Cardinality(gone[s]) < MaxGone
  /\ \E i \in Files(s) \ gone[s] : gone' = [gone EXCEPT ![s] = @ \cup {i}]
  /\ UNCHANGED <<receiving, stash, late, peer, qr, thread>>

-----------------------------------------------------------------------------
Init ==
  /\ flow \in [Sessions -> Flows]
  /\ size \in [Sessions -> Sizes]
  /\ trust = [s \in Sessions |-> "none"]
  /\ sess = [s \in Sessions |-> Absent]
  /\ shown = [s \in Sessions |-> "none"]
  /\ saved = [s \in Sessions |-> {}]
  /\ phone = [s \in Sessions |-> [pc |-> "idle", i |-> 1, tries |-> Hosts, again |-> FALSE]]
  /\ stash = [s \in Sessions |-> Absent]
  /\ late = [s \in Sessions |-> FALSE]
  /\ gone = [s \in Sessions |-> {}]
  /\ peer = [s \in Sessions |-> "none"]
  /\ qr = [s \in Sessions |-> "none"]
  /\ thread = [h \in Handlers |-> Idle]
  /\ others = 0

Phone(s) == Share(s) \/ Handshake(s) \/ Apply(s) \/ Confirm(s) \/ NoRoute(s)

Upload(h) == \/ Enter(h) \/ Receive(h) \/ Write(h) \/ Look(h) \/ Count(h) \/ Moves(h)
             \/ Publish(h) \/ Check(h) \/ Deliver(h) \/ Delivering(h) \/ Done(h) \/ Delivered(h)

Reader(h) == Manifest(h) \/ ManifestTime(h) \/ Open(h) \/ Read(h) \/ Claim(h) \/ Notice(h)

Sharing(s) == \/ Trigger(s) \/ Handshakes(s) \/ Confirms(s) \/ PeerJoins(s) \/ PeerAuth(s) \/ PeerLeaves(s)
              \/ CancelStash(s) \/ Elapse(s) \/ TimerFired(s) \/ UserRemoves(s)

Next ==
  \/ Others
  \/ \E s \in Sessions : Phone(s) \/ Cleanup(s) \/ CloseWindow(s) \/ CancelInWindow(s) \/ Sharing(s)
  \/ \E h \in Handlers : TimesOut(h) \/ Upload(h) \/ Reader(h)
  \/ \E s \in Sessions, h \in Handlers : Send(s, h) \/ Begin(s, h)

\* Threads run, clocks go on, and a stash's timer fires.
Fairness ==
  /\ \A h \in Handlers : WF_vars(Upload(h)) /\ WF_vars(Reader(h))
  /\ \A s \in Sessions : WF_vars(Elapse(s)) /\ WF_vars(TimerFired(s))

Spec == Init /\ [][Next]_vars /\ Fairness

-----------------------------------------------------------------------------
(* Properties.                                                             *)

\* Every variable keeps its type, and a phone waits for exactly one handler.
TypeOK ==
  /\ flow \in [Sessions -> Flows] /\ size \in [Sessions -> Sizes]
  /\ trust \in [Sessions -> {"none", "fresh", "keyed", "pin", "trusted"}]
  /\ \A s \in Sessions : Have(s) =>
        /\ sess[s].st \in DOMAIN Allowed
        /\ sess[s].want \in Sizes \cup {0} /\ sess[s].got \in Nat
  /\ shown \in [Sessions -> {"none", "waiting", "pin", "transferring", "delivering", "success", "aborted"}]
  /\ \A s \in Sessions :
        /\ saved[s] \subseteq Items(s) /\ gone[s] \subseteq Files(s)
        /\ phone[s].pc \in {"idle", "hand", "apply", "confirm", "send", "wait", "ok", "failed"}
        /\ phone[s].i \in Items(s) /\ phone[s].tries \in 1 .. Hosts
        /\ Cardinality({h \in Serving(s) : thread[h].live}) = IF phone[s].pc = "wait" THEN 1 ELSE 0
  /\ \A h \in Handlers : Busy(h) => thread[h].s \in Sessions /\ thread[h].i \in Items(thread[h].s)
  /\ late \in [Sessions -> BOOLEAN]
  /\ peer \in [Sessions -> {"none", "started", "joined", "auth", "left"}]
  /\ qr \in [Sessions -> {"none", "shown", "claimed", "expired", "cancelled"}]
  /\ others \in 0 .. MaxOthers

\* A session is DONE only when every image of its batch is in the downloads
\* folder (multi-image-session-pc/spec.md; orchestrator.handle_delivery_complete).
DoneMeansAll ==
  \A s \in Sessions : Have(s) /\ sess[s].st \in {"delivering", "done"} => saved[s] = Items(s)

\* The same for a phone that did not have to start its batch again.
DoneMeansAllOnce ==
  \A s \in Sessions : Have(s) /\ sess[s].st \in {"delivering", "done"} /\ ~phone[s].again
                         => saved[s] = Items(s)

\* A phone that was told "delivered" for its whole batch has all of it in the
\* downloads folder, however often it started again.
OkMeansSaved == \A s \in Sessions : phone[s].pc = "ok" => saved[s] = Items(s)

\* When a batch was answered image by image at the first attempt, its session
\* ends, although the handlers swallow the errors of the orchestrator.
OkMeansDone ==
  \A s \in Sessions : phone[s].pc = "ok" /\ ~phone[s].again ~> (~Have(s) \/ sess[s].st = "done")

\* A stash does not stay on offer: it is claimed, cancelled, or expires.
StashEnds == \A s \in Sessions : stash[s] # Absent ~> ~Offered(s)

=============================================================================
