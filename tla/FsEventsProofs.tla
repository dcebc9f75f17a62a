--------------------------- MODULE FsEventsProofs ---------------------------
(***************************************************************************)
(* Proofs about FsEvents.  Where paths are used once, an event that waits   *)
(* tells what is still true of its path, and a row that disagrees with the *)
(* disk has an event or a worker that will change it.  Where files that    *)
(* are all indexed are deleted and renamed, the events that wait, applied  *)
(* in order, lead from the table to the disk.                              *)
(***************************************************************************)
EXTENDS FsEvents, FiniteSetTheorems, TLAPS

-----------------------------------------------------------------------------
(* Sequences of events. *)

\* A set of numbers that is not empty has a least member.
LEMMA LeastMember ==
    ASSUME NEW S \in SUBSET Nat, S # {}
    PROVE  \E i \in S : \A j \in S : i <= j
<1> DEFINE R == OpToRel(<, Nat)
<1>1. \A i, j \in Nat : <<j, i>> \in R <=> j < i
  BY DEF OpToRel
<1>2. IsWellFoundedOn(R, Nat)
  BY NatLessThanWellFounded
<1> HIDE DEF R
<1>3. \E i \in S : \A j \in S : <<j, i>> \notin R
  BY <1>2, WFMin
<1>4. PICK i \in S : \A j \in S : <<j, i>> \notin R
  BY <1>3
<1>5. \A j \in S : i <= j
  <2> SUFFICES ASSUME NEW j \in S PROVE i <= j
    OBVIOUS
  <2>1. i \in Nat /\ j \in Nat /\ ~(j < i)
    BY <1>1, <1>4
  <2>2. QED
    BY <2>1
<1>6. QED
  BY <1>5

\* The events that are kept are computed from the front on.
KeptBy(s, P, n, g) ==
    g = [i \in 0..n |-> IF i = 0 THEN <<>>
                        ELSE IF s[i].src \in P THEN Append(g[i - 1], s[i]) ELSE g[i - 1]]

\* There is such a function for every length.
LEMMA KeptExists ==
    ASSUME NEW s, NEW P
    PROVE  \A n \in Nat : \E g : KeptBy(s, P, n, g)
<1> DEFINE Bad == {n \in Nat : ~\E g : KeptBy(s, P, n, g)}
<1> SUFFICES ASSUME Bad # {} PROVE FALSE
  OBVIOUS
<1>1. PICK n \in Bad : \A j \in Bad : n <= j
  BY LeastMember
<1>2. n # 0
  <2>1. KeptBy(s, P, 0, [i \in 0..0 |-> <<>>])
    BY DEF KeptBy
  <2>2. QED
    BY <2>1
<1>3. PICK g : KeptBy(s, P, n - 1, g)
  BY <1>1, <1>2
<1> DEFINE h == [i \in 0..n |-> IF i = n THEN IF s[n].src \in P THEN Append(g[n - 1], s[n]) ELSE g[n - 1]
                                ELSE g[i]]
<1>4. KeptBy(s, P, n, h)
  <2>1. \A i \in 0..(n - 1) : h[i] = g[i]
    BY <1>1
  <2>2. \A i \in 0..(n - 1) : g[i] = IF i = 0 THEN <<>>
                        ELSE IF s[i].src \in P THEN Append(g[i - 1], s[i]) ELSE g[i - 1]
    BY <1>3 DEF KeptBy
  <2>3. h[n] = IF s[n].src \in P THEN Append(g[n - 1], s[n]) ELSE g[n - 1]
    BY <1>1
  <2> DEFINE k == [i \in 0..n |-> IF i = 0 THEN <<>>
                        ELSE IF s[i].src \in P THEN Append(h[i - 1], s[i]) ELSE h[i - 1]]
  <2>4. \A i \in 0..n : h[i] = k[i]
    <3> SUFFICES ASSUME NEW i \in 0..n PROVE h[i] = k[i]
      OBVIOUS
    <3> HIDE DEF h
    <3>1. CASE i = n
      BY <1>1, <1>2, <2>1, <2>3, <3>1
    <3>2. CASE i # n /\ i = 0
      BY <1>1, <1>2, <2>1, <2>2, <3>2
    <3>3. CASE i # n /\ i # 0
      <4>1. i \in 0..(n - 1) /\ i - 1 \in 0..(n - 1)
        BY <1>1, <3>3
      <4>2. h[i] = g[i] /\ h[i - 1] = g[i - 1]
        BY <4>1, <2>1
      <4>3. QED
        BY <4>1, <4>2, <2>2, <3>3
    <3>4. QED
      BY <3>1, <3>2, <3>3
  <2>5. h = k
    BY <2>4
  <2>6. QED
    BY <2>5 DEF KeptBy
<1>5. QED
  BY <1>1, <1>4

\* r holds the events among the first n of s whose path is in P, and no other.
Keeps(s, P, n, r) ==
    /\ r \in Seq(Event) /\ Len(r) <= n
    /\ \A k \in DOMAIN r : \E j \in 1..n : s[j] = r[k] /\ s[j].src \in P
    /\ \A j \in 1..n : s[j].src \in P => \E k \in DOMAIN r : r[k] = s[j]

\* One more event.
LEMMA KeepsOneMore ==
    ASSUME NEW s \in Seq(Event), NEW P, NEW n \in 1..Len(s), NEW r, Keeps(s, P, n - 1, r)
    PROVE  Keeps(s, P, n, IF s[n].src \in P THEN Append(r, s[n]) ELSE r)
<1>1. /\ r \in Seq(Event) /\ Len(r) <= n - 1
      /\ \A k \in DOMAIN r : \E j \in 1..(n - 1) : s[j] = r[k] /\ s[j].src \in P
      /\ \A j \in 1..(n - 1) : s[j].src \in P => \E k \in DOMAIN r : r[k] = s[j]
  BY DEF Keeps
<1>2. n \in Nat /\ Len(r) \in Nat /\ s[n] \in Event /\ DOMAIN r = 1..Len(r)
  BY <1>1
<1>3. \A j \in 1..n : j \in 1..(n - 1) \/ j = n
  BY <1>2
<1>4. \A j \in 1..(n - 1) : j \in 1..n
  BY <1>2
<1>5. CASE s[n].src \in P
  <2> DEFINE q == Append(r, s[n])
  <2>1. q \in Seq(Event) /\ Len(q) = Len(r) + 1 /\ DOMAIN q = 1..(Len(r) + 1)
    BY <1>1, <1>2
  <2>2. Len(q) <= n
    BY <1>1, <1>2, <2>1
  <2>3. q[Len(r) + 1] = s[n] /\ \A k \in 1..Len(r) : q[k] = r[k]
    BY <1>1, <1>2
  <2>4. \A k \in DOMAIN q : k \in 1..Len(r) \/ k = Len(r) + 1
    BY <1>2, <2>1
  <2>5. \A k \in 1..Len(r) : k \in DOMAIN q
    BY <1>2, <2>1
  <2>6. Len(r) + 1 \in DOMAIN q
    BY <1>2, <2>1
  <2> HIDE DEF q
  <2>7. \A k \in DOMAIN q : \E j \in 1..n : s[j] = q[k] /\ s[j].src \in P
    <3> SUFFICES ASSUME NEW k \in DOMAIN q PROVE \E j \in 1..n : s[j] = q[k] /\ s[j].src \in P
      OBVIOUS
    <3>1. CASE k = Len(r) + 1
      <4>1. n \in 1..n
        BY <1>2
      <4>2. QED
        BY <1>5, <2>3, <3>1, <4>1
    <3>2. CASE k \in 1..Len(r)
      BY <1>1, <1>2, <1>4, <2>3, <3>2
    <3>3. QED
      BY <2>4, <3>1, <3>2
  <2>8. \A j \in 1..n : s[j].src \in P => \E k \in DOMAIN q : q[k] = s[j]
    <3> SUFFICES ASSUME NEW j \in 1..n, s[j].src \in P PROVE \E k \in DOMAIN q : q[k] = s[j]
      OBVIOUS
    <3>1. CASE j = n
      BY <2>3, <2>6, <3>1
    <3>2. CASE j \in 1..(n - 1)
      <4>1. PICK k \in 1..Len(r) : r[k] = s[j]
        BY <1>1, <1>2, <3>2
      <4>2. QED
        BY <2>3, <2>5, <4>1
    <3>3. QED
      BY <1>3, <3>1, <3>2
  <2>9. QED
    BY <1>5, <2>1, <2>2, <2>7, <2>8 DEF Keeps, q
<1>6. CASE s[n].src \notin P
  <2>1. Len(r) <= n
    BY <1>1, <1>2
  <2>2. \A k \in DOMAIN r : \E j \in 1..n : s[j] = r[k] /\ s[j].src \in P
    BY <1>1, <1>4
  <2>3. \A j \in 1..n : s[j].src \in P => \E k \in DOMAIN r : r[k] = s[j]
    BY <1>1, <1>3, <1>6
  <2>4. QED
    BY <1>1, <1>6, <2>1, <2>2, <2>3 DEF Keeps
<1>7. QED
  BY <1>5, <1>6

\* Kept returns the events of s whose path is in P.
LEMMA KeptFacts ==
    ASSUME NEW s \in Seq(Event), NEW P
    PROVE  Keeps(s, P, Len(s), Kept(s, P))
<1> DEFINE Is(g) == g = [i \in 0..Len(s) |-> IF i = 0 THEN <<>>
                        ELSE IF s[i].src \in P THEN Append(g[i - 1], s[i]) ELSE g[i - 1]]
           f == CHOOSE g : Is(g)
<1>1. Len(s) \in Nat
  OBVIOUS
<1>2. Is(f)
  <2>1. PICK g : KeptBy(s, P, Len(s), g)
    BY <1>1, KeptExists
  <2>2. Is(g)
    BY <2>1 DEF KeptBy
  <2> HIDE DEF Is
  <2>3. QED
    BY <2>2, Zenon
<1>3. Kept(s, P) = f[Len(s)]
  BY DEF Kept
<1>4. /\ f[0] = <<>>
      /\ \A i \in 1..Len(s) : f[i] = IF s[i].src \in P THEN Append(f[i - 1], s[i]) ELSE f[i - 1]
  <2> HIDE DEF f
  <2>1. \A i \in 0..Len(s) : f[i] = IF i = 0 THEN <<>>
                        ELSE IF s[i].src \in P THEN Append(f[i - 1], s[i]) ELSE f[i - 1]
    BY <1>2
  <2>2. QED
    BY <1>1, <2>1
<1> HIDE DEF f
<1> DEFINE Bad == {n \in 0..Len(s) : ~Keeps(s, P, n, f[n])}
<1>5. Bad = {}
  <2> SUFFICES ASSUME Bad # {} PROVE FALSE
    OBVIOUS
  <2>1. Bad \in SUBSET Nat
    BY <1>1
  <2>2. PICK n \in Bad : \A j \in Bad : n <= j
    BY <2>1, LeastMember
  <2>3. Keeps(s, P, 0, <<>>)
    BY DEF Keeps
  <2>4. n \in 1..Len(s) /\ n - 1 \in 0..Len(s) /\ n - 1 < n
    BY <1>1, <1>4, <2>2, <2>3
  <2>5. Keeps(s, P, n - 1, f[n - 1])
    BY <2>2, <2>4
  <2>6. Keeps(s, P, n, f[n])
    BY <1>4, <2>4, <2>5, KeepsOneMore
  <2>7. QED
    BY <2>2, <2>6
<1>6. QED
  BY <1>1, <1>3, <1>5

-----------------------------------------------------------------------------
(* Renames of rows. *)

Statuses == {"none", "pending", "indexed", "removed"}

\* The table after the first n renames.
RenamedBy(rows, s, n, g) ==
    g = [i \in 0..n |-> IF i = 0 THEN rows ELSE RenameRow(g[i - 1], s[i])]

\* There is such a function for every length.
LEMMA RenamedExists ==
    ASSUME NEW s, NEW rows
    PROVE  \A n \in Nat : \E g : RenamedBy(rows, s, n, g)
<1> DEFINE Bad == {n \in Nat : ~\E g : RenamedBy(rows, s, n, g)}
<1> SUFFICES ASSUME Bad # {} PROVE FALSE
  OBVIOUS
<1>1. PICK n \in Bad : \A j \in Bad : n <= j
  BY LeastMember
<1>2. n # 0
  <2>1. RenamedBy(rows, s, 0, [i \in 0..0 |-> rows])
    BY DEF RenamedBy
  <2>2. QED
    BY <2>1
<1>3. PICK g : RenamedBy(rows, s, n - 1, g)
  BY <1>1, <1>2
<1> DEFINE h == [i \in 0..n |-> IF i = n THEN RenameRow(g[n - 1], s[n]) ELSE g[i]]
<1>4. RenamedBy(rows, s, n, h)
  <2>1. \A i \in 0..(n - 1) : h[i] = g[i]
    BY <1>1
  <2>2. \A i \in 0..(n - 1) : g[i] = IF i = 0 THEN rows ELSE RenameRow(g[i - 1], s[i])
    BY <1>3 DEF RenamedBy
  <2>3. h[n] = RenameRow(g[n - 1], s[n])
    BY <1>1
  <2> DEFINE k == [i \in 0..n |-> IF i = 0 THEN rows ELSE RenameRow(h[i - 1], s[i])]
  <2>4. \A i \in 0..n : h[i] = k[i]
    <3> SUFFICES ASSUME NEW i \in 0..n PROVE h[i] = k[i]
      OBVIOUS
    <3> HIDE DEF h
    <3>1. CASE i = n
      BY <1>1, <1>2, <2>1, <2>3, <3>1
    <3>2. CASE i # n /\ i = 0
      BY <1>1, <1>2, <2>1, <2>2, <3>2
    <3>3. CASE i # n /\ i # 0
      <4>1. i \in 0..(n - 1) /\ i - 1 \in 0..(n - 1)
        BY <1>1, <3>3
      <4>2. h[i] = g[i] /\ h[i - 1] = g[i - 1]
        BY <4>1, <2>1
      <4>3. QED
        BY <4>1, <4>2, <2>2, <3>3
    <3>4. QED
      BY <3>1, <3>2, <3>3
  <2>5. h = k
    BY <2>4
  <2>6. QED
    BY <2>5 DEF RenamedBy
<1>5. QED
  BY <1>1, <1>4

\* Renamed keeps the table's type; one event is one rename.
LEMMA RenamedFacts ==
    ASSUME NEW s \in Seq(Event), NEW rows \in [Paths -> Statuses]
    PROVE  /\ Renamed(rows, s) \in [Paths -> Statuses]
           /\ Len(s) = 0 => Renamed(rows, s) = rows
           /\ Len(s) = 1 => Renamed(rows, s) = RenameRow(rows, s[1])
<1> DEFINE Is(g) == g = [i \in 0..Len(s) |-> IF i = 0 THEN rows ELSE RenameRow(g[i - 1], s[i])]
           f == CHOOSE g : Is(g)
<1>1. Len(s) \in Nat
  OBVIOUS
<1>2. Is(f)
  <2>1. PICK g : RenamedBy(rows, s, Len(s), g)
    BY <1>1, RenamedExists
  <2>2. Is(g)
    BY <2>1 DEF RenamedBy
  <2> HIDE DEF Is
  <2>3. QED
    BY <2>2, Zenon
<1>3. Renamed(rows, s) = f[Len(s)]
  BY DEF Renamed
<1>4. /\ f[0] = rows
      /\ \A i \in 1..Len(s) : f[i] = RenameRow(f[i - 1], s[i])
  <2> HIDE DEF f
  <2>1. \A i \in 0..Len(s) : f[i] = IF i = 0 THEN rows ELSE RenameRow(f[i - 1], s[i])
    BY <1>2
  <2>2. QED
    BY <1>1, <2>1
<1> HIDE DEF f
<1> DEFINE Bad == {n \in 0..Len(s) : f[n] \notin [Paths -> Statuses]}
<1>5. Bad = {}
  <2> SUFFICES ASSUME Bad # {} PROVE FALSE
    OBVIOUS
  <2>1. Bad \in SUBSET Nat
    BY <1>1
  <2>2. PICK n \in Bad : \A j \in Bad : n <= j
    BY <2>1, LeastMember
  <2>3. n \in 1..Len(s) /\ n - 1 \in 0..Len(s) /\ n - 1 < n
    BY <1>1, <1>4, <2>2
  <2>4. f[n - 1] \in [Paths -> Statuses] /\ s[n].src \in Paths /\ s[n].dest \in Paths
    <3>1. n - 1 \notin Bad
      BY <1>1, <2>2, <2>3
    <3>2. s[n] \in Event
      BY <2>3
    <3>3. s[n].src \in Paths /\ s[n].dest \in Paths
      BY <3>2 DEF Event
    <3>4. QED
      BY <2>3, <3>1, <3>3
  <2>5. f[n] \in [Paths -> Statuses]
    <3> DEFINE r == f[n - 1]
               e == s[n]
    <3>1. r[e.src] \in Statuses /\ "none" \in Statuses
      BY <2>4 DEF Statuses
    <3>2. RenameRow(r, e) \in [Paths -> Statuses]
      <4>1. r \in [Paths -> Statuses] /\ e.src \in Paths /\ e.dest \in Paths
        BY <2>4
      <4> HIDE DEF r, e
      <4>2. QED
        BY <3>1, <4>1 DEF RenameRow
    <3>3. f[n] = RenameRow(r, e)
      BY <1>4, <2>3
    <3>4. QED
      BY <3>2, <3>3
  <2>6. QED
    BY <2>2, <2>5
<1>6. Renamed(rows, s) \in [Paths -> Statuses]
  BY <1>1, <1>3, <1>5
<1>7. Len(s) = 0 => Renamed(rows, s) = rows
  BY <1>3, <1>4
<1>8. Len(s) = 1 => Renamed(rows, s) = RenameRow(rows, s[1])
  <2> SUFFICES ASSUME Len(s) = 1 PROVE Renamed(rows, s) = RenameRow(rows, s[1])
    OBVIOUS
  <2>1. 1 \in 1..Len(s) /\ 1 - 1 = 0
    OBVIOUS
  <2>2. f[1] = RenameRow(f[1 - 1], s[1])
    BY <1>4, <2>1
  <2>3. QED
    BY <1>3, <1>4, <2>1, <2>2
<1>9. QED
  BY <1>6, <1>7, <1>8

-----------------------------------------------------------------------------
(* The front of the buffer. *)

\* The events that are taken are at the front, at least one, and of one type.
LEMMA FrontRunFacts ==
    ASSUME buffer \in Seq(Event), buffer # <<>>
    PROVE  /\ FrontRun \in 1..Len(buffer)
           /\ \A k \in 1..FrontRun : buffer[k].type = buffer[1].type
<1> DEFINE Run == {n \in DOMAIN buffer : \A k \in 1..n : buffer[k].type = buffer[1].type}
           Others == {n \in DOMAIN buffer : buffer[n].type # buffer[1].type}
<1>1. Len(buffer) \in Nat /\ 1 \in DOMAIN buffer /\ DOMAIN buffer = 1..Len(buffer)
  OBVIOUS
<1>2. \E m \in 1..Len(buffer) : Run = 1..m
  <2>1. CASE Others = {}
    BY <1>1, <2>1
  <2>2. CASE Others # {}
    <3>0. Others \in SUBSET Nat
      BY <1>1
    <3>1. PICK n \in Others : \A j \in Others : n <= j
      <4> HIDE DEF Others
      <4> QED
        BY <2>2, <3>0, LeastMember
    <3>2. n \in 2..Len(buffer)
      BY <1>1, <3>1
    <3>3. \A k \in 1..(n - 1) : buffer[k].type = buffer[1].type
      BY <1>1, <3>1, <3>2
    <3>4. Run = 1..(n - 1)
      BY <1>1, <3>1, <3>2, <3>3
    <3>5. n - 1 \in 1..Len(buffer)
      BY <1>1, <3>2
    <3> HIDE DEF Run
    <3>6. QED
      BY <3>4, <3>5
  <2>3. QED
    BY <2>1, <2>2
<1>3. PICK m \in 1..Len(buffer) : Run = 1..m
  BY <1>2
<1>4. FrontRun = m
  <2>1. Cardinality(1..m) = m
    BY <1>1, <1>3, FS_Interval
  <2>2. FrontRun = Cardinality(Run)
    BY DEF FrontRun
  <2>3. QED
    BY <1>3, <2>1, <2>2
<1>5. \A k \in 1..m : buffer[k].type = buffer[1].type
  BY <1>1, <1>3
<1>6. QED
  BY <1>3, <1>4, <1>5

-----------------------------------------------------------------------------
(* Types. *)

\* A step of a thread replaces its record and leaves the others alone.
LEMMA ThreadStep ==
    ASSUME TypeOK, NEW t \in Threads, NEW r \in Thread, agent' = [agent EXCEPT ![t] = r]
    PROVE  /\ agent' \in [Threads -> Thread]
           /\ agent'[t] = r
           /\ \A o \in Threads \ {t} : agent'[o] = agent[o]
  BY DEF TypeOK

\* The fields of a thread's record.
LEMMA ThreadFacts ==
    ASSUME TypeOK, NEW t \in Threads
    PROVE  /\ agent[t] \in Thread
           /\ agent[t].pc \in PCs /\ agent[t].todo \in Seq(Event) /\ agent[t].files \in SUBSET Paths
  BY DEF TypeOK, Thread

\* The records that threads are given.
LEMMA Records ==
    /\ Idle \in Thread /\ Idle.pc = "idle" /\ Idle.todo = <<>> /\ Idle.files = {}
    /\ \A pc \in PCs, todo \in Seq(Event), files \in SUBSET Paths :
          [pc |-> pc, todo |-> todo, files |-> files] \in Thread
<1>1. <<>> \in Seq(Event) /\ {} \in SUBSET Paths /\ "idle" \in PCs
  BY DEF PCs
<1>2. QED
  BY <1>1 DEF Idle, Thread

\* What the steps of the threads leave alone.
LEMMA TypedStep ==
    ASSUME TypeOK, agent' \in [Threads -> Thread], row' \in [Paths -> Statuses],
           buffer' \in Seq(Event), list' \in SUBSET Workers, stopped' \in SUBSET Workers,
           up' \in BOOLEAN, left' \in SUBSET Paths,
           UNCHANGED <<disk, used, reported, changes, scenario, ready>>
    PROVE  TypeOK'
<1>1. ready' \in BOOLEAN
  BY Zenon DEF TypeOK
<1>2. QED
  BY <1>1 DEF TypeOK, Thread, Event, Threads, Statuses

\* Most of them leave all of the world alone.
LEMMA WorldStays ==
    ASSUME TypeOK, UNCHANGED world
    PROVE  /\ UNCHANGED <<disk, used, reported, changes, scenario, ready, left>>
           /\ left' \in SUBSET Paths
  BY DEF TypeOK, world

\* What each action does to the threads, and that it keeps the types.
LEMMA DispatchMoves ==
    ASSUME TypeOK, Dispatch
    PROVE  /\ TypeOK'
           /\ agent["dispatcher"].pc = "idle"
           /\ agent'["dispatcher"].pc = "try" /\ agent'["dispatcher"].files = {}
           /\ \A o \in Threads \ {"dispatcher"} : agent'[o] = agent[o]
<1>1. /\ reported # <<>> /\ reported' = Tail(reported) /\ buffer' = Append(buffer, Head(reported))
      /\ agent' = Set("dispatcher", "try", <<>>) /\ agent["dispatcher"].pc = "idle"
      /\ UNCHANGED <<disk, used, row, list, stopped, changes, up, scenario, ready, left>>
  BY DEF Dispatch
<1> DEFINE r == [pc |-> "try", todo |-> <<>>, files |-> {}]
<1>2. r \in Thread /\ "dispatcher" \in Threads
  BY Records DEF PCs, Threads, Thread, Idle
<1>3. agent' = [agent EXCEPT !["dispatcher"] = r]
  BY <1>1 DEF Set
<1>4. r.pc = "try" /\ r.files = {}
  OBVIOUS
<1> HIDE DEF r
<1>5. /\ agent' \in [Threads -> Thread] /\ agent'["dispatcher"] = r
      /\ \A o \in Threads \ {"dispatcher"} : agent'[o] = agent[o]
  BY <1>2, <1>3, ThreadStep
<1>6. reported \in Seq(Event) /\ buffer \in Seq(Event)
  BY DEF TypeOK
<1>7. reported' \in Seq(Event) /\ buffer' \in Seq(Event)
  BY <1>1, <1>6
<1>8. TypeOK'
  <2>1. /\ disk' \subseteq Paths /\ used' \subseteq Paths /\ list' \subseteq Workers
        /\ stopped' \subseteq Workers /\ changes' \in 0..MaxEvents
        /\ row' \in [Paths -> {"none", "pending", "indexed", "removed"}] /\ scenario' \in Scenarios
        /\ left' \subseteq Paths
    BY <1>1 DEF TypeOK
  <2>2. up' \in BOOLEAN /\ ready' \in BOOLEAN
    BY <1>1, Zenon DEF TypeOK
  <2>3. QED
    BY <1>5, <1>7, <2>1, <2>2 DEF TypeOK, Threads, Thread, Event
<1>9. QED
  BY <1>1, <1>4, <1>5, <1>8

LEMMA TryNextBatchMoves ==
    ASSUME TypeOK, NEW t \in Threads, TryNextBatch(t)
    PROVE  /\ TypeOK'
           /\ agent[t].pc = "try" /\ agent'[t].files = {}
           /\ \A o \in Threads \ {t} : agent'[o] = agent[o]
           /\ \/ agent'[t] = Idle /\ buffer' = buffer /\ (buffer = <<>> \/ list # {})
              \/ /\ buffer # <<>> /\ list = {}
                 /\ agent'[t].pc = buffer[1].type
                 /\ agent'[t].todo = SubSeq(buffer, 1, FrontRun)
                 /\ buffer' = SubSeq(buffer, FrontRun + 1, Len(buffer))
           /\ UNCHANGED <<disk, used, row, reported, list, stopped, changes, up, scenario, left>>
<1>1. agent[t].pc = "try" /\ UNCHANGED <<world, row, list, stopped, up>>
  BY DEF TryNextBatch
<1>2. UNCHANGED <<disk, used, row, reported, list, stopped, changes, up, scenario, left>>
  BY <1>1 DEF world
<1>3. buffer \in Seq(Event) /\ row \in [Paths -> Statuses]
      /\ list \in SUBSET Workers /\ stopped \in SUBSET Workers /\ up \in BOOLEAN
  BY DEF TypeOK, Statuses
<1>4. CASE (buffer = <<>> \/ list # {}) /\ agent' = End(t) /\ UNCHANGED buffer
  <2>1. agent' = [agent EXCEPT ![t] = Idle] /\ buffer' = buffer
    BY <1>4 DEF End
  <2>2. /\ agent' \in [Threads -> Thread] /\ agent'[t] = Idle
        /\ \A o \in Threads \ {t} : agent'[o] = agent[o]
    BY <2>1, Records, ThreadStep
  <2>3. TypeOK'
    BY <1>1, <1>2, <1>3, <2>1, <2>2, WorldStays, TypedStep
  <2>4. QED
    BY <1>1, <1>2, <1>4, <2>1, <2>2, <2>3, Records
<1>5. CASE /\ buffer # <<>> /\ list = {}
           /\ agent' = Set(t, buffer[1].type, SubSeq(buffer, 1, FrontRun))
           /\ buffer' = SubSeq(buffer, FrontRun + 1, Len(buffer))
  <2> DEFINE r == [pc |-> buffer[1].type, todo |-> SubSeq(buffer, 1, FrontRun), files |-> {}]
  <2>1. FrontRun \in 1..Len(buffer) /\ Len(buffer) \in Nat
    BY <1>3, <1>5, FrontRunFacts
  <2>2. SubSeq(buffer, 1, FrontRun) \in Seq(Event)
    BY <1>3, <2>1
  <2>3. SubSeq(buffer, FrontRun + 1, Len(buffer)) \in Seq(Event)
    BY <1>3, <2>1
  <2>4. buffer[1].type \in PCs
    <3>1. buffer[1] \in Event
      BY <1>3, <2>1
    <3>2. QED
      BY <3>1 DEF Event, PCs
  <2>5. r \in Thread
    BY <2>2, <2>4, Records
  <2>6. agent' = [agent EXCEPT ![t] = r]
    BY <1>5 DEF Set
  <2>7. r.pc = buffer[1].type /\ r.todo = SubSeq(buffer, 1, FrontRun) /\ r.files = {}
    OBVIOUS
  <2> HIDE DEF r
  <2>8. /\ agent' \in [Threads -> Thread] /\ agent'[t] = r
        /\ \A o \in Threads \ {t} : agent'[o] = agent[o]
    BY <2>5, <2>6, ThreadStep
  <2>9. TypeOK'
    BY <1>1, <1>2, <1>3, <1>5, <2>3, <2>8, WorldStays, TypedStep
  <2>10. QED
    BY <1>1, <1>2, <1>5, <2>7, <2>8, <2>9
<1>6. QED
  BY <1>4, <1>5 DEF TryNextBatch

LEMMA OnCreatedMoves ==
    ASSUME TypeOK, NEW t \in Threads, OnCreated(t)
    PROVE  /\ TypeOK'
           /\ agent[t].pc = "created" /\ agent'[t].files = {}
           /\ \A o \in Threads \ {t} : agent'[o] = agent[o]
           /\ LET images == Kept(agent[t].todo, disk \cap Images)
              IN  IF images = <<>> THEN agent'[t] = Idle
                  ELSE agent'[t].pc = "spawn" /\ agent'[t].todo = images
           /\ UNCHANGED <<disk, used, row, reported, buffer, list, stopped, changes, up, scenario, left>>
<1> DEFINE images == Kept(agent[t].todo, disk \cap Images)
           s == [pc |-> "spawn", todo |-> images, files |-> {}]
           r == IF images = <<>> THEN Idle ELSE s
<1>1. /\ agent[t].pc = "created" /\ UNCHANGED <<world, row, buffer, list, stopped, up>>
      /\ agent' = IF images = <<>> THEN End(t) ELSE Set(t, "spawn", images)
  BY DEF OnCreated
<1>2. UNCHANGED <<disk, used, row, reported, buffer, list, stopped, changes, up, scenario, left>>
  BY <1>1 DEF world
<1>3. images \in Seq(Event)
  BY ThreadFacts, KeptFacts DEF Keeps
<1>4. agent' = [agent EXCEPT ![t] = r]
  BY <1>1 DEF End, Set
<1>5. s \in Thread /\ s.pc = "spawn" /\ s.todo = images /\ s.files = {}
  <2>1. "spawn" \in PCs
    BY DEF PCs
  <2> HIDE DEF images
  <2>2. QED
    BY <1>3, <2>1, Records
<1>6. r \in Thread /\ r.files = {}
  BY <1>5, Records
<1> HIDE DEF images, s
<1>7. IF images = <<>> THEN r = Idle ELSE r.pc = "spawn" /\ r.todo = images
  BY <1>5
<1> HIDE DEF r
<1>8. /\ agent' \in [Threads -> Thread] /\ agent'[t] = r
      /\ \A o \in Threads \ {t} : agent'[o] = agent[o]
  BY <1>4, <1>6, ThreadStep
<1>9. row \in [Paths -> Statuses] /\ buffer \in Seq(Event)
      /\ list \in SUBSET Workers /\ stopped \in SUBSET Workers /\ up \in BOOLEAN
  BY DEF TypeOK, Statuses
<1>10. TypeOK'
  BY <1>1, <1>2, <1>8, <1>9, WorldStays, TypedStep
<1>11. IF images = <<>> THEN agent'[t] = Idle ELSE agent'[t].pc = "spawn" /\ agent'[t].todo = images
  BY <1>7, <1>8
<1>12. QED
  BY <1>1, <1>2, <1>6, <1>8, <1>10, <1>11 DEF images

\* The first events of todo go to a worker, the rest stay.
LEMMA SpawnWorkerMoves ==
    ASSUME TypeOK, NEW t \in Threads, SpawnWorker(t)
    PROVE  /\ TypeOK'
           /\ agent[t].pc = "spawn" /\ agent'[t].files = {}
           /\ \E w \in Workers, n \in 0..Len(agent[t].todo) :
                 /\ w # t /\ agent[w].pc = "idle" /\ agent'[w].pc = "filter" /\ list' = list \cup {w}
                 /\ agent'[w].files = {agent[t].todo[k].src : k \in 1..n}
                 /\ \A o \in Threads \ {t, w} : agent'[o] = agent[o]
                 /\ LET rest == SubSeq(agent[t].todo, n + 1, Len(agent[t].todo))
                    IN  IF rest = <<>> THEN agent'[t] = Idle
                        ELSE agent'[t].pc = "spawn" /\ agent'[t].todo = rest
           /\ UNCHANGED <<disk, used, row, reported, buffer, changes, up, scenario, left>>
<1> DEFINE todo == agent[t].todo
           n == IF Len(todo) < BatchSize THEN Len(todo) ELSE BatchSize
           paths == {todo[k].src : k \in 1..n}
           rest == SubSeq(todo, n + 1, Len(todo))
           s == [pc |-> "spawn", todo |-> rest, files |-> {}]
           r == IF rest = <<>> THEN Idle ELSE s
           x == [pc |-> "filter", todo |-> <<>>, files |-> paths]
<1>1. PICK w \in Workers :
          /\ agent[w].pc = "idle" /\ list' = list \cup {w} /\ stopped' = stopped \ {w}
          /\ agent' = [(IF rest = <<>> THEN End(t) ELSE Set(t, "spawn", rest)) EXCEPT ![w] = x]
  BY DEF SpawnWorker
<1>2. agent[t].pc = "spawn" /\ UNCHANGED <<world, row, buffer, up>>
  BY DEF SpawnWorker
<1>3. todo \in Seq(Event) /\ agent \in [Threads -> Thread]
  BY ThreadFacts DEF TypeOK
<1>4. Len(todo) \in Nat /\ BatchSize \in Nat
  BY <1>3, EventsAssumption
<1>5. n \in 0..Len(todo)
  BY <1>4
<1> HIDE DEF n
<1>6. \A k \in 1..n : todo[k].src \in Paths
  <2> SUFFICES ASSUME NEW k \in 1..n PROVE todo[k].src \in Paths
    OBVIOUS
  <2>1. k \in 1..Len(todo)
    BY <1>4, <1>5
  <2>2. todo[k] \in Event
    BY <1>3, <2>1
  <2>3. QED
    BY <2>2 DEF Event
<1>7. paths \in SUBSET Paths
  BY <1>6
<1>8. rest \in Seq(Event)
  BY <1>3, <1>4, <1>5
<1> HIDE DEF todo, paths, rest
<1>9. s \in Thread /\ s.pc = "spawn" /\ s.todo = rest /\ s.files = {}
  <2>1. "spawn" \in PCs
    BY DEF PCs
  <2>2. QED
    BY <1>8, <2>1, Records
<1>10. x \in Thread /\ x.pc = "filter" /\ x.files = paths
  <2>1. "filter" \in PCs /\ <<>> \in Seq(Event)
    BY DEF PCs
  <2>2. QED
    BY <1>7, <2>1, Records
<1> HIDE DEF x, s
<1>11. r \in Thread /\ r.files = {}
  BY <1>9, Records
<1>12. IF rest = <<>> THEN r = Idle ELSE r.pc = "spawn" /\ r.todo = rest
  BY <1>9
<1>13. (IF rest = <<>> THEN End(t) ELSE Set(t, "spawn", rest)) = [agent EXCEPT ![t] = r]
  BY DEF End, Set, s
<1> HIDE DEF r
<1>14. w \in Threads /\ w # t
  BY <1>1, <1>2 DEF Threads
<1>15. agent' = [[agent EXCEPT ![t] = r] EXCEPT ![w] = x]
  BY <1>1, <1>13
<1>16. /\ agent' \in [Threads -> Thread] /\ agent'[t] = r /\ agent'[w] = x
       /\ \A o \in Threads \ {t, w} : agent'[o] = agent[o]
  BY <1>3, <1>10, <1>11, <1>14, <1>15
<1>17. UNCHANGED <<disk, used, row, reported, buffer, changes, up, scenario, left>>
  BY <1>2 DEF world
<1>18. row \in [Paths -> Statuses] /\ buffer \in Seq(Event) /\ up \in BOOLEAN
       /\ list' \in SUBSET Workers /\ stopped' \in SUBSET Workers
  BY <1>1 DEF TypeOK, Statuses
<1>19. TypeOK'
  BY <1>2, <1>16, <1>18, WorldStays, TypedStep
<1>20. IF rest = <<>> THEN agent'[t] = Idle ELSE agent'[t].pc = "spawn" /\ agent'[t].todo = rest
  BY <1>12, <1>16
<1>21. agent'[w].pc = "filter" /\ agent'[w].files = paths /\ agent'[t].files = {}
  BY <1>10, <1>11, <1>16
<1>22. \E v \in Workers, m \in 0..Len(todo) :
          /\ v # t /\ agent[v].pc = "idle" /\ agent'[v].pc = "filter" /\ list' = list \cup {v}
          /\ agent'[v].files = {todo[k].src : k \in 1..m}
          /\ \A o \in Threads \ {t, v} : agent'[o] = agent[o]
          /\ IF SubSeq(todo, m + 1, Len(todo)) = <<>> THEN agent'[t] = Idle
             ELSE agent'[t].pc = "spawn" /\ agent'[t].todo = SubSeq(todo, m + 1, Len(todo))
  <2>1. /\ w # t /\ agent[w].pc = "idle" /\ agent'[w].pc = "filter" /\ list' = list \cup {w}
        /\ agent'[w].files = {todo[k].src : k \in 1..n}
        /\ \A o \in Threads \ {t, w} : agent'[o] = agent[o]
        /\ IF SubSeq(todo, n + 1, Len(todo)) = <<>> THEN agent'[t] = Idle
           ELSE agent'[t].pc = "spawn" /\ agent'[t].todo = SubSeq(todo, n + 1, Len(todo))
    BY <1>1, <1>14, <1>16, <1>20, <1>21 DEF paths, rest
  <2>2. QED
    BY <1>5, <2>1
<1>23. QED
  BY <1>2, <1>17, <1>19, <1>21, <1>22 DEF todo

LEMMA OnDeletedMoves ==
    ASSUME TypeOK, NEW t \in Threads, OnDeleted(t)
    PROVE  /\ TypeOK'
           /\ agent[t].pc = "deleted" /\ agent'[t] = Idle
           /\ \A o \in Threads \ {t} : agent'[o] = agent[o]
           /\ \A p \in Paths : row'[p] = IF \E k \in DOMAIN agent[t].todo : agent[t].todo[k].src = p
                                         THEN "none" ELSE row[p]
           /\ UNCHANGED <<disk, used, reported, buffer, list, stopped, changes, up, scenario, left>>
<1> DEFINE paths == {agent[t].todo[k].src : k \in DOMAIN agent[t].todo}
<1>1. /\ agent[t].pc = "deleted" /\ UNCHANGED <<world, buffer, list, stopped, up>>
      /\ row' = [p \in Paths |-> IF p \in paths THEN "none" ELSE row[p]]
      /\ agent' = [agent EXCEPT ![t] = Idle]
  BY DEF OnDeleted, End
<1>2. UNCHANGED <<disk, used, reported, buffer, list, stopped, changes, up, scenario, left>>
  BY <1>1 DEF world
<1>3. /\ agent' \in [Threads -> Thread] /\ agent'[t] = Idle
      /\ \A o \in Threads \ {t} : agent'[o] = agent[o]
  BY <1>1, Records, ThreadStep
<1>4. \A p \in Paths : p \in paths <=> \E k \in DOMAIN agent[t].todo : agent[t].todo[k].src = p
  OBVIOUS
<1> HIDE DEF paths
<1>5. row \in [Paths -> Statuses] /\ buffer \in Seq(Event)
      /\ list \in SUBSET Workers /\ stopped \in SUBSET Workers /\ up \in BOOLEAN
  BY DEF TypeOK, Statuses
<1>6. row' \in [Paths -> Statuses]
  BY <1>1, <1>5 DEF Statuses
<1>7. TypeOK'
  BY <1>1, <1>2, <1>3, <1>5, <1>6, WorldStays, TypedStep
<1>8. QED
  BY <1>1, <1>2, <1>3, <1>4, <1>7

LEMMA OnMovedMoves ==
    ASSUME TypeOK, NEW t \in Threads, OnMoved(t)
    PROVE  /\ TypeOK'
           /\ agent[t].pc = "moved"
           /\ \A o \in Threads \ {t} : agent'[o] = agent[o]
           /\ row' = Renamed(row, Kept(agent[t].todo, {p \in Paths : row[p] # "none"}))
           /\ Kept(agent[t].todo, {p \in Paths : row[p] = "none"}) = <<>> => agent'[t] = Idle
           /\ UNCHANGED <<disk, used, reported, buffer, list, stopped, changes, up, scenario, left>>
<1> DEFINE known == Kept(agent[t].todo, {p \in Paths : row[p] # "none"})
           new == Kept(agent[t].todo, {p \in Paths : row[p] = "none"})
           todo == [k \in DOMAIN new |-> [type |-> "created", src |-> new[k].dest, dest |-> new[k].dest]]
           s == [pc |-> "created", todo |-> todo, files |-> {}]
           r == IF new = <<>> THEN Idle ELSE s
<1>1. /\ agent[t].pc = "moved" /\ UNCHANGED <<world, buffer, list, stopped, up>>
      /\ row' = Renamed(row, known)
      /\ agent' = IF new = <<>> THEN End(t) ELSE Set(t, "created", todo)
  BY DEF OnMoved
<1>2. UNCHANGED <<disk, used, reported, buffer, list, stopped, changes, up, scenario, left>>
  BY <1>1 DEF world
<1>3. known \in Seq(Event) /\ new \in Seq(Event)
  BY ThreadFacts, KeptFacts DEF Keeps
<1>4. agent' = [agent EXCEPT ![t] = r]
  BY <1>1 DEF End, Set
<1> HIDE DEF new, known
<1>5. todo \in Seq(Event)
  <2>1. \A k \in 1..Len(new) : new[k].dest \in Paths
    <3> SUFFICES ASSUME NEW k \in 1..Len(new) PROVE new[k].dest \in Paths
      OBVIOUS
    <3>1. new[k] \in Event
      BY <1>3
    <3>2. QED
      BY <3>1 DEF Event
  <2>2. DOMAIN new = 1..Len(new) /\ Len(new) \in Nat
    BY <1>3
  <2>3. \A k \in 1..Len(new) : todo[k] \in Event
    BY <2>1, <2>2 DEF Event
  <2>4. todo = [k \in 1..Len(new) |-> todo[k]]
    BY <2>2
  <2> HIDE DEF todo
  <2>5. QED
    BY <2>2, <2>3, <2>4
<1> HIDE DEF todo
<1>6. s \in Thread
  <2>1. "created" \in PCs
    BY DEF PCs
  <2>2. QED
    BY <1>5, <2>1, Records
<1>7. r \in Thread /\ (new = <<>> => r = Idle)
  BY <1>6, Records
<1> HIDE DEF r
<1>8. /\ agent' \in [Threads -> Thread] /\ agent'[t] = r
      /\ \A o \in Threads \ {t} : agent'[o] = agent[o]
  BY <1>4, <1>7, ThreadStep
<1>9. row \in [Paths -> Statuses] /\ buffer \in Seq(Event)
      /\ list \in SUBSET Workers /\ stopped \in SUBSET Workers /\ up \in BOOLEAN
  BY DEF TypeOK, Statuses
<1>10. row' \in [Paths -> Statuses]
  BY <1>1, <1>3, <1>9, RenamedFacts
<1>11. TypeOK'
  BY <1>1, <1>2, <1>8, <1>9, <1>10, WorldStays, TypedStep
<1>12. QED
  BY <1>1, <1>2, <1>7, <1>8, <1>11 DEF new, known

LEMMA WorkerFilterMoves ==
    ASSUME TypeOK, NEW w \in Workers, WorkerFilter(w)
    PROVE  /\ TypeOK'
           /\ agent[w].pc = "filter" /\ agent'[w].pc \in {"leave", "insert"}
           /\ agent'[w].files = agent[w].files \cap disk \cap Images
           /\ agent'[w].files # {} => agent'[w].pc = "insert"
           /\ \A o \in Threads \ {w} : agent'[o] = agent[o]
           /\ UNCHANGED <<disk, used, row, reported, buffer, list, stopped, changes, up, scenario, left>>
<1> DEFINE files == agent[w].files \cap disk \cap Images
           r == [pc |-> IF files = {} THEN "leave" ELSE "insert", todo |-> <<>>, files |-> files]
<1>1. /\ agent[w].pc = "filter" /\ agent' = [agent EXCEPT ![w] = r]
      /\ UNCHANGED <<world, row, buffer, list, stopped, up>>
  BY DEF WorkerFilter
<1>2. UNCHANGED <<disk, used, row, reported, buffer, list, stopped, changes, up, scenario, left>>
  BY <1>1 DEF world
<1>3. w \in Threads
  BY DEF Threads
<1>4. files \in SUBSET Paths
  BY <1>3, ThreadFacts
<1> HIDE DEF files
<1>5. r \in Thread
  <2>1. "leave" \in PCs /\ "insert" \in PCs /\ <<>> \in Seq(Event)
    BY DEF PCs
  <2>2. QED
    BY <1>4, <2>1, Records
<1>6. r.files = files /\ r.pc \in {"leave", "insert"} /\ (files # {} => r.pc = "insert")
  OBVIOUS
<1> HIDE DEF r
<1>7. /\ agent' \in [Threads -> Thread] /\ agent'[w] = r
      /\ \A o \in Threads \ {w} : agent'[o] = agent[o]
  BY <1>1, <1>3, <1>5, ThreadStep
<1>8. row \in [Paths -> Statuses] /\ buffer \in Seq(Event)
      /\ list \in SUBSET Workers /\ stopped \in SUBSET Workers /\ up \in BOOLEAN
  BY DEF TypeOK, Statuses
<1>9. TypeOK'
  BY <1>1, <1>2, <1>7, <1>8, WorldStays, TypedStep
<1>10. QED
  BY <1>1, <1>2, <1>6, <1>7, <1>9 DEF files

\* A thread's record with another position.
LEMMA NewPc ==
    ASSUME NEW r \in Thread, NEW pc \in PCs
    PROVE  /\ [r EXCEPT !.pc = pc] \in Thread
           /\ [r EXCEPT !.pc = pc].pc = pc /\ [r EXCEPT !.pc = pc].files = r.files
  BY DEF Thread

LEMMA WorkerInsertMoves ==
    ASSUME TypeOK, NEW w \in Workers, WorkerInsert(w)
    PROVE  /\ TypeOK'
           /\ agent[w].pc = "insert" /\ agent'[w].pc = "index" /\ agent'[w].files = agent[w].files
           /\ \A o \in Threads \ {w} : agent'[o] = agent[o]
           /\ \A p \in Paths : row'[p] = IF p \in agent[w].files /\ row[p] \in {"none", "removed"}
                                         THEN "pending" ELSE row[p]
           /\ UNCHANGED <<disk, used, reported, buffer, list, stopped, changes, up, scenario, left>>
<1>1. /\ agent[w].pc = "insert" /\ agent' = [agent EXCEPT ![w].pc = "index"]
      /\ row' = [p \in Paths |-> IF p \in agent[w].files /\ row[p] \in {"none", "removed"}
                                 THEN "pending" ELSE row[p]]
      /\ UNCHANGED <<world, buffer, list, stopped, up>>
  BY DEF WorkerInsert
<1>2. UNCHANGED <<disk, used, reported, buffer, list, stopped, changes, up, scenario, left>>
  BY <1>1 DEF world
<1>3. w \in Threads /\ agent[w] \in Thread /\ "index" \in PCs
  BY ThreadFacts DEF Threads, PCs
<1> DEFINE r == [agent[w] EXCEPT !.pc = "index"]
<1>4. r \in Thread /\ r.pc = "index" /\ r.files = agent[w].files
  BY <1>3, NewPc
<1>5. agent' = [agent EXCEPT ![w] = r]
  BY <1>1
<1> HIDE DEF r
<1>6. /\ agent' \in [Threads -> Thread] /\ agent'[w] = r
      /\ \A o \in Threads \ {w} : agent'[o] = agent[o]
  BY <1>3, <1>4, <1>5, ThreadStep
<1>7. row \in [Paths -> Statuses] /\ buffer \in Seq(Event)
      /\ list \in SUBSET Workers /\ stopped \in SUBSET Workers /\ up \in BOOLEAN
  BY DEF TypeOK, Statuses
<1>8. row' \in [Paths -> Statuses]
  BY <1>1, <1>7 DEF Statuses
<1>9. TypeOK'
  BY <1>1, <1>2, <1>6, <1>7, <1>8, WorldStays, TypedStep
<1>10. QED
  BY <1>1, <1>2, <1>4, <1>6, <1>9

LEMMA WorkerIndexMoves ==
    ASSUME TypeOK, NEW w \in Workers, WorkerIndex(w)
    PROVE  /\ TypeOK'
           /\ agent[w].pc = "index" /\ agent'[w].pc = "leave"
           /\ \A o \in Threads \ {w} : agent'[o] = agent[o]
           /\ \A p \in Paths : row'[p] = IF p \in agent[w].files /\ row[p] = "pending"
                                         THEN IF p \in disk THEN "indexed" ELSE "removed"
                                         ELSE row[p]
           /\ UNCHANGED <<disk, used, reported, buffer, list, stopped, changes, up, scenario, left>>
<1>1. /\ agent[w].pc = "index" /\ agent' = [agent EXCEPT ![w].pc = "leave"]
      /\ row' = [p \in Paths |-> IF p \in agent[w].files /\ row[p] = "pending"
                                 THEN IF p \in disk THEN "indexed" ELSE "removed"
                                 ELSE row[p]]
      /\ UNCHANGED <<world, buffer, list, stopped, up>>
  BY DEF WorkerIndex
<1>2. UNCHANGED <<disk, used, reported, buffer, list, stopped, changes, up, scenario, left>>
  BY <1>1 DEF world
<1>3. w \in Threads /\ agent[w] \in Thread /\ "leave" \in PCs
  BY ThreadFacts DEF Threads, PCs
<1> DEFINE r == [agent[w] EXCEPT !.pc = "leave"]
<1>4. r \in Thread /\ r.pc = "leave"
  BY <1>3, NewPc
<1>5. agent' = [agent EXCEPT ![w] = r]
  BY <1>1
<1> HIDE DEF r
<1>6. /\ agent' \in [Threads -> Thread] /\ agent'[w] = r
      /\ \A o \in Threads \ {w} : agent'[o] = agent[o]
  BY <1>3, <1>4, <1>5, ThreadStep
<1>7. row \in [Paths -> Statuses] /\ buffer \in Seq(Event)
      /\ list \in SUBSET Workers /\ stopped \in SUBSET Workers /\ up \in BOOLEAN
  BY DEF TypeOK, Statuses
<1>8. row' \in [Paths -> Statuses]
  BY <1>1, <1>7 DEF Statuses
<1>9. TypeOK'
  BY <1>1, <1>2, <1>6, <1>7, <1>8, WorldStays, TypedStep
<1>10. QED
  BY <1>1, <1>2, <1>4, <1>6, <1>9

\* A row that a failing batch does not index is that of a path in left, or its
\* file is gone.
LEMMA WorkerFaultsMoves ==
    ASSUME TypeOK, NEW w \in Workers, WorkerFaults(w)
    PROVE  /\ TypeOK'
           /\ agent[w].pc = "index" /\ agent'[w].pc = "leave"
           /\ \A o \in Threads \ {w} : agent'[o] = agent[o]
           /\ \A p \in Paths :
                 IF p \in agent[w].files /\ row[p] = "pending"
                 THEN \/ row'[p] = "indexed" /\ p \in disk
                      \/ row'[p] = "pending" /\ p \in left'
                      \/ row'[p] = "removed" /\ (p \notin disk \/ p \in left')
                 ELSE row'[p] = row[p]
           /\ left \subseteq left'
           /\ UNCHANGED <<disk, used, reported, buffer, list, stopped, changes, up, scenario>>
<1> DEFINE batch == {p \in agent[w].files : row[p] = "pending"}
<1>1. PICK failed \in SUBSET batch, bad \in SUBSET batch :
          LET good == (batch \cap disk) \ (failed \cup bad)
              kept == IF good = {} THEN {} ELSE failed
          IN  \E written \in {good, {}} :
                 /\ row' = [p \in Paths |-> IF p \notin batch THEN row[p]
                                           ELSE IF p \in written THEN "indexed"
                                           ELSE IF p \in kept \cup good THEN "pending"
                                           ELSE "removed"]
                 /\ left' = left \cup failed \cup bad \cup (good \ written)
  BY DEF WorkerFaults
<1> DEFINE good == (batch \cap disk) \ (failed \cup bad)
           kept == IF good = {} THEN {} ELSE failed
<1>2. PICK written \in {good, {}} :
          /\ row' = [p \in Paths |-> IF p \notin batch THEN row[p]
                                    ELSE IF p \in written THEN "indexed"
                                    ELSE IF p \in kept \cup good THEN "pending"
                                    ELSE "removed"]
          /\ left' = left \cup failed \cup bad \cup (good \ written)
  BY <1>1
<1>3. /\ agent[w].pc = "index" /\ agent' = [agent EXCEPT ![w].pc = "leave"]
      /\ UNCHANGED <<disk, used, reported, changes, scenario, ready, buffer, list, stopped, up>>
  BY DEF WorkerFaults
<1>4. w \in Threads /\ agent[w] \in Thread /\ "leave" \in PCs /\ agent[w].files \in SUBSET Paths
  BY ThreadFacts DEF Threads, PCs
<1>5. /\ \A p : p \in batch <=> p \in agent[w].files /\ row[p] = "pending"
      /\ batch \in SUBSET Paths
  BY <1>4
<1>6. /\ written \subseteq good /\ kept \subseteq failed /\ good \subseteq batch
      /\ \A p \in batch : p \in good <=> p \in disk /\ p \notin failed \cup bad
  OBVIOUS
<1> HIDE DEF batch, good, kept
<1> DEFINE r == [agent[w] EXCEPT !.pc = "leave"]
<1>7. r \in Thread /\ r.pc = "leave"
  BY <1>4, NewPc
<1>8. agent' = [agent EXCEPT ![w] = r]
  BY <1>3
<1> HIDE DEF r
<1>9. /\ agent' \in [Threads -> Thread] /\ agent'[w] = r
      /\ \A o \in Threads \ {w} : agent'[o] = agent[o]
  BY <1>4, <1>7, <1>8, ThreadStep
<1>10. row \in [Paths -> Statuses] /\ buffer \in Seq(Event)
      /\ list \in SUBSET Workers /\ stopped \in SUBSET Workers /\ up \in BOOLEAN /\ left \in SUBSET Paths
  BY DEF TypeOK, Statuses
<1>11. row' \in [Paths -> Statuses]
  BY <1>2, <1>10 DEF Statuses
<1>12. left' \in SUBSET Paths /\ left \subseteq left'
  BY <1>1, <1>2, <1>5, <1>6, <1>10
<1>13. up' \in BOOLEAN
  BY <1>3, <1>10, Zenon
<1>14. TypeOK'
  BY <1>3, <1>9, <1>10, <1>11, <1>12, <1>13, TypedStep
<1>15. \A p \in Paths :
          IF p \in agent[w].files /\ row[p] = "pending"
          THEN \/ row'[p] = "indexed" /\ p \in disk
               \/ row'[p] = "pending" /\ p \in left'
               \/ row'[p] = "removed" /\ (p \notin disk \/ p \in left')
          ELSE row'[p] = row[p]
  <2> SUFFICES ASSUME NEW p \in Paths
               PROVE  IF p \in batch
                      THEN \/ row'[p] = "indexed" /\ p \in disk
                           \/ row'[p] = "pending" /\ p \in left'
                           \/ row'[p] = "removed" /\ (p \notin disk \/ p \in left')
                      ELSE row'[p] = row[p]
    BY <1>5
  <2>1. row'[p] = IF p \notin batch THEN row[p]
                  ELSE IF p \in written THEN "indexed"
                  ELSE IF p \in kept \cup good THEN "pending"
                  ELSE "removed"
    BY <1>2
  <2>2. p \in failed \cup bad \cup (good \ written) => p \in left'
    BY <1>2
  <2>3. QED
    BY <1>6, <2>1, <2>2
<1>16. QED
  BY <1>3, <1>7, <1>9, <1>12, <1>14, <1>15

LEMMA WorkerLeaveMoves ==
    ASSUME TypeOK, NEW w \in Workers, WorkerLeave(w)
    PROVE  /\ TypeOK'
           /\ agent[w].pc = "leave" /\ agent'[w].pc \in {"idle", "try"} /\ agent'[w].files = {}
           /\ list' = list \ {w}
           /\ \A o \in Threads \ {w} : agent'[o] = agent[o]
           /\ UNCHANGED <<disk, used, row, reported, buffer, stopped, changes, up, scenario, left>>
<1> DEFINE r == IF w \in stopped THEN Idle ELSE [Idle EXCEPT !.pc = "try"]
<1>1. /\ agent[w].pc = "leave" /\ list' = list \ {w}
      /\ UNCHANGED <<world, row, buffer, stopped, up>>
  BY DEF WorkerLeave
<1>2. UNCHANGED <<disk, used, row, reported, buffer, stopped, changes, up, scenario, left>>
  BY <1>1 DEF world
<1>3. w \in Threads /\ "try" \in PCs
  BY DEF Threads, PCs
<1>4. agent' = [agent EXCEPT ![w] = r]
  BY DEF WorkerLeave, End
<1>5. r \in Thread /\ r.pc \in {"idle", "try"} /\ r.files = {}
  BY <1>3, Records, NewPc
<1> HIDE DEF r
<1>6. /\ agent' \in [Threads -> Thread] /\ agent'[w] = r
      /\ \A o \in Threads \ {w} : agent'[o] = agent[o]
  BY <1>3, <1>4, <1>5, ThreadStep
<1>7. row \in [Paths -> Statuses] /\ buffer \in Seq(Event)
      /\ list' \in SUBSET Workers /\ stopped \in SUBSET Workers /\ up \in BOOLEAN
  BY <1>1 DEF TypeOK, Statuses
<1>8. TypeOK'
  BY <1>1, <1>2, <1>6, <1>7, WorldStays, TypedStep
<1>9. QED
  BY <1>1, <1>2, <1>5, <1>6, <1>8

LEMMA ModelLoadedTypes ==
    ASSUME TypeOK, ModelLoaded
    PROVE  TypeOK'
<1>1. ready' \in BOOLEAN /\ up' \in BOOLEAN
  BY Zenon DEF ModelLoaded, TypeOK
<1>2. QED
  BY <1>1 DEF ModelLoaded, TypeOK, Thread, Threads, Event

LEMMA DeinitTypes ==
    ASSUME TypeOK, Deinit
    PROVE  TypeOK'
<1>1. /\ up' = FALSE /\ buffer' = <<>> /\ stopped' = list
      /\ UNCHANGED <<world, row, agent, list>>
  BY DEF Deinit
<1>2. /\ agent' \in [Threads -> Thread] /\ row' \in [Paths -> Statuses]
      /\ list' \in SUBSET Workers /\ stopped' \in SUBSET Workers
  BY <1>1 DEF TypeOK, Statuses
<1>3. buffer' \in Seq(Event)
  BY <1>1
<1>4. up' \in BOOLEAN
  BY <1>1, Zenon
<1>5. QED
  BY <1>1, <1>2, <1>3, <1>4, WorldStays, TypedStep

\* A change of the file system is reported at the end.
LEMMA ChangeTypes ==
    ASSUME TypeOK, NEW new \in SUBSET Paths, NEW e \in Event, Change(new, e)
    PROVE  TypeOK'
<1>1. /\ changes < MaxEvents /\ changes' = changes + 1 /\ disk' = new /\ used' = used \cup new
      /\ reported' = Append(reported, e)
      /\ UNCHANGED <<row, buffer, agent, list, stopped, up, scenario, ready, left>>
  BY DEF Change
<1>2. reported \in Seq(Event) /\ buffer \in Seq(Event) /\ changes \in 0..MaxEvents /\ MaxEvents \in Nat
  BY EventsAssumption DEF TypeOK
<1>3. reported' \in Seq(Event) /\ buffer' \in Seq(Event) /\ changes' \in 0..MaxEvents
  BY <1>1, <1>2
<1>4. /\ disk' \subseteq Paths /\ used' \subseteq Paths /\ list' \subseteq Workers /\ stopped' \subseteq Workers
      /\ row' \in [Paths -> {"none", "pending", "indexed", "removed"}] /\ scenario' \in Scenarios
      /\ agent' \in [Threads -> Thread] /\ left' \subseteq Paths
  BY <1>1 DEF TypeOK
<1>5. up' \in BOOLEAN /\ ready' \in BOOLEAN
  BY <1>1, Zenon DEF TypeOK
<1>6. QED
  BY <1>3, <1>4, <1>5 DEF TypeOK, Threads, Thread, Event

LEMMA CreateFileMoves ==
    ASSUME TypeOK, NEW p \in Paths, CreateFile(p)
    PROVE  /\ TypeOK'
           /\ "create" \in Ops /\ p \notin disk /\ MayUse(p)
           /\ disk' = disk \cup {p} /\ used' = used \cup disk'
           /\ reported' = Append(reported, [type |-> "created", src |-> p, dest |-> p])
           /\ UNCHANGED <<row, buffer, agent, list, stopped, up, scenario, left>>
<1> DEFINE new == disk \cup {p}
           e == [type |-> "created", src |-> p, dest |-> p]
<1>1. new \in SUBSET Paths
  BY DEF TypeOK
<1>2. e \in Event
  BY DEF Event
<1>3. Change(new, e)
  BY DEF CreateFile
<1>4. TypeOK'
  <2> HIDE DEF new, e
  <2>1. QED
    BY <1>1, <1>2, <1>3, ChangeTypes
<1>5. QED
  BY <1>3, <1>4 DEF CreateFile, Change

LEMMA DeleteFileMoves ==
    ASSUME TypeOK, NEW p \in Paths, DeleteFile(p)
    PROVE  /\ TypeOK'
           /\ "delete" \in Ops /\ p \in disk
           /\ disk' = disk \ {p} /\ used' = used \cup disk'
           /\ reported' = Append(reported, [type |-> "deleted", src |-> p, dest |-> p])
           /\ UNCHANGED <<row, buffer, agent, list, stopped, up, scenario, left>>
<1> DEFINE new == disk \ {p}
           e == [type |-> "deleted", src |-> p, dest |-> p]
<1>1. new \in SUBSET Paths
  BY DEF TypeOK
<1>2. e \in Event
  BY DEF Event
<1>3. Change(new, e)
  BY DEF DeleteFile
<1>4. TypeOK'
  <2> HIDE DEF new, e
  <2>1. QED
    BY <1>1, <1>2, <1>3, ChangeTypes
<1>5. QED
  BY <1>3, <1>4 DEF DeleteFile, Change

LEMMA MoveFileMoves ==
    ASSUME TypeOK, NEW p \in Paths, NEW q \in Paths, MoveFile(p, q)
    PROVE  /\ TypeOK'
           /\ "move" \in Ops /\ p \in disk /\ p # q
           /\ disk' = (disk \ {p}) \cup {q} /\ used' = used \cup disk'
           /\ reported' = Append(reported, [type |-> "moved", src |-> p, dest |-> q])
           /\ UNCHANGED <<row, buffer, agent, list, stopped, up, scenario, left>>
<1> DEFINE new == (disk \ {p}) \cup {q}
           e == [type |-> "moved", src |-> p, dest |-> q]
<1>1. new \in SUBSET Paths
  BY DEF TypeOK
<1>2. e \in Event
  BY DEF Event
<1>3. Change(new, e)
  BY DEF MoveFile
<1>4. TypeOK'
  <2> HIDE DEF new, e
  <2>1. QED
    BY <1>1, <1>2, <1>3, ChangeTypes
<1>5. QED
  BY <1>3, <1>4 DEF MoveFile, Change

\* Types at the start and after each step.
LEMMA InitTypes ==
    Init => TypeOK
<1> SUFFICES ASSUME Init PROVE TypeOK
  OBVIOUS
<1>1. /\ scenario \in Scenarios /\ disk \in SUBSET Paths /\ used = disk
      /\ row = [p \in Paths |-> IF p \in disk \cap Images THEN "indexed" ELSE "none"]
      /\ reported = <<>> /\ buffer = <<>> /\ agent = [t \in Threads |-> Idle]
      /\ list = {} /\ stopped = {} /\ changes = 0 /\ left = {}
  BY DEF Init
<1>2. up \in BOOLEAN /\ ready \in BOOLEAN
  BY DEF Init
<1>3. agent \in [Threads -> Thread]
  BY <1>1, Records
<1>4. row \in [Paths -> {"none", "pending", "indexed", "removed"}]
  BY <1>1
<1>5. changes \in 0..MaxEvents
  BY <1>1, EventsAssumption
<1>6. QED
  BY <1>1, <1>2, <1>3, <1>4, <1>5 DEF TypeOK

LEMMA StepTypes ==
    TypeOK /\ [Next]_vars => TypeOK'
<1> SUFFICES ASSUME TypeOK, [Next]_vars PROVE TypeOK'
  OBVIOUS
<1>1. CASE Dispatch
  BY <1>1, DispatchMoves
<1>2. ASSUME NEW t \in Threads, Handle(t) PROVE TypeOK'
  BY <1>2, TryNextBatchMoves, OnCreatedMoves, SpawnWorkerMoves, OnDeletedMoves, OnMovedMoves DEF Handle
<1>3. ASSUME NEW w \in Workers, Work(w) PROVE TypeOK'
  BY <1>3, WorkerFilterMoves, WorkerInsertMoves, WorkerIndexMoves, WorkerFaultsMoves, WorkerLeaveMoves DEF Work
<1>4. ASSUME NEW p \in Paths, CreateFile(p) \/ DeleteFile(p) PROVE TypeOK'
  BY <1>4, CreateFileMoves, DeleteFileMoves
<1>5. ASSUME NEW p \in Paths, NEW q \in Paths, MoveFile(p, q) PROVE TypeOK'
  BY <1>5, MoveFileMoves
<1>6. CASE Deinit
  BY <1>6, DeinitTypes
<1>7. CASE ModelLoaded
  BY <1>7, ModelLoadedTypes
<1>8. CASE UNCHANGED vars
  <2>1. up' \in BOOLEAN /\ ready' \in BOOLEAN
    BY <1>8, Zenon DEF vars, world, TypeOK
  <2>2. QED
    BY <1>8, <2>1 DEF vars, world, TypeOK, Thread, Threads, Event
<1>9. QED
  BY <1>1, <1>2, <1>3, <1>4, <1>5, <1>6, <1>7, <1>8 DEF Next

\* Whatever happens on the disk, and however handlers and workers overlap,
\* every variable keeps its type: only workers are on the list, and events are
\* events of the folder's paths.
THEOREM TypeCorrect ==
    Spec => []TypeOK
  BY InitTypes, StepTypes, PTL DEF Spec

-----------------------------------------------------------------------------
(* Creations and deletions of paths that are used once.                    *)

Fresh == Ops \cap {"move", "recreate"} = {}

\* Sequence s has an event of this kind for p.
Waiting(s, kind, p) == \E k \in DOMAIN s : s[k].type = kind /\ s[k].src = p

\* The handlers of a kind of event, and threads that work on p.
Handlers(kind) == IF kind = "created" THEN {"created", "spawn"} ELSE {kind}
Holds(r, kind, p) == r.pc \in Handlers(kind) /\ Waiting(r.todo, kind, p)
Takes(r, p) == r.pc \in {"filter", "insert"} /\ p \in r.files
Puts(r, p) == r.pc = "index" /\ p \in r.files

\* An event of this kind for p has yet to be handled.
Comes(kind, p) ==
    \/ Waiting(reported, kind, p) \/ Waiting(buffer, kind, p)
    \/ \E t \in Threads : Holds(agent[t], kind, p)

Taken(p) == \E w \in Workers : Takes(agent[w], p)
Gone(p) == p \in used \ disk

\* A handler works on events of its own kind.
OwnKind(r) ==
    /\ r.pc # "moved"
    /\ \A kind \in {"created", "deleted"} :
          r.pc \in Handlers(kind) => \A k \in DOMAIN r.todo : r.todo[k].type = kind

Sorted ==
    /\ \A k \in DOMAIN reported : reported[k].type \in {"created", "deleted"}
    /\ \A k \in DOMAIN buffer : buffer[k].type \in {"created", "deleted"}
    /\ \A t \in Threads : OwnKind(agent[t])

\* A path is used once, so an event that waits tells what is still true.
OnceOnly ==
    /\ disk \subseteq used
    /\ \A p \in Paths : Comes("created", p) \/ Taken(p) \/ row[p] = "pending" => p \in used
    /\ \A p \in Paths : Comes("deleted", p) => Gone(p)

\* Workers at work are on the list, so that no batch is taken meanwhile.
WorkPCs == {"filter", "insert", "index", "leave"}
OnList == \A w \in Workers : agent[w].pc \in WorkPCs => w \in list

\* The deletion of p has not been taken from the buffer.
Queued(p) == Waiting(reported, "deleted", p) \/ Waiting(buffer, "deleted", p)

\* A file that a worker has seen and that is gone by now was deleted since the
\* worker was put on the list.
Trailing ==
    \A w \in Workers, p \in Paths :
        agent[w].pc \in {"insert", "index"} /\ p \in agent[w].files /\ p \notin disk => Queued(p)

\* A row that disagrees with the disk is about to be changed, or a failing batch
\* has left it to the bulk indexer.
RowFollows(p) ==
    /\ row[p] = "pending" => p \in left \/ \E w \in Workers : Puts(agent[w], p)
    /\ row[p] = "removed" => Gone(p) \/ p \in left
    /\ p \in Images \cap disk =>
          \/ row[p] \in {"indexed", "pending"} \/ Comes("created", p) \/ Taken(p)
          \/ row[p] = "removed" /\ p \in left
    /\ p \in Images \ disk /\ row[p] \in {"indexed", "pending"} => Comes("deleted", p)

RowsFollow == \A p \in Paths : RowFollows(p)

FreshInv == Sorted /\ OnceOnly /\ OnList /\ Trailing /\ RowsFollow

\* Taking the head of one sequence to the end of another loses no event.
LEMMA WaitingTail ==
    ASSUME NEW s \in Seq(Event), s # <<>>, NEW q \in Seq(Event), NEW kind, NEW p
    PROVE  Waiting(s, kind, p) \/ Waiting(q, kind, p)
           <=> Waiting(Tail(s), kind, p) \/ Waiting(Append(q, Head(s)), kind, p)
<1>1. Len(s) \in Nat /\ Len(s) > 0 /\ DOMAIN s = 1..Len(s) /\ Len(q) \in Nat /\ DOMAIN q = 1..Len(q)
  OBVIOUS
<1>2. DOMAIN Tail(s) = 1..(Len(s) - 1) /\ \A k \in 1..(Len(s) - 1) : Tail(s)[k] = s[k + 1]
  BY <1>1
<1>3. /\ DOMAIN Append(q, Head(s)) = 1..(Len(q) + 1) /\ Append(q, Head(s))[Len(q) + 1] = s[1]
      /\ \A k \in 1..Len(q) : Append(q, Head(s))[k] = q[k]
  BY <1>1
<1>4. ASSUME Waiting(s, kind, p)
      PROVE  Waiting(Tail(s), kind, p) \/ Waiting(Append(q, Head(s)), kind, p)
  <2>1. PICK k \in 1..Len(s) : s[k].type = kind /\ s[k].src = p
    BY <1>1, <1>4 DEF Waiting
  <2>2. CASE k = 1
    <3>1. Len(q) + 1 \in DOMAIN Append(q, Head(s))
      BY <1>1, <1>3
    <3>2. QED
      BY <1>3, <2>1, <2>2, <3>1 DEF Waiting
  <2>3. CASE k # 1
    <3>1. k - 1 \in 1..(Len(s) - 1) /\ (k - 1) + 1 = k
      BY <1>1, <2>1, <2>3
    <3>2. Tail(s)[k - 1] = s[k]
      BY <1>2, <3>1
    <3>3. QED
      BY <1>2, <2>1, <3>1, <3>2 DEF Waiting
  <2>4. QED
    BY <2>2, <2>3
<1>5. Waiting(q, kind, p) => Waiting(Append(q, Head(s)), kind, p)
  BY <1>1, <1>3 DEF Waiting
<1>6. Waiting(Tail(s), kind, p) => Waiting(s, kind, p)
  <2> SUFFICES ASSUME NEW k \in 1..(Len(s) - 1), Tail(s)[k].type = kind, Tail(s)[k].src = p
               PROVE  Waiting(s, kind, p)
    BY <1>2 DEF Waiting
  <2>1. k + 1 \in DOMAIN s /\ s[k + 1].type = kind /\ s[k + 1].src = p
    BY <1>1, <1>2
  <2>2. QED
    BY <2>1 DEF Waiting
<1>7. Waiting(Append(q, Head(s)), kind, p) => Waiting(s, kind, p) \/ Waiting(q, kind, p)
  <2> SUFFICES ASSUME NEW k \in 1..(Len(q) + 1), Append(q, Head(s))[k].type = kind, Append(q, Head(s))[k].src = p
               PROVE  Waiting(s, kind, p) \/ Waiting(q, kind, p)
    BY <1>3 DEF Waiting
  <2>1. CASE k = Len(q) + 1
    BY <1>1, <1>3, <2>1 DEF Waiting
  <2>2. CASE k \in 1..Len(q)
    BY <1>1, <1>3, <2>2 DEF Waiting
  <2>3. QED
    BY <1>1, <2>1, <2>2
<1>8. QED
  BY <1>4, <1>5, <1>6, <1>7

\* A sequence that grows has one event more.
LEMMA WaitingAppend ==
    ASSUME NEW s \in Seq(Event), NEW e \in Event, NEW kind, NEW p
    PROVE  Waiting(Append(s, e), kind, p) <=> Waiting(s, kind, p) \/ (e.type = kind /\ e.src = p)
<1>1. Len(s) \in Nat /\ DOMAIN s = 1..Len(s)
  OBVIOUS
<1>2. /\ DOMAIN Append(s, e) = 1..(Len(s) + 1) /\ Append(s, e)[Len(s) + 1] = e
      /\ \A k \in 1..Len(s) : Append(s, e)[k] = s[k]
  BY <1>1
<1>3. \A k \in 1..(Len(s) + 1) : k \in 1..Len(s) \/ k = Len(s) + 1
  BY <1>1
<1>4. Len(s) + 1 \in 1..(Len(s) + 1) /\ \A k \in 1..Len(s) : k \in 1..(Len(s) + 1)
  BY <1>1
<1> DEFINE q == Append(s, e)
           n == Len(s) + 1
<1> HIDE DEF q, n
<1>5. QED
  BY <1>1, <1>2, <1>3, <1>4 DEF Waiting, q, n

\* Splitting a sequence loses no event.
LEMMA WaitingSplit ==
    ASSUME NEW s \in Seq(Event), NEW n \in 0..Len(s), NEW kind, NEW p
    PROVE  Waiting(s, kind, p)
           <=> Waiting(SubSeq(s, 1, n), kind, p) \/ Waiting(SubSeq(s, n + 1, Len(s)), kind, p)
<1>1. Len(s) \in Nat /\ n \in Nat /\ n <= Len(s) /\ DOMAIN s = 1..Len(s)
  OBVIOUS
<1> DEFINE a == SubSeq(s, 1, n)
           b == SubSeq(s, n + 1, Len(s))
<1>2. DOMAIN a = 1..n /\ \A k \in 1..n : a[k] = s[k] /\ k \in 1..Len(s)
  BY <1>1
<1>3. DOMAIN b = 1..(Len(s) - n) /\ \A k \in 1..(Len(s) - n) : b[k] = s[k + n] /\ k + n \in 1..Len(s)
  BY <1>1
<1> HIDE DEF a, b
<1>4. \A k \in 1..Len(s) : k \in 1..n \/ (k - n \in 1..(Len(s) - n) /\ (k - n) + n = k)
  BY <1>1
<1>5. ASSUME Waiting(s, kind, p) PROVE Waiting(a, kind, p) \/ Waiting(b, kind, p)
  <2>1. PICK k \in 1..Len(s) : s[k].type = kind /\ s[k].src = p
    BY <1>1, <1>5 DEF Waiting
  <2>2. CASE k \in 1..n
    BY <1>2, <2>1, <2>2 DEF Waiting
  <2>3. CASE k - n \in 1..(Len(s) - n) /\ (k - n) + n = k
    <3>1. b[k - n] = s[k]
      BY <1>3, <2>3
    <3>2. QED
      BY <1>3, <2>1, <2>3, <3>1 DEF Waiting
  <2>4. QED
    BY <1>4, <2>2, <2>3
<1>6. Waiting(a, kind, p) => Waiting(s, kind, p)
  BY <1>1, <1>2 DEF Waiting
<1>7. Waiting(b, kind, p) => Waiting(s, kind, p)
  <2> SUFFICES ASSUME NEW k \in 1..(Len(s) - n), b[k].type = kind, b[k].src = p PROVE Waiting(s, kind, p)
    BY <1>3 DEF Waiting
  <2>1. s[k + n].type = kind /\ s[k + n].src = p /\ k + n \in DOMAIN s
    BY <1>1, <1>3
  <2>2. QED
    BY <2>1 DEF Waiting
<1>8. QED
  BY <1>5, <1>6, <1>7 DEF a, b

\* What waits where thread t can reach it.
Near(t, kind, p) == Waiting(reported, kind, p) \/ Waiting(buffer, kind, p) \/ Holds(agent[t], kind, p)

\* A step of one thread matters to the events it can reach only.
LEMMA ComesNear ==
    ASSUME NEW t \in Threads, \A o \in Threads \ {t} : agent'[o] = agent[o], NEW kind, NEW p
    PROVE  /\ (Near(t, kind, p)' => Near(t, kind, p)) => (Comes(kind, p)' => Comes(kind, p))
           /\ (Near(t, kind, p) => Near(t, kind, p)') => (Comes(kind, p) => Comes(kind, p)')
  BY DEF Comes, Near

\* Threads that neither take nor put files.
LEMMA NoFiles ==
    \A r : r.files = {} => \A p : ~Takes(r, p) /\ ~Puts(r, p)
  BY DEF Takes, Puts

\* An idle thread has no events.
LEMMA IdleHolds ==
    /\ OwnKind(Idle) /\ \A kind \in {"created", "deleted"} : \A p : ~Holds(Idle, kind, p)
<1>1. Idle.pc = "idle"
  BY Records
<1>2. \A kind \in {"created", "deleted"} : Idle.pc \notin Handlers(kind)
  BY <1>1 DEF Handlers
<1>3. QED
  BY <1>1, <1>2 DEF OwnKind, Holds

\* A handler that leaves disk and rows alone, and keeps what must be kept.
LEMMA HandlerKeeps ==
    ASSUME FreshInv, NEW t \in Threads,
           \A o \in Threads \ {t} : agent'[o] = agent[o],
           agent[t].pc \notin WorkPCs, agent'[t].pc \notin WorkPCs, agent'[t].files = {},
           UNCHANGED <<disk, used, row, list, scenario, left>>,
           list = {} \/ \A p \in Paths : Queued(p) => Queued(p)',
           \A kind \in {"created", "deleted"}, p \in Paths : Near(t, kind, p)' => Near(t, kind, p),
           \A p \in Paths : Near(t, "deleted", p) => Near(t, "deleted", p)',
           \A p \in Images \cap disk \cap Paths : Near(t, "created", p) => Near(t, "created", p)'
    PROVE  OnceOnly' /\ OnList' /\ Trailing' /\ RowsFollow'
<1>1. \A kind \in {"created", "deleted"}, p \in Paths : Comes(kind, p)' => Comes(kind, p)
  BY ComesNear
<1>2. \A p \in Paths : Comes("deleted", p) => Comes("deleted", p)'
  BY ComesNear
<1>3. \A p \in Images \cap disk \cap Paths : Comes("created", p) => Comes("created", p)'
  BY ComesNear
<1>4. \A p : ~Takes(agent[t], p) /\ ~Puts(agent[t], p) /\ ~Takes(agent'[t], p) /\ ~Puts(agent'[t], p)
  BY NoFiles DEF Takes, Puts, WorkPCs
<1>5. \A w \in Workers : w \in Threads
  BY DEF Threads
<1>6. \A w \in Workers, p \in Paths : /\ Takes(agent'[w], p) <=> Takes(agent[w], p)
                                      /\ Puts(agent'[w], p) <=> Puts(agent[w], p)
  <2> SUFFICES ASSUME NEW w \in Workers, NEW p \in Paths
               PROVE  /\ Takes(agent'[w], p) <=> Takes(agent[w], p)
                      /\ Puts(agent'[w], p) <=> Puts(agent[w], p)
    OBVIOUS
  <2>1. CASE w = t
    BY <1>4, <2>1
  <2>2. CASE w # t
    BY <1>5, <2>2
  <2>3. QED
    BY <2>1, <2>2
<1>7. \A p \in Paths : Taken(p)' <=> Taken(p)
  BY <1>6 DEF Taken
<1>8. OnceOnly'
  BY <1>1, <1>7 DEF FreshInv, OnceOnly, Gone
<1>9. RowsFollow'
  <2> SUFFICES ASSUME NEW p \in Paths PROVE RowFollows(p)'
    BY DEF RowsFollow
  <2>1. row' = row /\ disk' = disk /\ used' = used /\ left' = left /\ Images' = Images
    BY DEF Images
  <2>2. RowFollows(p)
    BY DEF FreshInv, RowsFollow
  <2>3. QED
    BY <1>2, <1>3, <1>6, <1>7, <2>1, <2>2 DEF RowFollows, Gone
<1>10. \A w \in Workers : agent'[w].pc \in WorkPCs => w # t /\ agent'[w] = agent[w] /\ w \in list
  BY <1>5 DEF FreshInv, OnList
<1>11. OnList'
  BY <1>10 DEF OnList
<1>12. Trailing'
  <2>1. CASE list = {}
    BY <1>10, <2>1 DEF Trailing, WorkPCs
  <2>2. CASE \A p \in Paths : Queued(p) => Queued(p)'
    BY <1>10, <2>2 DEF FreshInv, Trailing, WorkPCs
  <2>3. QED
    BY <2>1, <2>2
<1>13. QED
  BY <1>8, <1>9, <1>11, <1>12

\* Sorted buffers and handlers.
LEMMA SortedStep ==
    ASSUME Sorted, NEW t \in Threads, \A o \in Threads \ {t} : agent'[o] = agent[o], OwnKind(agent'[t]),
           \A k \in DOMAIN reported' : reported'[k].type \in {"created", "deleted"},
           \A k \in DOMAIN buffer' : buffer'[k].type \in {"created", "deleted"}
    PROVE  Sorted'
  BY DEF Sorted

\* Each action keeps the invariant of paths used once.
LEMMA FreshDispatch ==
    ASSUME TypeOK, FreshInv, Dispatch
    PROVE  FreshInv'
<1> DEFINE t == "dispatcher"
<1>1. /\ agent[t].pc = "idle" /\ agent'[t].pc = "try" /\ agent'[t].files = {}
      /\ \A o \in Threads \ {t} : agent'[o] = agent[o]
  BY DispatchMoves
<1>2. /\ reported # <<>> /\ reported' = Tail(reported) /\ buffer' = Append(buffer, Head(reported))
      /\ UNCHANGED <<disk, used, row, list, scenario, left>>
  BY DEF Dispatch
<1>3. reported \in Seq(Event) /\ buffer \in Seq(Event) /\ t \in Threads
  BY DEF TypeOK, Threads
<1>4. \A kind \in {"created", "deleted"} : agent[t].pc \notin Handlers(kind) /\ agent'[t].pc \notin Handlers(kind)
  BY <1>1 DEF Handlers
<1>5. OwnKind(agent'[t])
  BY <1>1, <1>4 DEF OwnKind
<1>6. \A kind \in {"created", "deleted"}, p \in Paths : Near(t, kind, p)' <=> Near(t, kind, p)
  <2> SUFFICES ASSUME NEW kind \in {"created", "deleted"}, NEW p \in Paths
               PROVE  Near(t, kind, p)' <=> Near(t, kind, p)
    OBVIOUS
  <2>1. ~Holds(agent[t], kind, p) /\ ~Holds(agent'[t], kind, p)
    BY <1>4 DEF Holds
  <2>2. Waiting(reported, kind, p) \/ Waiting(buffer, kind, p)
        <=> Waiting(reported', kind, p) \/ Waiting(buffer', kind, p)
    BY <1>2, <1>3, WaitingTail
  <2>3. QED
    BY <2>1, <2>2 DEF Near
<1>7. Sorted'
  <2>1. /\ \A k \in DOMAIN reported : reported[k].type \in {"created", "deleted"}
        /\ \A k \in DOMAIN buffer : buffer[k].type \in {"created", "deleted"}
    BY DEF FreshInv, Sorted
  <2>2. Len(reported) \in Nat /\ Len(reported) > 0 /\ Len(buffer) \in Nat
    BY <1>2, <1>3
  <2>3. \A k \in DOMAIN reported' : reported'[k].type \in {"created", "deleted"}
    BY <1>2, <1>3, <2>1, <2>2
  <2>4. reported[1].type \in {"created", "deleted"}
    BY <1>3, <2>1, <2>2
  <2>5. \A k \in DOMAIN buffer' : buffer'[k].type \in {"created", "deleted"}
    BY <1>2, <1>3, <2>1, <2>2, <2>4
  <2>6. QED
    BY <1>1, <1>3, <1>5, <2>3, <2>5, SortedStep DEF FreshInv
<1>8. \A p \in Paths : Queued(p) => Queued(p)'
  BY <1>2, <1>3, WaitingTail DEF Queued
<1>9. agent[t].pc \notin WorkPCs /\ agent'[t].pc \notin WorkPCs
  BY <1>1 DEF WorkPCs
<1> HIDE DEF t
<1>10. OnceOnly' /\ OnList' /\ Trailing' /\ RowsFollow'
  BY <1>1, <1>2, <1>3, <1>6, <1>8, <1>9, HandlerKeeps
<1>11. QED
  BY <1>7, <1>10 DEF FreshInv

LEMMA FreshTryNextBatch ==
    ASSUME TypeOK, FreshInv, NEW t \in Threads, TryNextBatch(t)
    PROVE  FreshInv'
<1>1. /\ agent[t].pc = "try" /\ agent'[t].files = {}
      /\ \A o \in Threads \ {t} : agent'[o] = agent[o]
      /\ \/ agent'[t] = Idle /\ buffer' = buffer
         \/ /\ buffer # <<>> /\ list = {}
            /\ agent'[t].pc = buffer[1].type
            /\ agent'[t].todo = SubSeq(buffer, 1, FrontRun)
            /\ buffer' = SubSeq(buffer, FrontRun + 1, Len(buffer))
      /\ UNCHANGED <<disk, used, row, reported, list, scenario, left>>
  BY TryNextBatchMoves
<1>2. reported \in Seq(Event) /\ buffer \in Seq(Event)
  BY DEF TypeOK
<1>3. \A kind \in {"created", "deleted"} : agent[t].pc \notin Handlers(kind)
  BY <1>1 DEF Handlers
<1>4. /\ \A k \in DOMAIN reported : reported[k].type \in {"created", "deleted"}
      /\ \A k \in DOMAIN buffer : buffer[k].type \in {"created", "deleted"}
  BY DEF FreshInv, Sorted
<1>5. CASE agent'[t] = Idle /\ buffer' = buffer
  <2>1. Sorted'
    <3>1. OwnKind(agent'[t])
      BY <1>5, IdleHolds
    <3>2. QED
      BY <1>1, <1>4, <1>5, <3>1, SortedStep DEF FreshInv
  <2>2. \A kind \in {"created", "deleted"}, p \in Paths : Near(t, kind, p)' <=> Near(t, kind, p)
    BY <1>1, <1>3, <1>5, IdleHolds DEF Near, Holds
  <2>3. OnceOnly' /\ OnList' /\ Trailing' /\ RowsFollow'
    <3>1. agent[t].pc \notin WorkPCs /\ agent'[t].pc \notin WorkPCs
      BY <1>1, <1>5, Records DEF WorkPCs
    <3>2. \A p \in Paths : Queued(p) => Queued(p)'
      BY <1>1, <1>5 DEF Queued
    <3>3. QED
      BY <1>1, <2>2, <3>1, <3>2, HandlerKeeps
  <2>4. QED
    BY <2>1, <2>3 DEF FreshInv
<1>6. CASE /\ buffer # <<>> /\ list = {}
           /\ agent'[t].pc = buffer[1].type
           /\ agent'[t].todo = SubSeq(buffer, 1, FrontRun)
           /\ buffer' = SubSeq(buffer, FrontRun + 1, Len(buffer))
  <2> DEFINE n == FrontRun
             todo == SubSeq(buffer, 1, n)
  <2>1. n \in 1..Len(buffer) /\ Len(buffer) \in Nat /\ \A k \in 1..n : buffer[k].type = buffer[1].type
    BY <1>2, <1>6, FrontRunFacts
  <2>2. n \in 0..Len(buffer) /\ 1 \in DOMAIN buffer /\ DOMAIN buffer = 1..Len(buffer)
    BY <1>2, <2>1
  <2>3. buffer[1].type \in {"created", "deleted"}
    BY <1>4, <2>2
  <2> HIDE DEF n
  <2>4. DOMAIN todo = 1..n /\ \A k \in 1..n : todo[k] = buffer[k]
    BY <1>2, <2>1
  <2>5. \A k \in DOMAIN todo : todo[k].type = buffer[1].type
    BY <2>1, <2>4
  <2>6. \A k \in DOMAIN buffer' : buffer'[k].type \in {"created", "deleted"}
    <3>1. /\ DOMAIN buffer' = 1..(Len(buffer) - n)
          /\ \A k \in 1..(Len(buffer) - n) : buffer'[k] = buffer[k + n] /\ k + n \in 1..Len(buffer)
      BY <1>2, <1>6, <2>1 DEF n
    <3>2. QED
      BY <1>4, <2>2, <3>1
  <2>7. agent'[t].pc = buffer[1].type /\ agent'[t].todo = todo
    BY <1>6 DEF n
  <2> HIDE DEF todo
  <2>8. \A kind \in {"created", "deleted"} : agent'[t].pc \in Handlers(kind) <=> kind = buffer[1].type
    BY <2>3, <2>7 DEF Handlers
  <2>9. Sorted'
    <3>1. OwnKind(agent'[t])
      BY <2>3, <2>5, <2>7, <2>8 DEF OwnKind
    <3>2. QED
      BY <1>1, <1>4, <2>6, <3>1, SortedStep DEF FreshInv
  <2>10. \A kind \in {"created", "deleted"}, p \in Paths : Near(t, kind, p)' <=> Near(t, kind, p)
    <3> SUFFICES ASSUME NEW kind \in {"created", "deleted"}, NEW p \in Paths
                 PROVE  Near(t, kind, p)' <=> Near(t, kind, p)
      OBVIOUS
    <3>1. Waiting(buffer, kind, p) <=> Waiting(todo, kind, p) \/ Waiting(buffer', kind, p)
      BY <1>2, <1>6, <2>2, WaitingSplit DEF n, todo
    <3>2. Waiting(todo, kind, p) => kind = buffer[1].type
      BY <2>5 DEF Waiting
    <3>3. Holds(agent'[t], kind, p) <=> Waiting(todo, kind, p)
      BY <2>7, <2>8, <3>2 DEF Holds
    <3>4. ~Holds(agent[t], kind, p)
      BY <1>3 DEF Holds
    <3>5. QED
      BY <1>1, <3>1, <3>3, <3>4 DEF Near
  <2>11. OnceOnly' /\ OnList' /\ Trailing' /\ RowsFollow'
    <3>1. agent[t].pc \notin WorkPCs /\ agent'[t].pc \notin WorkPCs
      BY <1>1, <2>3, <2>7 DEF WorkPCs
    <3>2. QED
      BY <1>1, <1>6, <2>10, <3>1, HandlerKeeps
  <2>12. QED
    BY <2>9, <2>11 DEF FreshInv
<1>7. QED
  BY <1>1, <1>5, <1>6

LEMMA FreshOnCreated ==
    ASSUME TypeOK, FreshInv, NEW t \in Threads, OnCreated(t)
    PROVE  FreshInv'
<1> DEFINE todo == agent[t].todo
           images == Kept(todo, disk \cap Images)
<1>1. /\ agent[t].pc = "created" /\ agent'[t].files = {}
      /\ \A o \in Threads \ {t} : agent'[o] = agent[o]
      /\ IF images = <<>> THEN agent'[t] = Idle ELSE agent'[t].pc = "spawn" /\ agent'[t].todo = images
      /\ UNCHANGED <<disk, used, row, reported, buffer, list, scenario, left>>
  BY OnCreatedMoves
<1>2. todo \in Seq(Event)
  BY ThreadFacts
<1>3. Keeps(todo, disk \cap Images, Len(todo), images)
  BY <1>2, KeptFacts
<1>4. DOMAIN todo = 1..Len(todo)
  BY <1>2
<1>5. agent[t].pc \in Handlers("created") /\ agent[t].pc \notin Handlers("deleted")
  BY <1>1 DEF Handlers
<1>6. \A k \in DOMAIN todo : todo[k].type = "created"
  BY <1>5 DEF FreshInv, Sorted, OwnKind
<1> HIDE DEF todo, images
<1>7. \A k \in DOMAIN images : images[k].type = "created"
  BY <1>3, <1>4, <1>6 DEF Keeps
<1>8. \A p : Waiting(images, "created", p) => Waiting(todo, "created", p)
  BY <1>3, <1>4 DEF Keeps, Waiting
<1>9. \A p \in disk \cap Images : Waiting(todo, "created", p) => Waiting(images, "created", p)
  BY <1>3, <1>4 DEF Keeps, Waiting
<1>10. OwnKind(agent'[t]) /\ \A p : ~Holds(agent'[t], "deleted", p)
  <2>1. CASE images = <<>>
    BY <1>1, <2>1, IdleHolds
  <2>2. CASE images # <<>>
    <3>1. agent'[t].pc \notin Handlers("deleted") /\ agent'[t].pc # "moved"
      BY <1>1, <2>2 DEF Handlers
    <3>2. QED
      BY <1>1, <1>7, <2>2, <3>1 DEF OwnKind, Holds
  <2>3. QED
    BY <2>1, <2>2
<1>11. \A p : Holds(agent'[t], "created", p) <=> Waiting(images, "created", p)
  <2>1. CASE images = <<>>
    <3>1. \A p : ~Waiting(images, "created", p)
      BY <2>1 DEF Waiting
    <3>2. QED
      BY <1>1, <2>1, <3>1, IdleHolds
  <2>2. CASE images # <<>>
    BY <1>1, <2>2 DEF Holds, Handlers
  <2>3. QED
    BY <2>1, <2>2
<1>12. /\ \A p : Holds(agent[t], "created", p) <=> Waiting(todo, "created", p)
       /\ \A p : ~Holds(agent[t], "deleted", p)
  BY <1>5 DEF Holds, todo
<1>13. Sorted'
  <2>1. /\ \A k \in DOMAIN reported' : reported'[k].type \in {"created", "deleted"}
        /\ \A k \in DOMAIN buffer' : buffer'[k].type \in {"created", "deleted"}
    BY <1>1 DEF FreshInv, Sorted
  <2>2. QED
    BY <1>1, <1>10, <2>1, SortedStep DEF FreshInv
<1>14. \A kind \in {"created", "deleted"}, p \in Paths : Near(t, kind, p)' => Near(t, kind, p)
  BY <1>1, <1>8, <1>10, <1>11, <1>12 DEF Near
<1>15. \A p \in Paths : Near(t, "deleted", p) => Near(t, "deleted", p)'
  BY <1>1, <1>12 DEF Near
<1>16. \A p \in Images \cap disk \cap Paths : Near(t, "created", p) => Near(t, "created", p)'
  BY <1>1, <1>9, <1>11, <1>12 DEF Near
<1>17. OnceOnly' /\ OnList' /\ Trailing' /\ RowsFollow'
  <2>1. agent[t].pc \notin WorkPCs /\ agent'[t].pc \notin WorkPCs
    BY <1>1, Records DEF WorkPCs
  <2>2. \A p \in Paths : Queued(p) => Queued(p)'
    BY <1>1 DEF Queued
  <2>3. QED
    BY <1>1, <1>14, <1>15, <1>16, <2>1, <2>2, HandlerKeeps
<1>18. QED
  BY <1>13, <1>17 DEF FreshInv

\* The threads that a step leaves alone trail as before.
LEMMA OthersTrail ==
    ASSUME OnList, Trailing, NEW T, \A w \in Workers \ T : agent'[w] = agent[w] /\ (w \in list => w \in list'),
           \A w \in Workers \cap T : agent'[w].pc \in WorkPCs =>
              /\ w \in list'
              /\ agent'[w].pc \in {"insert", "index"} => \A p \in agent'[w].files :
                    p \in disk \/ (agent[w].pc \in {"insert", "index"} /\ p \in agent[w].files),
           UNCHANGED <<disk, reported, buffer>>
    PROVE  OnList' /\ Trailing'
<1>1. \A p : Queued(p)' <=> Queued(p)
  BY DEF Queued
<1>2. OnList'
  BY DEF OnList
<1>3. Trailing'
  <2> SUFFICES ASSUME NEW w \in Workers, NEW p \in Paths, p \notin disk,
                      agent'[w].pc \in {"insert", "index"}, p \in agent'[w].files
               PROVE  Queued(p)
    BY <1>1 DEF Trailing
  <2>1. agent[w].pc \in {"insert", "index"} /\ p \in agent[w].files
    BY DEF WorkPCs
  <2>2. QED
    BY <2>1 DEF Trailing
<1>4. QED
  BY <1>2, <1>3

LEMMA FreshOnDeleted ==
    ASSUME TypeOK, FreshInv, NEW t \in Threads, OnDeleted(t)
    PROVE  FreshInv'
<1> DEFINE todo == agent[t].todo
<1>1. /\ agent[t].pc = "deleted" /\ agent'[t] = Idle
      /\ \A o \in Threads \ {t} : agent'[o] = agent[o]
      /\ \A p \in Paths : row'[p] = IF \E k \in DOMAIN todo : todo[k].src = p THEN "none" ELSE row[p]
      /\ UNCHANGED <<disk, used, reported, buffer, list, scenario, left>>
  BY OnDeletedMoves
<1>2. agent[t].pc \in Handlers("deleted") /\ agent[t].pc \notin Handlers("created")
  BY <1>1 DEF Handlers
<1>3. \A k \in DOMAIN todo : todo[k].type = "deleted"
  BY <1>2 DEF FreshInv, Sorted, OwnKind
<1>4. \A p \in Paths : row'[p] = IF Holds(agent[t], "deleted", p) THEN "none" ELSE row[p]
  BY <1>1, <1>2, <1>3 DEF Holds, Waiting
<1> HIDE DEF todo
<1>5. \A kind \in {"created", "deleted"}, p \in Paths : Comes(kind, p)' => Comes(kind, p)
  <2>1. \A kind \in {"created", "deleted"}, p \in Paths : Near(t, kind, p)' => Near(t, kind, p)
    BY <1>1, IdleHolds DEF Near
  <2>2. QED
    BY <1>1, <2>1, ComesNear
<1>6. \A p \in Paths : Comes("created", p) => Comes("created", p)'
  <2>1. \A p \in Paths : Near(t, "created", p) => Near(t, "created", p)'
    BY <1>1, <1>2 DEF Near, Holds
  <2>2. QED
    BY <1>1, <2>1, ComesNear
<1>7. \A p \in Paths : ~Holds(agent[t], "deleted", p) => (Comes("deleted", p) => Comes("deleted", p)')
  <2>1. \A p \in Paths : ~Holds(agent[t], "deleted", p) => (Near(t, "deleted", p) => Near(t, "deleted", p)')
    BY <1>1 DEF Near
  <2>2. QED
    BY <1>1, <2>1, ComesNear
<1>8. \A p \in Paths : Holds(agent[t], "deleted", p) => Comes("deleted", p)
  BY DEF Comes
<1>9. \A w \in Workers, p \in Paths : /\ Takes(agent'[w], p) <=> Takes(agent[w], p)
                                      /\ Puts(agent'[w], p) <=> Puts(agent[w], p)
  <2> SUFFICES ASSUME NEW w \in Workers, NEW p \in Paths
               PROVE  /\ Takes(agent'[w], p) <=> Takes(agent[w], p)
                      /\ Puts(agent'[w], p) <=> Puts(agent[w], p)
    OBVIOUS
  <2>1. CASE w = t
    BY <1>1, <2>1, Records DEF Takes, Puts
  <2>2. CASE w # t
    BY <1>1, <2>2 DEF Threads
  <2>3. QED
    BY <2>1, <2>2
<1>10. \A p \in Paths : Taken(p)' <=> Taken(p)
  BY <1>9 DEF Taken
<1>11. OnceOnly'
  <2>1. \A p \in Paths : row'[p] = "pending" => row[p] = "pending"
    BY <1>4
  <2>2. QED
    BY <1>1, <1>5, <1>10, <2>1 DEF FreshInv, OnceOnly, Gone
<1>12. RowsFollow'
  <2> SUFFICES ASSUME NEW p \in Paths PROVE RowFollows(p)'
    BY DEF RowsFollow
  <2>1. disk' = disk /\ used' = used /\ left' = left /\ Images' = Images
    BY <1>1 DEF Images
  <2>2. RowFollows(p)
    BY DEF FreshInv, RowsFollow
  <2>3. CASE Holds(agent[t], "deleted", p)
    <3>1. row'[p] = "none" /\ p \notin disk
      BY <1>4, <1>8, <2>3 DEF FreshInv, OnceOnly, Gone
    <3>2. QED
      BY <2>1, <3>1 DEF RowFollows
  <2>4. CASE ~Holds(agent[t], "deleted", p)
    <3>1. row'[p] = row[p]
      BY <1>4, <2>4
    <3>2. QED
      BY <1>6, <1>7, <1>9, <1>10, <2>1, <2>2, <2>4, <3>1 DEF RowFollows, Gone
  <2>5. QED
    BY <2>3, <2>4
<1>13. Sorted'
  <2>1. /\ \A k \in DOMAIN reported' : reported'[k].type \in {"created", "deleted"}
        /\ \A k \in DOMAIN buffer' : buffer'[k].type \in {"created", "deleted"}
    BY <1>1 DEF FreshInv, Sorted
  <2>2. QED
    BY <1>1, <2>1, IdleHolds, SortedStep DEF FreshInv
<1>14. OnList' /\ Trailing'
  <2>1. agent'[t].pc \notin WorkPCs
    BY <1>1, Records DEF WorkPCs
  <2> DEFINE T == {t}
  <2>2. \A w \in Workers \ T : agent'[w] = agent[w] /\ (w \in list => w \in list')
    BY <1>1 DEF Threads
  <2>3. \A w \in Workers \cap T : agent'[w].pc \notin WorkPCs
    BY <2>1
  <2> HIDE DEF T
  <2>4. QED
    BY <1>1, <2>2, <2>3, OthersTrail DEF FreshInv
<1>15. QED
  BY <1>11, <1>12, <1>13, <1>14 DEF FreshInv

\* No thread handles renames.
LEMMA FreshOnMoved ==
    ASSUME TypeOK, FreshInv, NEW t \in Threads, OnMoved(t)
    PROVE  FALSE
  BY OnMovedMoves DEF FreshInv, Sorted, OwnKind

\* A step that leaves disk and rows alone and only hands files on.
LEMMA HandedOn ==
    ASSUME FreshInv, UNCHANGED <<disk, used, row, scenario, left>>,
           \A p \in Paths : Comes("deleted", p)' <=> Comes("deleted", p),
           \A p \in Paths : Comes("created", p)' \/ Taken(p)' => Comes("created", p) \/ Taken(p),
           \A p \in Paths \cap Images \cap disk :
              Comes("created", p) \/ Taken(p) => Comes("created", p)' \/ Taken(p)',
           \A w \in Workers, p \in Paths : Puts(agent[w], p) => Puts(agent'[w], p)
    PROVE  OnceOnly' /\ RowsFollow'
<1>1. OnceOnly'
  BY DEF FreshInv, OnceOnly, Gone
<1>2. RowsFollow'
  <2> SUFFICES ASSUME NEW p \in Paths PROVE RowFollows(p)'
    BY DEF RowsFollow
  <2>1. row' = row /\ disk' = disk /\ used' = used /\ left' = left /\ Images' = Images
    BY DEF Images
  <2>2. RowFollows(p)
    BY DEF FreshInv, RowsFollow
  <2>3. QED
    BY <2>1, <2>2 DEF RowFollows, Gone
<1>3. QED
  BY <1>1, <1>2

LEMMA FreshSpawnWorker ==
    ASSUME TypeOK, FreshInv, NEW t \in Threads, SpawnWorker(t)
    PROVE  FreshInv'
<1> DEFINE todo == agent[t].todo
           Rest(n) == SubSeq(todo, n + 1, Len(todo))
<1>1. /\ agent[t].pc = "spawn" /\ agent'[t].files = {}
      /\ UNCHANGED <<disk, used, row, reported, buffer, scenario, left>>
  BY SpawnWorkerMoves
<1>2. PICK w \in Workers, n \in 0..Len(todo) :
          /\ w # t /\ agent[w].pc = "idle" /\ agent'[w].pc = "filter" /\ list' = list \cup {w}
          /\ agent'[w].files = {todo[k].src : k \in 1..n}
          /\ \A o \in Threads \ {t, w} : agent'[o] = agent[o]
          /\ IF Rest(n) = <<>> THEN agent'[t] = Idle
             ELSE agent'[t].pc = "spawn" /\ agent'[t].todo = Rest(n)
  BY SpawnWorkerMoves
<1>3. todo \in Seq(Event) /\ w \in Threads
  BY ThreadFacts DEF Threads
<1> DEFINE front == SubSeq(todo, 1, n)
           rest == Rest(n)
<1>4. Len(todo) \in Nat /\ n \in Nat /\ n <= Len(todo) /\ DOMAIN todo = 1..Len(todo)
  BY <1>3
<1>5. agent[t].pc \in Handlers("created") /\ agent[t].pc \notin Handlers("deleted")
  BY <1>1 DEF Handlers
<1>6. \A k \in DOMAIN todo : todo[k].type = "created"
  BY <1>5 DEF FreshInv, Sorted, OwnKind
<1>7. \A p : Waiting(todo, "created", p) <=> Waiting(front, "created", p) \/ Waiting(rest, "created", p)
  BY <1>3, WaitingSplit
<1>8. \A p : Waiting(front, "created", p) <=> p \in agent'[w].files
  <2>1. DOMAIN front = 1..n /\ \A k \in 1..n : front[k] = todo[k] /\ k \in DOMAIN todo
    BY <1>3, <1>4
  <2> HIDE DEF front
  <2>2. \A p : Waiting(front, "created", p) <=> \E k \in 1..n : todo[k].src = p
    BY <1>6, <2>1 DEF Waiting
  <2>3. QED
    BY <1>2, <2>2
<1>9. \A k \in DOMAIN rest : rest[k].type = "created"
  <2>1. DOMAIN rest = 1..(Len(todo) - n) /\ \A k \in 1..(Len(todo) - n) : rest[k] = todo[k + n] /\ k + n \in DOMAIN todo
    BY <1>3, <1>4
  <2> HIDE DEF rest
  <2>2. QED
    BY <1>6, <2>1
<1>10. IF rest = <<>> THEN agent'[t] = Idle ELSE agent'[t].pc = "spawn" /\ agent'[t].todo = rest
  BY <1>2
<1>11. \A p : Holds(agent[t], "created", p) <=> Waiting(todo, "created", p)
  BY <1>5 DEF Holds
<1> HIDE DEF front, rest, todo, Rest
<1>12. OwnKind(agent'[t]) /\ \A p : ~Holds(agent'[t], "deleted", p)
  <2>1. CASE rest = <<>>
    BY <1>10, <2>1, IdleHolds
  <2>2. CASE rest # <<>>
    <3>1. agent'[t].pc \notin Handlers("deleted") /\ agent'[t].pc # "moved"
      BY <1>10, <2>2 DEF Handlers
    <3>2. QED
      BY <1>9, <1>10, <2>2, <3>1 DEF OwnKind, Holds
  <2>3. QED
    BY <2>1, <2>2
<1>13. \A p : Holds(agent'[t], "created", p) <=> Waiting(rest, "created", p)
  <2>1. CASE rest = <<>>
    <3>1. \A p : ~Waiting(rest, "created", p)
      BY <2>1 DEF Waiting
    <3>2. QED
      BY <1>10, <2>1, <3>1, IdleHolds
  <2>2. CASE rest # <<>>
    BY <1>10, <2>2 DEF Holds, Handlers
  <2>3. QED
    BY <2>1, <2>2
<1>14. \A p : ~Holds(agent[t], "deleted", p)
  BY <1>5 DEF Holds
<1>15. /\ OwnKind(agent'[w])
       /\ \A kind \in {"created", "deleted"} : \A p : ~Holds(agent[w], kind, p) /\ ~Holds(agent'[w], kind, p)
  <2>1. \A kind \in {"created", "deleted"} : agent[w].pc \notin Handlers(kind) /\ agent'[w].pc \notin Handlers(kind)
    BY <1>2 DEF Handlers
  <2>2. QED
    BY <1>2, <2>1 DEF OwnKind, Holds
<1>16. \A p \in Paths : Comes("deleted", p)' <=> Comes("deleted", p)
  <2> SUFFICES ASSUME NEW p \in Paths PROVE Comes("deleted", p)' <=> Comes("deleted", p)
    OBVIOUS
  <2>1. \A o \in Threads : Holds(agent'[o], "deleted", p) <=> Holds(agent[o], "deleted", p)
    BY <1>2, <1>12, <1>14, <1>15
  <2>2. QED
    BY <1>1, <2>1 DEF Comes
<1>17. \A p \in Paths : Comes("created", p)' \/ Taken(p)' <=> Comes("created", p) \/ Taken(p)
  <2> SUFFICES ASSUME NEW p \in Paths
               PROVE  Comes("created", p)' \/ Taken(p)' <=> Comes("created", p) \/ Taken(p)
    OBVIOUS
  <2>1. Holds(agent[t], "created", p) <=> Holds(agent'[t], "created", p) \/ Takes(agent'[w], p)
    BY <1>2, <1>7, <1>8, <1>11, <1>13 DEF Takes
  <2>2. \A o \in Threads \ {t, w} : Holds(agent'[o], "created", p) <=> Holds(agent[o], "created", p)
    BY <1>2
  <2>3. \A o \in Threads \ {t, w} : Takes(agent'[o], p) <=> Takes(agent[o], p)
    BY <1>2
  <2>4. ~Takes(agent[t], p) /\ ~Takes(agent'[t], p) /\ ~Takes(agent[w], p)
    BY <1>1, <1>2 DEF Takes
  <2>5. ~Holds(agent[w], "created", p) /\ ~Holds(agent'[w], "created", p)
    BY <1>15
  <2>6. Taken(p)' <=> Taken(p) \/ Takes(agent'[w], p)
    <3>1. \A o \in Workers : o \in Threads
      BY DEF Threads
    <3>2. QED
      BY <2>3, <2>4, <3>1 DEF Taken
  <2>7. (\E o \in Threads : Holds(agent'[o], "created", p)) \/ Takes(agent'[w], p)
        <=> (\E o \in Threads : Holds(agent[o], "created", p))
    BY <1>3, <2>1, <2>2, <2>5
  <2>8. QED
    BY <1>1, <2>6, <2>7 DEF Comes
<1>18. \A o \in Workers, p \in Paths : Puts(agent[o], p) => Puts(agent'[o], p)
  BY <1>1, <1>2 DEF Puts, Threads
<1>19. OnceOnly' /\ RowsFollow'
  BY <1>1, <1>16, <1>17, <1>18, HandedOn
<1>20. Sorted'
  BY <1>1, <1>2, <1>12, <1>15 DEF FreshInv, Sorted
<1>21. OnList' /\ Trailing'
  <2> DEFINE T == {t, w}
  <2>1. \A v \in Workers \ T : agent'[v] = agent[v] /\ (v \in list => v \in list')
    BY <1>2 DEF Threads
  <2>2. agent'[t].pc \notin WorkPCs
    BY <1>10, Records DEF WorkPCs
  <2>3. \A v \in Workers \cap T : agent'[v].pc \in WorkPCs =>
           v \in list' /\ agent'[v].pc \notin {"insert", "index"}
    BY <1>2, <2>2
  <2> HIDE DEF T
  <2>4. QED
    BY <1>1, <2>1, <2>3, OthersTrail DEF FreshInv
<1>22. QED
  BY <1>19, <1>20, <1>21 DEF FreshInv

\* What a worker does to the events and files of the others: nothing.
LEMMA WorkerNear ==
    ASSUME FreshInv, NEW w \in Workers,
           \A o \in Threads \ {w} : agent'[o] = agent[o], UNCHANGED <<disk, reported, buffer>>,
           agent[w].pc \in WorkPCs,
           agent'[w].pc \in {"insert", "index", "leave", "idle", "try"},
           list' = list \/ (list' = list \ {w} /\ agent'[w].pc \notin WorkPCs),
           agent'[w].pc \in {"insert", "index"} => \A p \in agent'[w].files :
              p \in disk \/ (agent[w].pc \in {"insert", "index"} /\ p \in agent[w].files)
    PROVE  /\ Sorted' /\ OnList' /\ Trailing'
           /\ \A kind \in {"created", "deleted"}, p \in Paths : Comes(kind, p)' <=> Comes(kind, p)
           /\ \A v \in Workers \ {w} : agent'[v] = agent[v]
<1>1. w \in Threads
  BY DEF Threads
<1>2. \A kind \in {"created", "deleted"} : agent[w].pc \notin Handlers(kind) /\ agent'[w].pc \notin Handlers(kind)
  BY DEF Handlers, WorkPCs
<1>3. \A kind \in {"created", "deleted"}, p \in Paths : Comes(kind, p)' <=> Comes(kind, p)
  <2>1. \A kind \in {"created", "deleted"}, p \in Paths : Near(w, kind, p)' <=> Near(w, kind, p)
    BY <1>2 DEF Near, Holds
  <2>2. QED
    BY <1>1, <2>1, ComesNear
<1>4. Sorted'
  <2>1. OwnKind(agent'[w])
    BY <1>2 DEF OwnKind
  <2>2. QED
    BY <1>1, <2>1, SortedStep DEF FreshInv, Sorted
<1>5. \A v \in Workers \ {w} : agent'[v] = agent[v]
  BY DEF Threads
<1>6. OnList' /\ Trailing'
  <2> DEFINE T == {w}
  <2>1. w \in list
    BY DEF FreshInv, OnList
  <2>2. \A v \in Workers \ T : agent'[v] = agent[v] /\ (v \in list => v \in list')
    BY <1>5
  <2>3. \A v \in Workers \cap T : agent'[v].pc \in WorkPCs =>
           /\ v \in list'
           /\ agent'[v].pc \in {"insert", "index"} => \A p \in agent'[v].files :
                 p \in disk \/ (agent[v].pc \in {"insert", "index"} /\ p \in agent[v].files)
    BY <2>1
  <2> HIDE DEF T
  <2>4. QED
    BY <2>2, <2>3, OthersTrail DEF FreshInv
<1>7. QED
  BY <1>3, <1>4, <1>5, <1>6

LEMMA FreshWorkerFilter ==
    ASSUME TypeOK, FreshInv, NEW w \in Workers, WorkerFilter(w)
    PROVE  FreshInv'
<1>1. /\ agent[w].pc = "filter" /\ agent'[w].pc \in {"leave", "insert"}
      /\ agent'[w].files = agent[w].files \cap disk \cap Images
      /\ agent'[w].files # {} => agent'[w].pc = "insert"
      /\ \A o \in Threads \ {w} : agent'[o] = agent[o]
      /\ UNCHANGED <<disk, used, row, reported, buffer, list, scenario, left>>
  BY WorkerFilterMoves
<1>2. /\ Sorted' /\ OnList' /\ Trailing'
      /\ \A kind \in {"created", "deleted"}, p \in Paths : Comes(kind, p)' <=> Comes(kind, p)
      /\ \A v \in Workers \ {w} : agent'[v] = agent[v]
  <2>1. /\ agent[w].pc \in WorkPCs
        /\ agent'[w].pc \in {"insert", "index", "leave", "idle", "try"}
    BY <1>1 DEF WorkPCs
  <2>2. QED
    BY <1>1, <2>1, WorkerNear
<1>3. \A p : Takes(agent'[w], p) => Takes(agent[w], p)
  BY <1>1 DEF Takes
<1>4. \A p \in Images \cap disk : Takes(agent[w], p) => Takes(agent'[w], p)
  BY <1>1 DEF Takes
<1>5. \A p : ~Puts(agent[w], p)
  BY <1>1 DEF Puts
<1>6. \A p \in Paths : Taken(p)' => Taken(p)
  BY <1>2, <1>3 DEF Taken
<1>7. \A p \in Paths \cap Images \cap disk : Taken(p) => Taken(p)'
  BY <1>2, <1>4 DEF Taken
<1>8. \A v \in Workers, p \in Paths : Puts(agent[v], p) => Puts(agent'[v], p)
  BY <1>2, <1>5
<1>9. OnceOnly' /\ RowsFollow'
  BY <1>1, <1>2, <1>6, <1>7, <1>8, HandedOn
<1>10. QED
  BY <1>2, <1>9 DEF FreshInv

LEMMA FreshWorkerLeave ==
    ASSUME TypeOK, FreshInv, NEW w \in Workers, WorkerLeave(w)
    PROVE  FreshInv'
<1>1. /\ agent[w].pc = "leave" /\ agent'[w].pc \in {"idle", "try"} /\ agent'[w].files = {}
      /\ list' = list \ {w}
      /\ \A o \in Threads \ {w} : agent'[o] = agent[o]
      /\ UNCHANGED <<disk, used, row, reported, buffer, scenario, left>>
  BY WorkerLeaveMoves
<1>2. /\ Sorted' /\ OnList' /\ Trailing'
      /\ \A kind \in {"created", "deleted"}, p \in Paths : Comes(kind, p)' <=> Comes(kind, p)
      /\ \A v \in Workers \ {w} : agent'[v] = agent[v]
  <2>1. /\ agent[w].pc \in WorkPCs
        /\ agent'[w].pc \in {"insert", "index", "leave", "idle", "try"}
    BY <1>1 DEF WorkPCs
  <2>2. agent'[w].pc \notin WorkPCs /\ agent'[w].pc \notin {"insert", "index"}
    BY <1>1 DEF WorkPCs
  <2>3. QED
    BY <1>1, <2>1, <2>2, WorkerNear
<1>3. \A p : ~Takes(agent'[w], p) /\ ~Takes(agent[w], p) /\ ~Puts(agent[w], p)
  BY <1>1 DEF Takes, Puts
<1>4. \A p \in Paths : Taken(p)' <=> Taken(p)
  BY <1>2, <1>3 DEF Taken
<1>5. \A v \in Workers, p \in Paths : Puts(agent[v], p) => Puts(agent'[v], p)
  BY <1>2, <1>3
<1>6. OnceOnly' /\ RowsFollow'
  BY <1>1, <1>2, <1>4, <1>5, HandedOn
<1>7. QED
  BY <1>2, <1>6 DEF FreshInv

LEMMA FreshWorkerInsert ==
    ASSUME TypeOK, FreshInv, NEW w \in Workers, WorkerInsert(w)
    PROVE  FreshInv'
<1>1. /\ agent[w].pc = "insert" /\ agent'[w].pc = "index" /\ agent'[w].files = agent[w].files
      /\ \A o \in Threads \ {w} : agent'[o] = agent[o]
      /\ \A p \in Paths : row'[p] = IF p \in agent[w].files /\ row[p] \in {"none", "removed"}
                                    THEN "pending" ELSE row[p]
      /\ UNCHANGED <<disk, used, reported, buffer, list, scenario, left>>
  BY WorkerInsertMoves
<1>2. /\ Sorted' /\ OnList' /\ Trailing'
      /\ \A kind \in {"created", "deleted"}, p \in Paths : Comes(kind, p)' <=> Comes(kind, p)
      /\ \A v \in Workers \ {w} : agent'[v] = agent[v]
  <2>1. /\ agent[w].pc \in WorkPCs
        /\ agent'[w].pc \in {"insert", "index", "leave", "idle", "try"}
    BY <1>1 DEF WorkPCs
  <2>2. QED
    BY <1>1, <2>1, WorkerNear
<1>3. /\ \A p : ~Takes(agent'[w], p) /\ ~Puts(agent[w], p)
      /\ \A p : Takes(agent[w], p) <=> p \in agent[w].files
      /\ \A p : Puts(agent'[w], p) <=> p \in agent[w].files
  BY <1>1 DEF Takes, Puts
<1>4. \A p \in Paths : Taken(p)' => Taken(p)
  BY <1>2, <1>3 DEF Taken
<1>5. \A p \in Paths : p \notin agent[w].files => (Taken(p) => Taken(p)')
  BY <1>2, <1>3 DEF Taken
<1>6. \A v \in Workers, p \in Paths : Puts(agent[v], p) => Puts(agent'[v], p)
  BY <1>2, <1>3
<1>7. OnceOnly'
  <2>1. \A p \in Paths : p \in agent[w].files => Taken(p)
    BY <1>3 DEF Taken
  <2>2. \A p \in Paths : row'[p] = "pending" => row[p] = "pending" \/ Taken(p)
    BY <1>1, <2>1
  <2>3. QED
    BY <1>1, <1>2, <1>4, <2>2 DEF FreshInv, OnceOnly, Gone
<1>8. RowsFollow'
  <2> SUFFICES ASSUME NEW p \in Paths PROVE RowFollows(p)'
    BY DEF RowsFollow
  <2>1. disk' = disk /\ used' = used /\ left' = left /\ Images' = Images /\ (Gone(p)' <=> Gone(p))
    BY <1>1 DEF Images, Gone
  <2>2. RowFollows(p)
    BY DEF FreshInv, RowsFollow
  <2>3. row[p] \in Statuses
    BY DEF TypeOK, Statuses
  <2>4. CASE p \in agent[w].files
    <3>1. row'[p] = IF row[p] \in {"none", "removed"} THEN "pending" ELSE row[p]
      BY <1>1, <2>4
    <3>2. row'[p] \in {"pending", "indexed"} /\ (row'[p] = "indexed" => row[p] = "indexed")
      BY <2>3, <3>1 DEF Statuses
    <3>3. \E v \in Workers : Puts(agent'[v], p)
      BY <1>3, <2>4
    <3>4. p \notin disk => Comes("deleted", p)
      BY <1>1, <2>4 DEF FreshInv, Trailing, Queued, Comes
    <3>5. QED
      BY <1>2, <2>1, <2>2, <3>2, <3>3, <3>4 DEF RowFollows
  <2>5. CASE p \notin agent[w].files
    <3>1. row'[p] = row[p]
      BY <1>1, <2>5
    <3>2. QED
      BY <1>2, <1>5, <1>6, <2>1, <2>2, <2>5, <3>1 DEF RowFollows
  <2>6. QED
    BY <2>4, <2>5
<1>9. QED
  BY <1>2, <1>7, <1>8 DEF FreshInv

LEMMA FreshWorkerIndex ==
    ASSUME TypeOK, FreshInv, NEW w \in Workers, WorkerIndex(w)
    PROVE  FreshInv'
<1>1. /\ agent[w].pc = "index" /\ agent'[w].pc = "leave"
      /\ \A o \in Threads \ {w} : agent'[o] = agent[o]
      /\ \A p \in Paths : row'[p] = IF p \in agent[w].files /\ row[p] = "pending"
                                    THEN IF p \in disk THEN "indexed" ELSE "removed"
                                    ELSE row[p]
      /\ UNCHANGED <<disk, used, reported, buffer, list, scenario, left>>
  BY WorkerIndexMoves
<1>2. /\ Sorted' /\ OnList' /\ Trailing'
      /\ \A kind \in {"created", "deleted"}, p \in Paths : Comes(kind, p)' <=> Comes(kind, p)
      /\ \A v \in Workers \ {w} : agent'[v] = agent[v]
  <2>1. /\ agent[w].pc \in WorkPCs
        /\ agent'[w].pc \in {"insert", "index", "leave", "idle", "try"}
    BY <1>1 DEF WorkPCs
  <2>2. QED
    BY <1>1, <2>1, WorkerNear
<1>3. /\ \A p : ~Takes(agent'[w], p) /\ ~Takes(agent[w], p)
      /\ \A p : Puts(agent[w], p) <=> p \in agent[w].files
  BY <1>1 DEF Takes, Puts
<1>4. \A p \in Paths : Taken(p)' <=> Taken(p)
  BY <1>2, <1>3 DEF Taken
<1>5. \A p \in Paths : p \notin agent[w].files =>
         \A v \in Workers : Puts(agent[v], p) => Puts(agent'[v], p)
  BY <1>2, <1>3
<1>6. OnceOnly'
  <2>1. \A p \in Paths : row'[p] = "pending" => row[p] = "pending"
    BY <1>1
  <2>2. QED
    BY <1>1, <1>2, <1>4, <2>1 DEF FreshInv, OnceOnly, Gone
<1>7. RowsFollow'
  <2> SUFFICES ASSUME NEW p \in Paths PROVE RowFollows(p)'
    BY DEF RowsFollow
  <2>1. disk' = disk /\ used' = used /\ left' = left /\ Images' = Images /\ (Gone(p)' <=> Gone(p))
    BY <1>1 DEF Images, Gone
  <2>2. RowFollows(p)
    BY DEF FreshInv, RowsFollow
  <2>3. CASE p \in agent[w].files /\ row[p] = "pending"
    <3>1. row'[p] = IF p \in disk THEN "indexed" ELSE "removed"
      BY <1>1, <2>3
    <3>2. p \notin disk => Gone(p)
      BY <2>3 DEF FreshInv, OnceOnly, Gone
    <3>3. QED
      BY <2>1, <3>1, <3>2 DEF RowFollows
  <2>4. CASE ~(p \in agent[w].files /\ row[p] = "pending")
    <3>1. row'[p] = row[p]
      BY <1>1, <2>4
    <3>2. QED
      BY <1>2, <1>4, <1>5, <2>1, <2>2, <2>4, <3>1 DEF RowFollows
  <2>5. QED
    BY <2>3, <2>4
<1>8. QED
  BY <1>2, <1>6, <1>7 DEF FreshInv

\* Rows that a failing batch leaves as they are, or takes out of use, are in left.
LEMMA FreshWorkerFaults ==
    ASSUME TypeOK, FreshInv, NEW w \in Workers, WorkerFaults(w)
    PROVE  FreshInv'
<1>1. /\ agent[w].pc = "index" /\ agent'[w].pc = "leave"
      /\ \A o \in Threads \ {w} : agent'[o] = agent[o]
      /\ \A p \in Paths :
            IF p \in agent[w].files /\ row[p] = "pending"
            THEN \/ row'[p] = "indexed" /\ p \in disk
                 \/ row'[p] = "pending" /\ p \in left'
                 \/ row'[p] = "removed" /\ (p \notin disk \/ p \in left')
            ELSE row'[p] = row[p]
      /\ left \subseteq left'
      /\ UNCHANGED <<disk, used, reported, buffer, list, scenario>>
  BY WorkerFaultsMoves
<1>2. /\ Sorted' /\ OnList' /\ Trailing'
      /\ \A kind \in {"created", "deleted"}, p \in Paths : Comes(kind, p)' <=> Comes(kind, p)
      /\ \A v \in Workers \ {w} : agent'[v] = agent[v]
  <2>1. /\ agent[w].pc \in WorkPCs
        /\ agent'[w].pc \in {"insert", "index", "leave", "idle", "try"}
    BY <1>1 DEF WorkPCs
  <2>2. QED
    BY <1>1, <2>1, WorkerNear
<1>3. /\ \A p : ~Takes(agent'[w], p) /\ ~Takes(agent[w], p)
      /\ \A p : Puts(agent[w], p) <=> p \in agent[w].files
  BY <1>1 DEF Takes, Puts
<1>4. \A p \in Paths : Taken(p)' <=> Taken(p)
  BY <1>2, <1>3 DEF Taken
<1>5. \A p \in Paths : p \notin agent[w].files =>
         \A v \in Workers : Puts(agent[v], p) => Puts(agent'[v], p)
  BY <1>2, <1>3
<1>6. OnceOnly'
  <2>1. \A p \in Paths : row'[p] = "pending" => row[p] = "pending"
    BY <1>1
  <2>2. QED
    BY <1>1, <1>2, <1>4, <2>1 DEF FreshInv, OnceOnly, Gone
<1>7. RowsFollow'
  <2> SUFFICES ASSUME NEW p \in Paths PROVE RowFollows(p)'
    BY DEF RowsFollow
  <2>1. disk' = disk /\ used' = used /\ Images' = Images /\ (Gone(p)' <=> Gone(p))
    BY <1>1 DEF Images, Gone
  <2>2. RowFollows(p)
    BY DEF FreshInv, RowsFollow
  <2>3. CASE p \in agent[w].files /\ row[p] = "pending"
    <3>1. \/ row'[p] = "indexed" /\ p \in disk
          \/ row'[p] = "pending" /\ p \in left'
          \/ row'[p] = "removed" /\ (p \notin disk \/ p \in left')
      BY <1>1, <2>3
    <3>2. p \notin disk => Gone(p)
      BY <2>3 DEF FreshInv, OnceOnly, Gone
    <3>3. p \in Images \ disk => Comes("deleted", p)'
      BY <1>2, <2>2, <2>3 DEF RowFollows
    <3>4. QED
      BY <2>1, <3>1, <3>2, <3>3 DEF RowFollows
  <2>4. CASE ~(p \in agent[w].files /\ row[p] = "pending")
    <3>1. row'[p] = row[p] /\ (p \in left => p \in left')
      BY <1>1, <2>4
    <3>2. QED
      BY <1>2, <1>4, <1>5, <2>1, <2>2, <2>4, <3>1 DEF RowFollows
  <2>5. QED
    BY <2>3, <2>4
<1>8. QED
  BY <1>2, <1>6, <1>7 DEF FreshInv

\* A change of the file system adds its event to those that come.
LEMMA Reported ==
    ASSUME TypeOK, NEW e \in Event, reported' = Append(reported, e), UNCHANGED <<buffer, agent>>
    PROVE  /\ \A kind, p : Comes(kind, p)' <=> Comes(kind, p) \/ (e.type = kind /\ e.src = p)
           /\ \A p : Taken(p)' <=> Taken(p)
<1>1. reported \in Seq(Event)
  BY DEF TypeOK
<1>2. \A kind, p : Waiting(reported', kind, p) <=> Waiting(reported, kind, p) \/ (e.type = kind /\ e.src = p)
  BY <1>1, WaitingAppend
<1>3. QED
  BY <1>2 DEF Comes, Taken

\* The file system reports what it does.
LEMMA SortedReported ==
    ASSUME TypeOK, Sorted, NEW e \in Event, e.type \in {"created", "deleted"},
           reported' = Append(reported, e), UNCHANGED <<buffer, agent>>
    PROVE  Sorted'
<1>1. reported \in Seq(Event)
  BY DEF TypeOK
<1>2. \A k \in DOMAIN reported' : reported'[k].type \in {"created", "deleted"}
  <2>1. /\ DOMAIN reported' = 1..(Len(reported) + 1) /\ Len(reported) \in Nat
        /\ reported'[Len(reported) + 1] = e /\ DOMAIN reported = 1..Len(reported)
        /\ \A k \in 1..Len(reported) : reported'[k] = reported[k]
    BY <1>1
  <2>2. \A k \in 1..(Len(reported) + 1) : k \in 1..Len(reported) \/ k = Len(reported) + 1
    BY <2>1
  <2>3. QED
    BY <2>1, <2>2 DEF Sorted
<1>3. QED
  BY <1>2 DEF Sorted

LEMMA FreshCreateFile ==
    ASSUME TypeOK, Fresh, FreshInv, NEW p \in Paths, CreateFile(p)
    PROVE  FreshInv'
<1> DEFINE e == [type |-> "created", src |-> p, dest |-> p]
<1>1. /\ p \notin used
      /\ disk' = disk \cup {p} /\ used' = used \cup disk'
      /\ reported' = Append(reported, e)
      /\ UNCHANGED <<row, buffer, agent, list, scenario, left>>
  BY CreateFileMoves DEF Fresh, MayUse
<1>2. e \in Event /\ e.type = "created" /\ e.src = p
  BY DEF Event
<1> HIDE DEF e
<1>3. /\ \A kind, q : Comes(kind, q)' <=> Comes(kind, q) \/ (kind = "created" /\ q = p)
      /\ \A q : Taken(q)' <=> Taken(q)
  BY <1>1, <1>2, Reported
<1>4. Sorted'
  BY <1>1, <1>2, SortedReported DEF FreshInv
<1>5. /\ disk \subseteq used
      /\ \A q \in Paths : Comes("created", q) \/ Taken(q) \/ row[q] = "pending" => q \in used
      /\ \A q \in Paths : Comes("deleted", q) => Gone(q)
  BY DEF FreshInv, OnceOnly
<1>6. used' = used \cup {p} /\ \A q : Gone(q) => Gone(q)'
  BY <1>1, <1>5 DEF Gone
<1>7. OnceOnly'
  <2>1. \A q \in Paths : Comes("deleted", q)' => Gone(q)'
    BY <1>3, <1>5, <1>6
  <2>2. \A q \in Paths : Comes("created", q)' \/ Taken(q)' \/ row'[q] = "pending" => q \in used'
    BY <1>1, <1>3, <1>5, <1>6
  <2>3. disk' \subseteq used'
    BY <1>1
  <2>4. QED
    BY <2>1, <2>2, <2>3 DEF OnceOnly
<1>8. RowsFollow'
  <2> SUFFICES ASSUME NEW q \in Paths PROVE RowFollows(q)'
    BY DEF RowsFollow
  <2>1. row' = row /\ agent' = agent /\ left' = left /\ Images' = Images /\ disk' = disk \cup {p}
    BY <1>1 DEF Images
  <2>2. RowFollows(q)
    BY DEF FreshInv, RowsFollow
  <2>3. QED
    BY <1>3, <1>6, <2>1, <2>2 DEF RowFollows
<1>9. OnList' /\ Trailing'
  <2>1. \A q : Queued(q) => Queued(q)'
    BY <1>1, <1>2, WaitingAppend DEF Queued, TypeOK
  <2>2. OnList'
    BY <1>1 DEF FreshInv, OnList
  <2>3. Trailing'
    BY <1>1, <2>1 DEF FreshInv, Trailing
  <2>4. QED
    BY <2>2, <2>3
<1>10. QED
  BY <1>4, <1>7, <1>8, <1>9 DEF FreshInv

LEMMA FreshDeleteFile ==
    ASSUME TypeOK, FreshInv, NEW p \in Paths, DeleteFile(p)
    PROVE  FreshInv'
<1> DEFINE e == [type |-> "deleted", src |-> p, dest |-> p]
<1>1. /\ p \in disk
      /\ disk' = disk \ {p} /\ used' = used \cup disk'
      /\ reported' = Append(reported, e)
      /\ UNCHANGED <<row, buffer, agent, list, scenario, left>>
  BY DeleteFileMoves
<1>2. e \in Event /\ e.type = "deleted" /\ e.src = p
  BY DEF Event
<1> HIDE DEF e
<1>3. /\ \A kind, q : Comes(kind, q)' <=> Comes(kind, q) \/ (kind = "deleted" /\ q = p)
      /\ \A q : Taken(q)' <=> Taken(q)
  BY <1>1, <1>2, Reported
<1>4. Sorted'
  BY <1>1, <1>2, SortedReported DEF FreshInv
<1>5. /\ disk \subseteq used
      /\ \A q \in Paths : Comes("created", q) \/ Taken(q) \/ row[q] = "pending" => q \in used
      /\ \A q \in Paths : Comes("deleted", q) => Gone(q)
  BY DEF FreshInv, OnceOnly
<1>6. used' = used /\ (\A q : Gone(q) => Gone(q)') /\ Gone(p)'
  BY <1>1, <1>5 DEF Gone
<1>7. OnceOnly'
  <2>1. \A q \in Paths : Comes("deleted", q)' => Gone(q)'
    BY <1>3, <1>5, <1>6
  <2>2. \A q \in Paths : Comes("created", q)' \/ Taken(q)' \/ row'[q] = "pending" => q \in used'
    BY <1>1, <1>3, <1>5, <1>6
  <2>3. disk' \subseteq used'
    BY <1>1
  <2>4. QED
    BY <2>1, <2>2, <2>3 DEF OnceOnly
<1>8. RowsFollow'
  <2> SUFFICES ASSUME NEW q \in Paths PROVE RowFollows(q)'
    BY DEF RowsFollow
  <2>1. row' = row /\ agent' = agent /\ left' = left /\ Images' = Images /\ disk' = disk \ {p}
    BY <1>1 DEF Images
  <2>2. RowFollows(q)
    BY DEF FreshInv, RowsFollow
  <2>3. QED
    BY <1>3, <1>6, <2>1, <2>2 DEF RowFollows
<1>9. OnList' /\ Trailing'
  <2>1. \A q : Queued(q) \/ q = p => Queued(q)'
    BY <1>1, <1>2, WaitingAppend DEF Queued, TypeOK
  <2>2. OnList'
    BY <1>1 DEF FreshInv, OnList
  <2>3. Trailing'
    BY <1>1, <2>1 DEF FreshInv, Trailing
  <2>4. QED
    BY <2>2, <2>3
<1>10. QED
  BY <1>4, <1>7, <1>8, <1>9 DEF FreshInv

\* At first no event comes.
LEMMA FreshInit ==
    Init => FreshInv
<1> SUFFICES ASSUME Init PROVE FreshInv
  OBVIOUS
<1>1. /\ used = disk /\ row = [p \in Paths |-> IF p \in disk \cap Images THEN "indexed" ELSE "none"]
      /\ reported = <<>> /\ buffer = <<>> /\ agent = [t \in Threads |-> Idle]
  BY DEF Init
<1>2. \A kind, p : ~Waiting(reported, kind, p) /\ ~Waiting(buffer, kind, p)
  BY <1>1 DEF Waiting
<1>3. \A w \in Workers : w \in Threads
  BY DEF Threads
<1>4. \A t \in Threads : agent[t] = Idle
  BY <1>1
<1>5. \A kind \in {"created", "deleted"} : \A p : ~Comes(kind, p)
  BY <1>2, <1>4, IdleHolds DEF Comes
<1>6. \A p : ~Taken(p)
  BY <1>3, <1>4, Records DEF Taken, Takes
<1>7. Sorted
  BY <1>1, <1>4, IdleHolds DEF Sorted
<1>8. OnceOnly
  BY <1>1, <1>5, <1>6 DEF OnceOnly
<1>9. RowsFollow
  BY <1>1 DEF RowsFollow, RowFollows
<1>10. OnList /\ Trailing
  <2>1. \A w \in Workers : agent[w].pc = "idle"
    BY <1>3, <1>4, Records
  <2>2. QED
    BY <2>1 DEF OnList, Trailing, WorkPCs
<1>11. QED
  BY <1>7, <1>8, <1>9, <1>10 DEF FreshInv

\* The scenario stays what it is, and only deinit changes up.
LEMMA NextKeeps ==
    ASSUME [Next]_vars
    PROVE  scenario' = scenario /\ (up' => up)
<1>1. scenario' = scenario
  BY DEF Next, Handle, Work, Dispatch, TryNextBatch, OnCreated, SpawnWorker, OnDeleted, OnMoved,
         WorkerFilter, WorkerInsert, WorkerIndex, WorkerFaults, WorkerLeave, ModelLoaded, Deinit, CreateFile, DeleteFile,
         MoveFile, Change, vars, world
<1>2. CASE Deinit
  BY <1>1, <1>2 DEF Deinit
<1>3. ~Deinit => up' = up
  BY DEF Next, Handle, Work, Dispatch, TryNextBatch, OnCreated, SpawnWorker, OnDeleted, OnMoved,
         WorkerFilter, WorkerInsert, WorkerIndex, WorkerFaults, WorkerLeave, ModelLoaded, CreateFile, DeleteFile,
         MoveFile, Change, vars, world
<1>4. QED
  BY <1>1, <1>2, <1>3

\* The invariant is kept until deinit.
LEMMA FreshStep ==
    ASSUME TypeOK, [Next]_vars, Fresh, up => FreshInv
    PROVE  Fresh' /\ (up' => FreshInv')
<1>1. Fresh'
  BY NextKeeps DEF Fresh, Ops
<1> SUFFICES ASSUME up' PROVE FreshInv'
  BY <1>1
<1>2. FreshInv
  BY NextKeeps
<1>3. CASE Dispatch
  BY <1>2, <1>3, FreshDispatch
<1>4. ASSUME NEW t \in Threads, Handle(t) PROVE FreshInv'
  BY <1>2, <1>4, FreshTryNextBatch, FreshOnCreated, FreshSpawnWorker, FreshOnDeleted, FreshOnMoved DEF Handle
<1>5. ASSUME NEW w \in Workers, Work(w) PROVE FreshInv'
  BY <1>2, <1>5, FreshWorkerFilter, FreshWorkerInsert, FreshWorkerIndex, FreshWorkerFaults, FreshWorkerLeave DEF Work
<1>6. ASSUME NEW p \in Paths, CreateFile(p) \/ DeleteFile(p) PROVE FreshInv'
  BY <1>2, <1>6, FreshCreateFile, FreshDeleteFile
<1>7. ASSUME NEW p \in Paths, NEW q \in Paths, MoveFile(p, q) PROVE FreshInv'
  BY <1>7 DEF MoveFile, Fresh
<1>8. CASE Deinit
  BY <1>8 DEF Deinit
<1>9. CASE ModelLoaded \/ UNCHANGED vars
  <2>1. UNCHANGED <<disk, used, row, reported, buffer, agent, list, scenario, left>>
    BY <1>9 DEF ModelLoaded, vars, world
  <2>2. (Sorted /\ OnceOnly /\ RowsFollow)'
    BY <1>2, <2>1 DEF FreshInv, Sorted, OnceOnly, RowsFollow, RowFollows, Comes, Taken, Gone, Images
  <2>3. (OnList /\ Trailing)'
    BY <1>2, <2>1 DEF FreshInv, OnList, Trailing, Queued
  <2>4. QED
    BY <2>2, <2>3 DEF FreshInv
<1>10. QED
  BY <1>3, <1>4, <1>5, <1>6, <1>7, <1>8, <1>9 DEF Next

\* With no event left anywhere, nothing comes and nothing is pending.
LEMMA FreshCaughtUp ==
    ASSUME TypeOK, up => FreshInv
    PROVE  CaughtUp
<1> SUFFICES ASSUME up, Quiet, NEW p \in Images
             PROVE  row[p] \in IF p \notin disk THEN {"none", "removed"}
                            ELSE {"indexed"} \cup (IF p \in left THEN {"pending", "removed"} ELSE {})
  BY DEF CaughtUp
<1>1. reported = <<>> /\ buffer = <<>> /\ \A t \in Threads : agent[t].pc = "idle"
  BY DEF Quiet
<1>2. p \in Paths
  BY EventsAssumption DEF TypeOK, Images
<1>3. \A kind \in {"created", "deleted"} : ~Comes(kind, p)
  BY <1>1 DEF Comes, Waiting, Holds, Handlers
<1>4. \A w \in Workers : ~Takes(agent[w], p) /\ ~Puts(agent[w], p)
  BY <1>1 DEF Takes, Puts, Threads
<1>5. row[p] \in {"none", "pending", "indexed", "removed"}
  BY <1>2 DEF TypeOK
<1>6. QED
  BY <1>2, <1>3, <1>4, <1>5 DEF FreshInv, RowsFollow, RowFollows, Taken, Gone

-----------------------------------------------------------------------------
(* Deletions and renames of files that are all indexed.                    *)

Settled == "create" \notin Ops /\ Paths \subseteq Images

\* Event e turns the set A of files into B.
Does(A, e, B) ==
    /\ e.src \in A
    /\ \/ e.type = "deleted" /\ B = A \ {e.src}
       \/ e.type = "moved" /\ e.src # e.dest /\ B = (A \ {e.src}) \cup {e.dest}

Indexed == {p \in Paths : row[p] = "indexed"}

\* Files after each of the events that are yet to be dispatched.
Chain(D) ==
    /\ D[Len(reported)] = disk
    /\ \A k \in 1..Len(reported) : Does(D[k - 1], reported[k], D[k])

\* The one event that is being handled.
Front == IF agent["dispatcher"].pc = "try" THEN buffer ELSE agent["dispatcher"].todo

\* Only the dispatcher works, on one event at a time.
OneByOne ==
    /\ list = {}
    /\ \A w \in Workers : agent[w].pc = "idle"
    /\ agent["dispatcher"].pc \in {"idle", "try", "deleted", "moved"}
    /\ \A p \in Paths : row[p] \in {"none", "indexed"}
    /\ agent["dispatcher"].pc # "try" => buffer = <<>>
    /\ agent["dispatcher"].pc # "idle" => Len(Front) = 1
    /\ agent["dispatcher"].pc \in {"deleted", "moved"} => Front[1].type = agent["dispatcher"].pc

\* The events lead from the table to the disk.
InOrder ==
    \E D \in [0..Len(reported) -> SUBSET Paths] :
        /\ Chain(D)
        /\ IF agent["dispatcher"].pc = "idle" THEN D[0] = Indexed ELSE Does(Indexed, Front[1], D[0])

SettledInv == OneByOne /\ InOrder

\* The invariant of indexed files holds at the start, and each action keeps it.
LEMMA SettledInit ==
    Init /\ Settled => SettledInv
<1> SUFFICES ASSUME Init, Settled PROVE SettledInv
  OBVIOUS
<1>1. /\ disk \in SUBSET Paths
      /\ row = [p \in Paths |-> IF p \in disk \cap Images THEN "indexed" ELSE "none"]
      /\ reported = <<>> /\ buffer = <<>> /\ agent = [t \in Threads |-> Idle] /\ list = {}
  BY DEF Init
<1>2. \A t \in Threads : agent[t].pc = "idle"
  BY <1>1, Records
<1>3. "dispatcher" \in Threads /\ \A w \in Workers : w \in Threads
  BY DEF Threads
<1>4. OneByOne
  BY <1>1, <1>2, <1>3 DEF OneByOne
<1>5. Indexed = disk
  BY <1>1 DEF Indexed, Settled
<1> DEFINE D == [k \in 0..Len(reported) |-> disk]
<1>6. Len(reported) = 0
  BY <1>1
<1>7. D \in [0..Len(reported) -> SUBSET Paths] /\ D[0] = disk /\ Chain(D)
  BY <1>1, <1>6 DEF Chain
<1> HIDE DEF D
<1>8. InOrder
  BY <1>2, <1>3, <1>5, <1>7 DEF InOrder
<1>9. QED
  BY <1>4, <1>8 DEF SettledInv

LEMMA SettledDispatch ==
    ASSUME TypeOK, SettledInv, Dispatch
    PROVE  SettledInv'
<1> DEFINE d == "dispatcher"
           n == Len(reported)
           e == Head(reported)
<1>1. /\ agent[d].pc = "idle" /\ agent'[d].pc = "try"
      /\ \A o \in Threads \ {d} : agent'[o] = agent[o]
  BY DispatchMoves
<1>2. /\ reported # <<>> /\ reported' = Tail(reported) /\ buffer' = Append(buffer, e)
      /\ UNCHANGED <<disk, row, list>>
  BY DEF Dispatch
<1>3. /\ list = {} /\ \A w \in Workers : agent[w].pc = "idle" /\ w \in Threads /\ w # d
      /\ \A p \in Paths : row[p] \in {"none", "indexed"}
      /\ buffer = <<>>
  BY <1>1, EventsAssumption DEF SettledInv, OneByOne, Threads
<1>4. reported \in Seq(Event)
  BY DEF TypeOK
<1>5. n \in Nat /\ n > 0 /\ Len(reported') = n - 1 /\ \A k \in 1..(n - 1) : reported'[k] = reported[k + 1]
  BY <1>2, <1>4
<1>6. buffer' = <<e>> /\ e = reported[1]
  BY <1>2, <1>3, <1>4
<1>7. Len(buffer') = 1 /\ buffer'[1] = reported[1]
  BY <1>6
<1>8. Front' = buffer'
  BY <1>1 DEF Front
<1>9. OneByOne'
  BY <1>1, <1>2, <1>3, <1>7, <1>8 DEF OneByOne
<1>10. PICK D \in [0..n -> SUBSET Paths] : Chain(D) /\ D[0] = Indexed
  BY <1>1 DEF SettledInv, InOrder
<1> HIDE DEF n, e
<1> DEFINE E == [k \in 0..(n - 1) |-> D[k + 1]]
<1>11. E \in [0..(n - 1) -> SUBSET Paths] /\ E[0] = D[1] /\ E[n - 1] = D[n]
  BY <1>5
<1>12. \A k \in 1..(n - 1) : Does(E[k - 1], reported'[k], E[k])
  <2> SUFFICES ASSUME NEW k \in 1..(n - 1) PROVE Does(E[k - 1], reported'[k], E[k])
    OBVIOUS
  <2>1. k + 1 \in 1..n /\ (k + 1) - 1 = k
    BY <1>5
  <2>2. Does(D[(k + 1) - 1], reported[k + 1], D[k + 1])
    BY <1>10, <2>1 DEF Chain, n
  <2>3. E[k - 1] = D[k] /\ E[k] = D[k + 1] /\ reported'[k] = reported[k + 1]
    BY <1>5
  <2>4. QED
    BY <2>1, <2>2, <2>3
<1>13. E[Len(reported')] = disk' /\ \A k \in 1..Len(reported') : Does(E[k - 1], reported'[k], E[k])
  BY <1>2, <1>5, <1>10, <1>11, <1>12 DEF Chain, n
<1>14. Does(Indexed', Front'[1], E[0])
  <2>1. 1 \in 1..n /\ 1 - 1 = 0
    BY <1>5
  <2>2. Does(D[0], reported[1], D[1])
    BY <1>10, <2>1 DEF Chain, n
  <2>3. Indexed' = Indexed
    BY <1>2 DEF Indexed
  <2>4. QED
    BY <1>7, <1>8, <1>10, <1>11, <2>2, <2>3
<1> HIDE DEF E
<1>15. \E F \in [0..Len(reported') -> SUBSET Paths] :
          /\ F[Len(reported')] = disk' /\ \A k \in 1..Len(reported') : Does(F[k - 1], reported'[k], F[k])
          /\ Does(Indexed', Front'[1], F[0])
  BY <1>5, <1>11, <1>13, <1>14
<1>16. InOrder'
  BY <1>1, <1>15 DEF InOrder, Chain
<1>17. QED
  BY <1>9, <1>16 DEF SettledInv

\* The events that are yet to be dispatched do not change.
LEMMA SameChain ==
    ASSUME NEW D \in [0..Len(reported) -> SUBSET Paths], Chain(D), UNCHANGED <<disk, reported>>,
           IF agent'["dispatcher"].pc = "idle" THEN D[0] = Indexed' ELSE Does(Indexed', Front'[1], D[0])
    PROVE  InOrder'
<1>1. \E F \in [0..Len(reported') -> SUBSET Paths] :
         /\ F[Len(reported')] = disk' /\ \A k \in 1..Len(reported') : Does(F[k - 1], reported'[k], F[k])
         /\ IF agent'["dispatcher"].pc = "idle" THEN F[0] = Indexed' ELSE Does(Indexed', Front'[1], F[0])
  BY DEF Chain
<1>2. QED
  BY <1>1 DEF InOrder, Chain

LEMMA SettledTryNextBatch ==
    ASSUME TypeOK, SettledInv, NEW t \in Threads, TryNextBatch(t)
    PROVE  SettledInv'
<1>1. agent[t].pc = "try" /\ t = "dispatcher"
  BY TryNextBatchMoves DEF SettledInv, OneByOne, Threads
<1>2. Front = buffer /\ Len(buffer) = 1 /\ list = {} /\ buffer \in Seq(Event)
  BY <1>1 DEF SettledInv, OneByOne, Front, TypeOK
<1>3. buffer # <<>>
  BY <1>2
<1>4. /\ \A o \in Threads \ {t} : agent'[o] = agent[o]
      /\ agent'[t].pc = buffer[1].type
      /\ agent'[t].todo = SubSeq(buffer, 1, FrontRun)
      /\ buffer' = SubSeq(buffer, FrontRun + 1, Len(buffer))
      /\ UNCHANGED <<disk, row, reported, list>>
  BY <1>2, <1>3, TryNextBatchMoves
<1>5. FrontRun = 1
  <2>1. FrontRun \in 1..Len(buffer)
    BY <1>2, <1>3, FrontRunFacts
  <2>2. QED
    BY <1>2, <2>1
<1>6. Len(agent'[t].todo) = 1 /\ agent'[t].todo[1] = buffer[1] /\ buffer' = <<>>
  BY <1>2, <1>4, <1>5
<1>7. PICK D \in [0..Len(reported) -> SUBSET Paths] : Chain(D) /\ Does(Indexed, buffer[1], D[0])
  BY <1>1, <1>2 DEF SettledInv, InOrder
<1>8. buffer[1].type \in {"deleted", "moved"}
  BY <1>7 DEF Does
<1>9. Front' = agent'[t].todo
  BY <1>1, <1>4, <1>8 DEF Front
<1>10. OneByOne'
  <2>1. \A w \in Workers : agent'[w].pc = "idle"
    BY <1>1, <1>4, EventsAssumption DEF SettledInv, OneByOne, Threads
  <2>2. \A p \in Paths : row'[p] \in {"none", "indexed"}
    BY <1>4 DEF SettledInv, OneByOne
  <2>3. QED
    BY <1>1, <1>2, <1>4, <1>6, <1>8, <1>9, <2>1, <2>2 DEF OneByOne
<1>11. InOrder'
  <2>1. Indexed' = Indexed
    BY <1>4 DEF Indexed
  <2>2. Does(Indexed', Front'[1], D[0]) /\ agent'["dispatcher"].pc # "idle"
    BY <1>1, <1>4, <1>6, <1>7, <1>8, <1>9, <2>1
  <2>3. QED
    BY <1>4, <1>7, <2>2, SameChain
<1>12. QED
  BY <1>10, <1>11 DEF SettledInv

LEMMA SettledOnDeleted ==
    ASSUME TypeOK, SettledInv, NEW t \in Threads, OnDeleted(t)
    PROVE  SettledInv'
<1> DEFINE todo == agent[t].todo
<1>1. agent[t].pc = "deleted" /\ t = "dispatcher"
  BY OnDeletedMoves DEF SettledInv, OneByOne, Threads
<1>2. Front = todo /\ Len(todo) = 1 /\ todo[1].type = "deleted" /\ todo \in Seq(Event)
  BY <1>1, ThreadFacts DEF SettledInv, OneByOne, Front
<1>3. /\ agent'[t] = Idle
      /\ \A o \in Threads \ {t} : agent'[o] = agent[o]
      /\ \A p \in Paths : row'[p] = IF \E k \in DOMAIN todo : todo[k].src = p THEN "none" ELSE row[p]
      /\ UNCHANGED <<disk, reported, buffer, list>>
  BY OnDeletedMoves
<1>4. DOMAIN todo = {1}
  BY <1>2
<1>5. \A p \in Paths : row'[p] = IF p = todo[1].src THEN "none" ELSE row[p]
  BY <1>3, <1>4
<1>6. PICK D \in [0..Len(reported) -> SUBSET Paths] : Chain(D) /\ Does(Indexed, todo[1], D[0])
  BY <1>1, <1>2 DEF SettledInv, InOrder
<1> HIDE DEF todo
<1>7. agent'["dispatcher"].pc = "idle"
  BY <1>1, <1>3, Records
<1>8. OneByOne'
  <2>1. \A w \in Workers : agent'[w].pc = "idle"
    BY <1>1, <1>3, EventsAssumption DEF SettledInv, OneByOne, Threads
  <2>2. \A p \in Paths : row'[p] \in {"none", "indexed"}
    BY <1>5 DEF SettledInv, OneByOne
  <2>3. buffer = <<>> /\ list = {}
    BY <1>1 DEF SettledInv, OneByOne
  <2>4. QED
    BY <1>3, <1>7, <2>1, <2>2, <2>3 DEF OneByOne
<1>9. InOrder'
  <2>1. D[0] = Indexed \ {todo[1].src}
    BY <1>2, <1>6 DEF Does
  <2>2. Indexed' = Indexed \ {todo[1].src}
    BY <1>5 DEF Indexed
  <2>3. QED
    BY <1>3, <1>6, <1>7, <2>1, <2>2, SameChain
<1>10. QED
  BY <1>8, <1>9 DEF SettledInv

\* Of one event, Kept keeps all or nothing.
LEMMA KeptOne ==
    ASSUME NEW s \in Seq(Event), Len(s) = 1, NEW P
    PROVE  /\ Kept(s, P) \in Seq(Event)
           /\ s[1].src \in P => Len(Kept(s, P)) = 1 /\ Kept(s, P)[1] = s[1]
           /\ s[1].src \notin P => Kept(s, P) = <<>>
<1> DEFINE r == Kept(s, P)
<1>1. /\ r \in Seq(Event) /\ Len(r) <= 1
      /\ \A k \in DOMAIN r : \E j \in 1..1 : s[j] = r[k] /\ s[j].src \in P
      /\ \A j \in 1..1 : s[j].src \in P => \E k \in DOMAIN r : r[k] = s[j]
  BY KeptFacts DEF Keeps
<1> HIDE DEF r
<1>2. Len(r) \in Nat /\ DOMAIN r = 1..Len(r)
  BY <1>1
<1>3. s[1].src \in P => Len(r) = 1 /\ r[1] = s[1]
  BY <1>1, <1>2
<1>4. s[1].src \notin P => r = <<>>
  <2> SUFFICES ASSUME s[1].src \notin P PROVE r = <<>>
    OBVIOUS
  <2>1. DOMAIN r = {}
    BY <1>1
  <2>2. Len(r) = 0
    BY <1>2, <2>1
  <2>3. QED
    BY <1>1, <2>2
<1>5. QED
  BY <1>1, <1>3, <1>4 DEF r

LEMMA SettledOnMoved ==
    ASSUME TypeOK, SettledInv, NEW t \in Threads, OnMoved(t)
    PROVE  SettledInv'
<1> DEFINE todo == agent[t].todo
           e == todo[1]
           some == {p \in Paths : row[p] # "none"}
           none == {p \in Paths : row[p] = "none"}
<1>1. agent[t].pc = "moved" /\ t = "dispatcher"
  BY OnMovedMoves DEF SettledInv, OneByOne, Threads
<1>2. Front = todo /\ Len(todo) = 1 /\ e.type = "moved" /\ todo \in Seq(Event)
  BY <1>1, ThreadFacts DEF SettledInv, OneByOne, Front
<1>3. /\ \A o \in Threads \ {t} : agent'[o] = agent[o]
      /\ row' = Renamed(row, Kept(todo, some))
      /\ Kept(todo, none) = <<>> => agent'[t] = Idle
      /\ UNCHANGED <<disk, reported, buffer, list>>
  BY OnMovedMoves
<1>4. PICK D \in [0..Len(reported) -> SUBSET Paths] : Chain(D) /\ Does(Indexed, e, D[0])
  BY <1>1, <1>2 DEF SettledInv, InOrder
<1>5. e \in Event
  BY <1>2
<1>6. /\ e.src \in Paths /\ e.dest \in Paths /\ e.src # e.dest /\ row[e.src] = "indexed"
      /\ D[0] = (Indexed \ {e.src}) \cup {e.dest}
  BY <1>2, <1>4, <1>5 DEF Does, Event, Indexed
<1>7. e.src \in some /\ e.src \notin none
  BY <1>6
<1>8. Kept(todo, none) = <<>> /\ Len(Kept(todo, some)) = 1 /\ Kept(todo, some)[1] = e
      /\ Kept(todo, some) \in Seq(Event)
  <2> HIDE DEF some, none, todo
  <2>1. QED
    BY <1>2, <1>7, KeptOne
<1>9. row \in [Paths -> Statuses]
  BY DEF TypeOK, Statuses
<1>10. row' = RenameRow(row, e)
  BY <1>3, <1>8, <1>9, RenamedFacts
<1>11. agent'[t] = Idle
  BY <1>3, <1>8
<1> HIDE DEF todo, some, none, e
<1>12. \A p \in Paths : row'[p] = IF p = e.src THEN "none" ELSE IF p = e.dest THEN "indexed" ELSE row[p]
  BY <1>6, <1>9, <1>10 DEF RenameRow
<1>13. agent'["dispatcher"].pc = "idle"
  BY <1>1, <1>11, Records
<1>14. OneByOne'
  <2>1. \A w \in Workers : agent'[w].pc = "idle"
    BY <1>1, <1>3, EventsAssumption DEF SettledInv, OneByOne, Threads
  <2>2. \A p \in Paths : row'[p] \in {"none", "indexed"}
    BY <1>12 DEF SettledInv, OneByOne
  <2>3. buffer = <<>> /\ list = {}
    BY <1>1 DEF SettledInv, OneByOne
  <2>4. QED
    BY <1>3, <1>13, <2>1, <2>2, <2>3 DEF OneByOne
<1>15. InOrder'
  <2>1. Indexed' = (Indexed \ {e.src}) \cup {e.dest}
    BY <1>6, <1>12 DEF Indexed
  <2>2. QED
    BY <1>3, <1>4, <1>6, <1>13, <2>1, SameChain
<1>16. QED
  BY <1>14, <1>15 DEF SettledInv

\* A change of the file system makes the chain longer.
LEMMA SettledChange ==
    ASSUME TypeOK, SettledInv, NEW e \in Event, disk' \in SUBSET Paths, Does(disk, e, disk'),
           reported' = Append(reported, e), UNCHANGED <<row, buffer, agent, list>>
    PROVE  SettledInv'
<1> DEFINE n == Len(reported)
<1>1. reported \in Seq(Event)
  BY DEF TypeOK
<1>2. n \in Nat /\ Len(reported') = n + 1 /\ reported'[n + 1] = e /\ \A k \in 1..n : reported'[k] = reported[k]
  BY <1>1
<1>3. PICK D \in [0..n -> SUBSET Paths] :
          /\ Chain(D)
          /\ IF agent["dispatcher"].pc = "idle" THEN D[0] = Indexed ELSE Does(Indexed, Front[1], D[0])
  BY DEF SettledInv, InOrder
<1>4. D[n] = disk /\ \A k \in 1..n : Does(D[k - 1], reported[k], D[k])
  BY <1>3 DEF Chain
<1> HIDE DEF n
<1> DEFINE E == [k \in 0..(n + 1) |-> IF k = n + 1 THEN disk' ELSE D[k]]
<1>5. E \in [0..(n + 1) -> SUBSET Paths] /\ E[n + 1] = disk' /\ \A k \in 0..n : E[k] = D[k]
  BY <1>2
<1> HIDE DEF E
<1>6. \A k \in 1..(n + 1) : Does(E[k - 1], reported'[k], E[k])
  <2> SUFFICES ASSUME NEW k \in 1..(n + 1) PROVE Does(E[k - 1], reported'[k], E[k])
    OBVIOUS
  <2>1. CASE k = n + 1
    <3>1. k - 1 = n /\ n \in 0..n
      BY <1>2, <2>1
    <3>2. QED
      BY <1>2, <1>4, <1>5, <2>1, <3>1
  <2>2. CASE k \in 1..n
    <3>1. k - 1 \in 0..n /\ k \in 0..n
      BY <1>2, <2>2
    <3>2. QED
      BY <1>2, <1>4, <1>5, <2>2, <3>1
  <2>3. QED
    BY <1>2, <2>1, <2>2
<1>7. Indexed' = Indexed /\ Front' = Front /\ agent' = agent
  BY DEF Indexed, Front
<1>8. E[0] = D[0]
  BY <1>2, <1>5
<1>9. IF agent'["dispatcher"].pc = "idle" THEN E[0] = Indexed' ELSE Does(Indexed', Front'[1], E[0])
  BY <1>3, <1>7, <1>8
<1>10. \E F \in [0..Len(reported') -> SUBSET Paths] :
          /\ F[Len(reported')] = disk' /\ \A k \in 1..Len(reported') : Does(F[k - 1], reported'[k], F[k])
          /\ IF agent'["dispatcher"].pc = "idle" THEN F[0] = Indexed' ELSE Does(Indexed', Front'[1], F[0])
  BY <1>2, <1>5, <1>6, <1>9
<1>11. InOrder'
  BY <1>10 DEF InOrder, Chain
<1>12. OneByOne'
  BY <1>7 DEF SettledInv, OneByOne
<1>13. QED
  BY <1>11, <1>12 DEF SettledInv

LEMMA SettledDeleteFile ==
    ASSUME TypeOK, SettledInv, NEW p \in Paths, DeleteFile(p)
    PROVE  SettledInv'
<1> DEFINE e == [type |-> "deleted", src |-> p, dest |-> p]
<1>1. /\ p \in disk /\ disk' = disk \ {p} /\ reported' = Append(reported, e)
      /\ UNCHANGED <<row, buffer, agent, list>> /\ disk' \in SUBSET Paths
  BY DeleteFileMoves DEF TypeOK
<1>2. e \in Event /\ Does(disk, e, disk')
  BY <1>1 DEF Event, Does
<1> HIDE DEF e
<1>3. QED
  BY <1>1, <1>2, SettledChange

LEMMA SettledMoveFile ==
    ASSUME TypeOK, SettledInv, NEW p \in Paths, NEW q \in Paths, MoveFile(p, q)
    PROVE  SettledInv'
<1> DEFINE e == [type |-> "moved", src |-> p, dest |-> q]
<1>1. /\ p \in disk /\ p # q /\ disk' = (disk \ {p}) \cup {q} /\ reported' = Append(reported, e)
      /\ UNCHANGED <<row, buffer, agent, list>> /\ disk' \in SUBSET Paths
  BY MoveFileMoves DEF TypeOK
<1>2. e \in Event /\ Does(disk, e, disk')
  BY <1>1 DEF Event, Does
<1> HIDE DEF e
<1>3. QED
  BY <1>1, <1>2, SettledChange

LEMMA SettledStep ==
    ASSUME TypeOK, [Next]_vars, Settled, up => SettledInv
    PROVE  Settled' /\ (up' => SettledInv')
<1>1. Settled'
  BY NextKeeps DEF Settled, Ops, Images
<1> SUFFICES ASSUME up' PROVE SettledInv'
  BY <1>1
<1>2. SettledInv
  BY NextKeeps
<1>3. CASE Dispatch
  BY <1>2, <1>3, SettledDispatch
<1>4. ASSUME NEW t \in Threads, Handle(t) PROVE SettledInv'
  <2>1. agent[t].pc \notin {"created", "spawn"}
    BY <1>2 DEF SettledInv, OneByOne, Threads
  <2>2. ~OnCreated(t) /\ ~SpawnWorker(t)
    BY <2>1 DEF OnCreated, SpawnWorker
  <2>3. QED
    BY <1>2, <1>4, <2>2, SettledTryNextBatch, SettledOnDeleted, SettledOnMoved DEF Handle
<1>5. ASSUME NEW w \in Workers, Work(w) PROVE FALSE
  <2>1. agent[w].pc = "idle"
    BY <1>2 DEF SettledInv, OneByOne
  <2>2. QED
    BY <1>5, <2>1 DEF Work, WorkerFilter, WorkerInsert, WorkerIndex, WorkerFaults, WorkerLeave
<1>6. ASSUME NEW p \in Paths, CreateFile(p) \/ DeleteFile(p) PROVE SettledInv'
  BY <1>2, <1>6, SettledDeleteFile DEF CreateFile, Settled
<1>7. ASSUME NEW p \in Paths, NEW q \in Paths, MoveFile(p, q) PROVE SettledInv'
  BY <1>2, <1>7, SettledMoveFile
<1>8. CASE Deinit
  BY <1>8 DEF Deinit
<1>9. CASE ModelLoaded \/ UNCHANGED vars
  <2>1. UNCHANGED <<disk, row, reported, buffer, agent, list>>
    BY <1>9 DEF ModelLoaded, vars, world
  <2>2. OneByOne'
    BY <1>2, <2>1 DEF SettledInv, OneByOne, Front
  <2>3. InOrder'
    BY <1>2, <2>1 DEF SettledInv, InOrder, Chain, Front, Indexed
  <2>4. QED
    BY <2>2, <2>3 DEF SettledInv
<1>10. QED
  BY <1>3, <1>4, <1>5, <1>6, <1>7, <1>8, <1>9 DEF Next

\* With no event left, the chain is the table and the disk.
LEMMA SettledCaughtUp ==
    ASSUME TypeOK, Settled, up => SettledInv
    PROVE  CaughtUp
<1> SUFFICES ASSUME up, Quiet, NEW p \in Images
             PROVE  row[p] \in IF p \notin disk THEN {"none", "removed"}
                            ELSE {"indexed"} \cup (IF p \in left THEN {"pending", "removed"} ELSE {})
  BY DEF CaughtUp
<1>1. reported = <<>> /\ agent["dispatcher"].pc = "idle"
  BY DEF Quiet, Threads
<1>2. Len(reported) = 0
  BY <1>1
<1>3. disk = Indexed
  BY <1>1, <1>2 DEF SettledInv, InOrder, Chain
<1>4. p \in Paths
  BY EventsAssumption DEF TypeOK, Images
<1>5. QED
  BY <1>3, <1>4 DEF SettledInv, OneByOne, Indexed

-----------------------------------------------------------------------------
(* The table catches up. *)

\* In every scenario either no path is used twice and nothing is renamed, or
\* there are no new files and every file is an image.
FreshOrSettled ==
    \A s \in Scenarios : \/ s.ops \cap {"move", "recreate"} = {}
                         \/ "create" \notin s.ops /\ Paths \subseteq s.images

CaughtUpInv ==
    /\ TypeOK
    /\ Fresh \/ Settled
    /\ Fresh => (up => FreshInv)
    /\ Settled => (up => SettledInv)

\* Where paths are used once and not renamed, or files that are all indexed are
\* deleted and renamed, the table agrees with the disk whenever no event is left:
\* no interleaving of the dispatcher, the workers and the file system makes a
\* handler act on an event whose file is another one by then, and the renames
\* are handled in the order in which they happened.  A failing batch excuses only
\* files that exist: a path that is gone has no row that is indexed or pending.
THEOREM CaughtUpHolds ==
    FreshOrSettled => (Spec => []CaughtUp)
<1> SUFFICES ASSUME FreshOrSettled PROVE Spec => []CaughtUp
  OBVIOUS
<1>1. Init => CaughtUpInv
  <2>1. Init => Fresh \/ Settled
    BY DEF Init, FreshOrSettled, Fresh, Settled, Ops, Images
  <2>2. QED
    BY <2>1, InitTypes, FreshInit, SettledInit DEF CaughtUpInv
<1>2. CaughtUpInv /\ [Next]_vars => CaughtUpInv'
  <2> SUFFICES ASSUME CaughtUpInv, [Next]_vars PROVE CaughtUpInv'
    OBVIOUS
  <2>1. TypeOK /\ TypeOK'
    BY StepTypes DEF CaughtUpInv
  <2>2. (Fresh' <=> Fresh) /\ (Settled' <=> Settled)
    BY NextKeeps DEF Fresh, Settled, Ops, Images
  <2>3. Fresh => (up' => FreshInv')
    BY <2>1, FreshStep DEF CaughtUpInv
  <2>4. Settled => (up' => SettledInv')
    BY <2>1, SettledStep DEF CaughtUpInv
  <2>5. QED
    BY <2>1, <2>2, <2>3, <2>4 DEF CaughtUpInv
<1>3. CaughtUpInv => CaughtUp
  BY FreshCaughtUp, SettledCaughtUp DEF CaughtUpInv
<1>4. QED
  BY <1>1, <1>2, <1>3, PTL DEF Spec
=============================================================================
