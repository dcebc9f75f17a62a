------------------------- MODULE IndexWorkersProofs -------------------------
(***************************************************************************)
(* Proofs about IndexWorkers, for any number of folders, workers, threads  *)
(* and requests.  The inductive invariant is TypeOK together with the      *)
(* three invariants of the two lists, which need each other: a folder can  *)
(* be appended to one list only because it was looked up on both, and a    *)
(* thread that is taken for a new worker is on no list because every       *)
(* listed thread is live.                                                  *)
(* That no folder is stranded needs more: an account of who will look for  *)
(* the next folder to index (ChainInv, at the end).                        *)
(***************************************************************************)
EXTENDS IndexWorkers, TLAPS, FiniteSetTheorems, SequenceTheorems

\* The lists _index_workers and _pending_index_folders are in order.
ListInv == ListBound /\ OneWorkerPerFolder /\ QueueOK

\* The inductive invariant.
IInv == TypeOK /\ ListInv

-----------------------------------------------------------------------------
(* The pending list. *)

NoDup(q) == \A j, k \in 1..Len(q) : q[j] = q[k] => j = k

\* Dropping a folder from a list without duplicates removes it and nothing else
\* (line 170 of index_worker.py, where a started folder leaves the pending list).
LEMMA WithoutFacts ==
    ASSUME NEW q \in Seq(Ids), NEW i \in Ids, NoDup(q)
    PROVE  /\ Without(q, i) \in Seq(Ids)
           /\ NoDup(Without(q, i))
           /\ \A k \in 1..Len(Without(q, i)) :
                 Without(q, i)[k] # i /\ Waiting(q, Without(q, i)[k])
           /\ \A k \in 1..Len(q) : q[k] # i => Waiting(Without(q, i), q[k])
<1>1. CASE ~Waiting(q, i)
  <2>1. Without(q, i) = q
    BY <1>1 DEF Without
  <2>2. QED
    BY <1>1, <2>1 DEF NoDup, Waiting
<1>2. CASE Waiting(q, i)
  <2> DEFINE k0 == CHOOSE j \in 1..Len(q) : q[j] = i
             w == [j \in 1..(Len(q) - 1) |-> IF j < k0 THEN q[j] ELSE q[j + 1]]
  <2>1. k0 \in 1..Len(q) /\ q[k0] = i
    BY <1>2 DEF Waiting
  <2>2. Without(q, i) = w
    BY <1>2 DEF Without
  <2>3. Len(q) \in Nat /\ Len(q) - 1 \in Nat
    BY <2>1
  <2>4. w \in Seq(Ids) /\ Len(w) = Len(q) - 1
    <3> HIDE DEF k0
    <3>1. \A j \in 1..(Len(q) - 1) : w[j] \in Ids
      BY <2>1, <2>3
    <3>2. QED
      BY <2>3, <3>1
  <2> HIDE DEF k0
  <2>5. \A j \in 1..Len(w) : w[j] = IF j < k0 THEN q[j] ELSE q[j + 1]
    BY <2>4, <2>3
  <2> HIDE DEF w
  <2>6. NoDup(w)
    BY <2>1, <2>3, <2>4, <2>5 DEF NoDup
  <2>7. \A k \in 1..Len(w) : w[k] # i /\ Waiting(q, w[k])
    BY <2>1, <2>3, <2>4, <2>5 DEF NoDup, Waiting
  <2>8. \A k \in 1..Len(q) : q[k] # i => Waiting(w, q[k])
    <3>1. SUFFICES ASSUME NEW k \in 1..Len(q), q[k] # i
                   PROVE  \E j \in 1..Len(w) : w[j] = q[k]
      BY DEF Waiting
    <3>2. CASE k < k0
      BY <2>1, <2>3, <2>4, <2>5, <3>2
    <3>3. CASE k > k0
      <4>1. k - 1 \in 1..Len(w) /\ w[k - 1] = q[k]
        BY <2>1, <2>3, <2>4, <2>5, <3>3
      <4>2. QED
        BY <4>1
    <3>4. k # k0
      BY <2>1, <3>1
    <3>5. QED
      BY <2>1, <3>2, <3>3, <3>4
  <2>9. QED
    BY <2>2, <2>4, <2>6, <2>7, <2>8
<1>3. QED
  BY <1>1, <1>2

\* Appending a folder that is not on the list keeps the list free of duplicates
\* (line 174 of index_worker.py).
LEMMA AppendFacts ==
    ASSUME NEW q \in Seq(Ids), NEW i \in Ids, NoDup(q), ~Waiting(q, i)
    PROVE  /\ Append(q, i) \in Seq(Ids)
           /\ NoDup(Append(q, i))
           /\ \A k \in 1..Len(Append(q, i)) :
                 Append(q, i)[k] = i \/ Waiting(q, Append(q, i)[k])
           /\ \A k \in 1..Len(q) : Waiting(Append(q, i), q[k])
           /\ Waiting(Append(q, i), i)
  BY DEF NoDup, Waiting

\* The pending list after pop() (line 156 of index_worker.py).
LEMMA PopFacts ==
    ASSUME NEW q \in Seq(Ids), NoDup(q), q # <<>>
    PROVE  LET p == SubSeq(q, 1, Len(q) - 1) IN
           /\ q[Len(q)] \in Ids
           /\ p \in Seq(Ids)
           /\ NoDup(p)
           /\ \A k \in 1..Len(p) : p[k] = q[k] /\ k \in 1..Len(q)
           /\ ~Waiting(p, q[Len(q)])
           /\ \A k \in 1..Len(q) : q[k] = q[Len(q)] \/ Waiting(p, q[k])
<1> DEFINE p == SubSeq(q, 1, Len(q) - 1)
<1>1. Len(q) \in Nat /\ Len(q) >= 1 /\ 1 \in Int /\ Len(q) - 1 \in Int
  BY EmptySeq
<1>2. \A k \in 1..(Len(q) - 1) : q[k] \in Ids
  BY <1>1
<1>3. /\ p \in Seq(Ids)
      /\ Len(p) = Len(q) - 1
      /\ \A k \in 1..(Len(q) - 1) : p[k] = q[k]
  <2>1. \A k \in 1..((Len(q) - 1) - 1 + 1) : p[k] = q[1 + k - 1]
    BY <1>1, <1>2, SubSeqProperties
  <2>2. p \in Seq(Ids)
    BY <1>1, <1>2, SubSeqProperties, Zenon
  <2>3. Len(p) = IF 1 <= Len(q) - 1 THEN (Len(q) - 1) - 1 + 1 ELSE 0
    BY <1>1, <1>2, SubSeqProperties
  <2> HIDE DEF p
  <2>4. Len(p) = Len(q) - 1
    <3> DEFINE n == Len(q)
               m == Len(p)
    <3>1. n \in Nat /\ n >= 1
      BY <1>1
    <3>2. m = IF 1 <= n - 1 THEN (n - 1) - 1 + 1 ELSE 0
      BY <2>3
    <3> HIDE DEF n, m
    <3>3. m = n - 1
      BY <3>1, <3>2
    <3>4. QED
      BY <3>3 DEF n, m
  <2>5. ASSUME NEW k \in 1..(Len(q) - 1) PROVE p[k] = q[k]
    <3>1. k \in 1..((Len(q) - 1) - 1 + 1) /\ 1 + k - 1 = k
      BY <1>1
    <3>2. p[k] = q[1 + k - 1]
      BY <2>1, <3>1
    <3>3. QED
      BY <3>1, <3>2
  <2>6. QED
    BY <2>2, <2>4, <2>5
<1> HIDE DEF p
<1>4. NoDup(p) /\ ~Waiting(p, q[Len(q)])
  BY <1>1, <1>3 DEF NoDup, Waiting
<1>5. \A k \in 1..Len(q) : q[k] = q[Len(q)] \/ Waiting(p, q[k])
  BY <1>1, <1>3 DEF Waiting
<1>6. q[Len(q)] \in Ids
  BY <1>1
<1>7. QED
  BY <1>1, <1>3, <1>4, <1>5, <1>6 DEF p

-----------------------------------------------------------------------------
(* The lists under the operations of the scheduler. *)

\* A step that starts no worker and queues no folder keeps both lists in order:
\* a worker may leave the list, and the pending list may be cleared.
LEMMA Shrink ==
    ASSUME TypeOK, ListInv,
           workers' \subseteq workers,
           pending' \in {pending, <<>>},
           \A t \in workers' : /\ thread'[t].folder = thread[t].folder
                              /\ thread'[t].pc # "idle"
    PROVE  ListInv'
<1>1. IsFiniteSet(workers)
  BY ThreadsAssumption, FS_Subset DEF TypeOK
<1>2. ListBound'
  <2>1. Cardinality(workers') <= Cardinality(workers)
    BY <1>1, FS_Subset
  <2>2. Cardinality(workers) \in Nat /\ Cardinality(workers') \in Nat
    BY <1>1, FS_Subset, FS_CardinalityType
  <2>3. QED
    BY <2>1, <2>2, BoundsAssumption DEF ListInv, ListBound
<1>3. OneWorkerPerFolder'
  BY DEF ListInv, OneWorkerPerFolder, Live
<1>4. QueueOK'
  <2>1. CASE pending' = pending
    BY <2>1 DEF ListInv, QueueOK, Listed
  <2>2. CASE pending' = <<>>
    BY <2>2 DEF QueueOK
  <2>3. QED
    BY <2>1, <2>2
<1>5. QED
  BY <1>2, <1>3, <1>4 DEF ListInv

\* add_index_worker keeps the lists in order and the types right, given a list q
\* of waiting folders which have no worker.
LEMMA AddFolderInv ==
    ASSUME TypeOK, ListBound, OneWorkerPerFolder,
           NEW q \in Seq(Ids), NEW i \in Ids,
           NoDup(q),
           \A k \in 1..Len(q) : ~Listed(q[k]),
           AddFolder(i, q)
    PROVE  /\ workers' \subseteq Threads
           /\ pending' \in Seq(Ids)
           /\ thread' \in [Threads -> [pc : WorkerPC, folder : Ids,
                                      stopped : BOOLEAN, issues : BOOLEAN]]
           /\ ListInv'
<1>1. CASE Listed(i) /\ pending' = q /\ UNCHANGED <<workers, thread>>
  <2>1. QueueOK'
    BY <1>1 DEF QueueOK, NoDup, Listed
  <2>2. QED
    BY <1>1, <2>1 DEF TypeOK, ListInv, ListBound, OneWorkerPerFolder, Live
<1>2. ASSUME ~Listed(i), Cardinality(workers) < MaxWorkers,
             NEW t \in Threads, ~Live(t),
             thread' = [thread EXCEPT ![t] = [NoThread EXCEPT !.pc = "start", !.folder = i]],
             workers' = workers \cup {t},
             pending' = Without(q, i)
      PROVE  /\ workers' \subseteq Threads
             /\ pending' \in Seq(Ids)
             /\ thread' \in [Threads -> [pc : WorkerPC, folder : Ids,
                                        stopped : BOOLEAN, issues : BOOLEAN]]
             /\ ListInv'
  <2>1. /\ workers' \subseteq Threads
        /\ thread' \in [Threads -> [pc : WorkerPC, folder : Ids,
                                   stopped : BOOLEAN, issues : BOOLEAN]]
    BY <1>2 DEF TypeOK, NoThread, WorkerPC
  <2>2. /\ t \notin workers
        /\ thread'[t].folder = i /\ thread'[t].pc = "start"
        /\ \A u \in workers : thread'[u] = thread[u]
    BY <1>2 DEF TypeOK, OneWorkerPerFolder, NoThread
  <2>3. ListBound'
    <3>1. IsFiniteSet(workers)
      BY ThreadsAssumption, FS_Subset DEF TypeOK
    <3>2. Cardinality(workers') = Cardinality(workers) + 1
      BY <1>2, <2>2, <3>1, FS_AddElement
    <3>3. Cardinality(workers) \in Nat
      BY <3>1, FS_CardinalityType
    <3>4. QED
      BY <1>2, <3>2, <3>3, BoundsAssumption DEF ListBound
  <2>4. OneWorkerPerFolder'
    BY <1>2, <2>2 DEF OneWorkerPerFolder, Live, Listed
  <2>5. QueueOK'
    <3>1. NoDup(pending')
      BY <1>2, WithoutFacts
    <3>2. ASSUME NEW k \in 1..Len(pending')
          PROVE  ~Listed(pending[k])'
      <4>1. pending'[k] # i /\ Waiting(q, pending'[k])
        BY <1>2, <3>2, WithoutFacts
      <4>2. \A u \in workers : thread[u].folder # pending'[k]
        BY <4>1 DEF Waiting, Listed
      <4>3. QED
        BY <1>2, <2>2, <4>1, <4>2 DEF Listed
    <3>3. QED
      BY <3>1, <3>2 DEF QueueOK, NoDup
  <2>6. pending' \in Seq(Ids)
    BY <1>2, WithoutFacts
  <2>7. QED
    BY <2>1, <2>3, <2>4, <2>5, <2>6 DEF ListInv
<1>3. CASE /\ ~Listed(i)
           /\ pending' = IF Waiting(q, i) THEN q ELSE Append(q, i)
           /\ UNCHANGED <<workers, thread>>
  <2>1. /\ pending' \in Seq(Ids)
        /\ NoDup(pending')
        /\ \A k \in 1..Len(pending') : pending'[k] = i \/ Waiting(q, pending'[k])
    <3>1. CASE Waiting(q, i)
      BY <1>3, <3>1 DEF Waiting
    <3>2. CASE ~Waiting(q, i)
      BY <1>3, <3>2, AppendFacts
    <3>3. QED
      BY <3>1, <3>2
  <2>2. ASSUME NEW k \in 1..Len(pending')
        PROVE  ~Listed(pending[k])'
    BY <1>3, <2>1, <2>2 DEF Listed, Waiting
  <2>3. QueueOK'
    BY <2>1, <2>2 DEF QueueOK, NoDup
  <2>4. QED
    BY <1>3, <2>1, <2>3 DEF TypeOK, ListInv, ListBound, OneWorkerPerFolder, Live
<1>4. QED
  BY <1>1, <1>2, <1>3 DEF AddFolder

-----------------------------------------------------------------------------
(* Every step preserves the inductive invariant. *)

ThreadType == [Threads -> [pc : WorkerPC, folder : Ids, stopped : BOOLEAN, issues : BOOLEAN]]
ResumeRecord == [pc : ResumePC, todo : SUBSET Ids, init : BOOLEAN]
ResumerType == [Resumers -> [pc : ResumePC, todo : SUBSET Ids, init : BOOLEAN]]

\* A status column that is written by id keeps its type.
LEMMA SetStatusType ==
    ASSUME TypeOK, NEW i \in Ids, NEW s \in Statuses
    PROVE  SetStatus(i, s) \in [Ids -> Statuses \cup {NoRow}]
  BY DEF TypeOK, SetStatus

\* A resume thread that starts has the type of resume threads.
LEMMA StartResumeType ==
    ASSUME TypeOK, NEW init \in BOOLEAN, StartResume(init)
    PROVE  resumer' \in ResumerType
<1>1. PICK r \in Resumers :
          resumer' = [resumer EXCEPT ![r] = [pc |-> "read", todo |-> {}, init |-> init]]
  BY DEF StartResume
<1>2. [pc |-> "read", todo |-> {}, init |-> init]
          \in [pc : ResumePC, todo : SUBSET Ids, init : BOOLEAN]
  BY DEF ResumePC
<1>3. resumer \in ResumerType
  BY DEF TypeOK, ResumerType
<1>4. QED
  BY <1>1, <1>2, <1>3 DEF ResumerType

\* A step of a worker before it ends moves its thread and nothing else of the
\* scheduler.
LEMMA WorkerMoves ==
    ASSUME TypeOK, ListInv, NEW t \in Threads,
           UNCHANGED <<workers, pending>>,
           thread' \in ThreadType,
           thread'[t].pc # "idle",
           thread'[t].folder = thread[t].folder,
           \A u \in Threads : u # t => thread'[u] = thread[u]
    PROVE  ListInv'
<1>1. \A u \in workers' : thread'[u].folder = thread[u].folder /\ thread'[u].pc # "idle"
  BY DEF TypeOK, ListInv, OneWorkerPerFolder, Live
<1>2. QED
  BY <1>1, Shrink

\* IndexWorker._run_impl.
LEMMA WorkerStepInv ==
    ASSUME IInv, NEW t \in Threads, WorkerStep(t)
    PROVE  IInv'
<1>0. TypeOK /\ ListInv
  BY DEF IInv
<1>1. ASSUME NEW pc \in WorkerPC, NEW bad \in BOOLEAN,
             thread' = [thread EXCEPT ![t].pc = pc]
             \/ thread' = [thread EXCEPT ![t].pc = pc, ![t].issues = bad],
             pc # "idle",
             UNCHANGED <<workers, pending>>
      PROVE  thread' \in ThreadType /\ ListInv'
  <2>1. thread' \in ThreadType
    <3>1. thread \in ThreadType
      BY <1>0 DEF TypeOK, ThreadType
    <3>2. CASE thread' = [thread EXCEPT ![t].pc = pc]
      BY <1>1, <3>1, <3>2 DEF ThreadType
    <3>3. CASE thread' = [thread EXCEPT ![t].pc = pc, ![t].issues = bad]
      BY <1>1, <3>1, <3>3 DEF ThreadType
    <3>4. QED
      BY <1>1, <3>2, <3>3
  <2>2. /\ thread'[t].pc # "idle"
        /\ thread'[t].folder = thread[t].folder
        /\ \A u \in Threads : u # t => thread'[u] = thread[u]
    BY <1>0, <1>1 DEF TypeOK
  <2>3. QED
    BY <1>0, <1>1, <2>1, <2>2, WorkerMoves
<1>2. CASE WorkerStart(t)
  <2>1. thread' \in ThreadType /\ ListInv'
    BY <1>1, <1>2 DEF WorkerStart, To, WorkerPC
  <2>2. status' \in [Ids -> Statuses \cup {NoRow}]
    <3>1. thread[t].folder \in Ids /\ 0 \in Statuses
      BY <1>0 DEF TypeOK, Statuses
    <3>2. QED
      BY <1>0, <1>2, <3>1, SetStatusType DEF WorkerStart
  <2>3. QED
    BY <1>0, <1>2, <2>1, <2>2 DEF WorkerStart, IInv, TypeOK, ThreadType, env
<1>3. CASE WorkerEntry(t)
  <2>1. thread' \in ThreadType /\ ListInv'
    BY <1>1, <1>3 DEF WorkerEntry, To, WorkerPC
  <2>2. QED
    BY <1>0, <1>3, <2>1 DEF WorkerEntry, IInv, TypeOK, ThreadType, env, db
<1>4. CASE WorkerInsert(t)
  <2>1. thread' \in ThreadType /\ ListInv'
    BY <1>1, <1>4 DEF WorkerInsert, To, WorkerPC
  <2>2. backlog' \in [Ids -> 0..MaxBacklog]
    BY <1>0, <1>4, BoundsAssumption DEF WorkerInsert, TypeOK
  <2>3. QED
    BY <1>0, <1>4, <2>1, <2>2 DEF WorkerInsert, IInv, TypeOK, ThreadType, env
<1>5. CASE WorkerTraversed(t)
  <2>1. thread' \in ThreadType /\ ListInv'
    BY <1>1, <1>5 DEF WorkerTraversed, To, WorkerPC
  <2>2. status' \in [Ids -> Statuses \cup {NoRow}]
    <3>1. thread[t].folder \in Ids /\ 1 \in Statuses
      BY <1>0 DEF TypeOK, Statuses
    <3>2. status' = status \/ status' = SetStatus(thread[t].folder, 1)
      BY <1>5 DEF WorkerTraversed
    <3>3. QED
      BY <1>0, <3>1, <3>2, SetStatusType DEF TypeOK
  <2>3. QED
    BY <1>0, <1>5, <2>1, <2>2 DEF WorkerTraversed, IInv, TypeOK, ThreadType, env
<1>6. CASE WorkerBuild(t)
  <2>1. thread' \in ThreadType /\ ListInv'
    BY <1>1, <1>6 DEF WorkerBuild, To, WorkerPC
  <2>2. QED
    BY <1>0, <1>6, <2>1 DEF WorkerBuild, IInv, TypeOK, ThreadType, env, db
<1>7. CASE WorkerBatch(t)
  <2>1. thread' \in ThreadType /\ ListInv'
    BY <1>1, <1>7 DEF WorkerBatch, To, WorkerPC
  <2>2. backlog' \in [Ids -> 0..MaxBacklog]
    <3>1. /\ backlog \in [Ids -> 0..MaxBacklog]
          /\ thread[t].folder \in Ids
          /\ backlog[thread[t].folder] \in 0..MaxBacklog
      BY <1>0 DEF TypeOK
    <3>2. CASE backlog[thread[t].folder] = 0
      BY <1>7, <3>1, <3>2 DEF WorkerBatch
    <3>3. CASE backlog[thread[t].folder] # 0
      <4>1. backlog[thread[t].folder] - 1 \in 0..MaxBacklog
        BY <3>1, <3>3, BoundsAssumption
      <4>2. backlog' = [backlog EXCEPT ![thread[t].folder] = backlog[thread[t].folder] - 1]
        BY <1>7, <3>3 DEF WorkerBatch
      <4>3. QED
        BY <3>1, <4>1, <4>2
    <3>4. QED
      BY <3>2, <3>3
  <2>3. QED
    BY <1>0, <1>7, <2>1, <2>2 DEF WorkerBatch, IInv, TypeOK, ThreadType, env
<1>8. CASE WorkerBatchFails(t)
  <2>1. thread' \in ThreadType /\ ListInv'
    BY <1>1, <1>8 DEF WorkerBatchFails, To, WorkerPC
  <2>2. QED
    BY <1>0, <1>8, <2>1 DEF WorkerBatchFails, IInv, TypeOK, ThreadType, env, db
<1>9. CASE WorkerRaise(t)
  <2>1. thread' \in ThreadType /\ ListInv'
    BY <1>1, <1>9 DEF WorkerRaise, To, WorkerPC
  <2>2. QED
    BY <1>0, <1>9, <2>1 DEF WorkerRaise, IInv, TypeOK, ThreadType, env, db
<1>10. CASE WorkerReport(t)
  <2>1. thread' \in ThreadType /\ ListInv'
    BY <1>1, <1>10 DEF WorkerReport, To, WorkerPC
  <2>2. status' \in [Ids -> Statuses \cup {NoRow}]
    <3>1. thread[t].folder \in Ids /\ 2 \in Statuses /\ 3 \in Statuses
      BY <1>0 DEF TypeOK, Statuses
    <3>2. \E s \in Statuses : status' = SetStatus(thread[t].folder, s)
      BY <1>10, <3>1 DEF WorkerReport
    <3>3. QED
      BY <1>0, <3>1, <3>2, SetStatusType
  <2>3. QED
    BY <1>0, <1>10, <2>1, <2>2 DEF WorkerReport, IInv, TypeOK, ThreadType, env
<1>11. CASE WorkerFinish(t)
  <2>1. thread' \in ThreadType
    BY <1>0, <1>11, BoundsAssumption DEF WorkerFinish, TypeOK, ThreadType, NoThread, WorkerPC, Ids
  <2>2. resumer' \in ResumerType
    BY <1>0, <1>11, StartResumeType DEF WorkerFinish, TypeOK, ResumerType
  <2>3. \A u \in workers' : thread'[u].folder = thread[u].folder /\ thread'[u].pc # "idle"
    BY <1>0, <1>11 DEF WorkerFinish, TypeOK, ListInv, OneWorkerPerFolder, Live
  <2>4. ListInv'
    BY <1>0, <1>11, <2>3, Shrink DEF WorkerFinish
  <2>5. QED
    BY <1>0, <1>11, <2>1, <2>2, <2>4 DEF WorkerFinish, IInv, TypeOK, ThreadType, ResumerType, env, db
<1>12. QED
  BY <1>2, <1>3, <1>4, <1>5, <1>6, <1>7, <1>8, <1>9, <1>10, <1>11 DEF WorkerStep

\* resume_logic.
LEMMA ResumeStepInv ==
    ASSUME IInv, NEW r \in Resumers, ResumeStep(r)
    PROVE  IInv'
<1>0. /\ TypeOK /\ ListInv /\ resumer \in ResumerType
      /\ NoResume \in [pc : ResumePC, todo : SUBSET Ids, init : BOOLEAN]
  BY DEF IInv, TypeOK, ResumerType, NoResume, ResumePC
<1>1. NoDup(pending) /\ \A k \in 1..Len(pending) : ~Listed(pending[k])
  BY <1>0 DEF ListInv, QueueOK, NoDup
<1>2. CASE ResumeRead(r)
  <2> DEFINE found == {i \in Ids : /\ status[i] \in (IF resumer[r].init THEN Statuses ELSE {0, 1})
                                   /\ pathOf[i] \in onDisk}
  <2>1. \E pc \in ResumePC :
           resumer' = [resumer EXCEPT ![r].pc = pc, ![r].todo = found]
    BY <1>2 DEF ResumeRead, ResumePC
  <2>2. found \in SUBSET Ids
    OBVIOUS
  <2> HIDE DEF found
  <2>3. resumer' \in ResumerType
    <3>1. PICK pc \in ResumePC :
             resumer' = [resumer EXCEPT ![r].pc = pc, ![r].todo = found]
      BY <2>1
    <3>2. resumer' = [resumer EXCEPT ![r] = [resumer[r] EXCEPT !.pc = pc, !.todo = found]]
      BY <1>0, <3>1 DEF ResumerType
    <3>3. [resumer[r] EXCEPT !.pc = pc, !.todo = found] \in ResumeRecord
      BY <1>0, <2>2 DEF ResumerType, ResumeRecord
    <3>4. QED
      BY <1>0, <3>2, <3>3 DEF ResumerType, ResumeRecord
  <2>4. ListInv'
    BY <1>0, <1>2, Shrink DEF ResumeRead, ListInv, OneWorkerPerFolder, Live
  <2>5. QED
    BY <1>0, <1>2, <2>3, <2>4 DEF ResumeRead, IInv, TypeOK, ResumerType, env, db
<1>3. CASE ResumeAdd(r)
  <2>1. PICK i \in resumer[r].todo :
           /\ \/ AddFolder(i, pending)
              \/ UNCHANGED <<workers, pending, thread>>
           /\ resumer' = [resumer EXCEPT ![r] =
                            IF resumer[r].todo = {i} THEN NoResume
                            ELSE [resumer[r] EXCEPT !.todo = @ \ {i}]]
    BY <1>3 DEF ResumeAdd
  <2>2. i \in Ids
    BY <1>0, <2>1 DEF ResumerType
  <2>3. resumer' \in ResumerType
    <3>1. [resumer[r] EXCEPT !.todo = @ \ {i}] \in ResumeRecord
      BY <1>0 DEF ResumerType, ResumeRecord
    <3>2. \E v \in ResumeRecord : resumer' = [resumer EXCEPT ![r] = v]
      <4> DEFINE v == IF resumer[r].todo = {i} THEN NoResume
                      ELSE [resumer[r] EXCEPT !.todo = @ \ {i}]
      <4>1. resumer' = [resumer EXCEPT ![r] = v]
        BY <2>1
      <4>2. v \in ResumeRecord
        BY <1>0, <3>1 DEF ResumeRecord
      <4> HIDE DEF v
      <4>3. QED
        BY <4>1, <4>2
    <3>3. QED
      BY <1>0, <3>2 DEF ResumerType, ResumeRecord
  <2>4. /\ workers' \subseteq Threads
        /\ pending' \in Seq(Ids)
        /\ thread' \in [Threads -> [pc : WorkerPC, folder : Ids,
                                   stopped : BOOLEAN, issues : BOOLEAN]]
        /\ ListInv'
    <3>1. CASE AddFolder(i, pending)
      BY <1>0, <1>1, <2>2, <3>1, AddFolderInv DEF TypeOK, ListInv
    <3>2. CASE UNCHANGED <<workers, pending, thread>>
      BY <1>0, <3>2 DEF TypeOK, ListInv, ListBound, OneWorkerPerFolder, QueueOK, Live, Listed
    <3>3. QED
      BY <2>1, <3>1, <3>2
  <2>5. QED
    BY <1>0, <1>3, <2>3, <2>4 DEF ResumeAdd, IInv, TypeOK, ResumerType, env, db
<1>4. CASE ResumePop(r)
  <2>1. resumer' \in ResumerType
    BY <1>0, <1>4 DEF ResumePop, ResumerType
  <2>2. /\ workers' \subseteq Threads
        /\ pending' \in Seq(Ids)
        /\ thread' \in [Threads -> [pc : WorkerPC, folder : Ids,
                                   stopped : BOOLEAN, issues : BOOLEAN]]
        /\ ListInv'
    <3>1. CASE pending = <<>>
      BY <1>0, <1>4, <3>1
         DEF ResumePop, TypeOK, ListInv, ListBound, OneWorkerPerFolder, QueueOK, Live, Listed
    <3>2. CASE pending # <<>>
      <4> DEFINE q == SubSeq(pending, 1, Len(pending) - 1)
                 i == pending[Len(pending)]
      <4>1. pending \in Seq(Ids)
        BY <1>0 DEF TypeOK
      <4>2. /\ i \in Ids /\ q \in Seq(Ids) /\ NoDup(q)
            /\ \A k \in 1..Len(q) : q[k] = pending[k] /\ k \in 1..Len(pending)
        BY <1>1, <3>2, <4>1, PopFacts
      <4>3. AddFolder(i, q)
        BY <1>4, <3>2 DEF ResumePop
      <4> HIDE DEF q, i
      <4>4. \A k \in 1..Len(q) : ~Listed(q[k])
        BY <1>1, <4>2
      <4>5. QED
        BY <1>0, <4>2, <4>3, <4>4, AddFolderInv DEF ListInv
    <3>3. QED
      BY <3>1, <3>2
  <2>3. QED
    BY <1>0, <1>4, <2>1, <2>2 DEF ResumePop, IInv, TypeOK, ResumerType, env, db
<1>5. QED
  BY <1>2, <1>3, <1>4 DEF ResumeStep

\* Users and the file system.
LEMMA RequestInv ==
    ASSUME IInv,
           \/ \E p \in Paths : RegisterFolder(p) \/ Vanish(p) \/ FsFolderDeleted(p)
           \/ \E i \in Ids : \/ UserAdd(i)
                             \/ ReindexRequest(i) \/ ReindexReset(i)
                             \/ RemoveRequest(i) \/ RemoveDelete(i)
    PROVE  IInv'
<1>0. TypeOK /\ ListInv
  BY DEF IInv
<1>1. ASSUME NEW p \in Paths, DeleteRows(p)
      PROVE  /\ status' \in [Ids -> Statuses \cup {NoRow}]
             /\ backlog' \in [Ids -> 0..MaxBacklog]
  BY <1>0, <1>1, BoundsAssumption DEF DeleteRows, TypeOK
<1>2. ASSUME UNCHANGED <<workers, pending, thread>>
      PROVE  ListInv'
  BY <1>0, <1>2 DEF ListInv, ListBound, OneWorkerPerFolder, QueueOK, Live, Listed
<1>3. ASSUME NEW p \in Paths, RegisterFolder(p)
      PROVE  IInv'
  <2>1. nextId \in Ids /\ nextId + 1 \in 1..(MaxId + 1)
    BY <1>0, <1>3, BoundsAssumption DEF RegisterFolder, TypeOK, Ids
  <2>2. /\ status' \in [Ids -> Statuses \cup {NoRow}]
        /\ pathOf' \in [Ids -> Paths]
        /\ nextId' \in 1..(MaxId + 1)
        /\ calls' \subseteq [op : CallOps, id : Ids]
    BY <1>0, <1>3, <2>1 DEF RegisterFolder, TypeOK, Statuses, Call, CallOps
  <2>3. ListInv'
    BY <1>2, <1>3 DEF RegisterFolder, sched
  <2>4. QED
    BY <1>0, <1>3, <2>2, <2>3 DEF RegisterFolder, IInv, TypeOK, sched, env
<1>4. ASSUME NEW p \in Paths, Vanish(p)
      PROVE  IInv'
  <2>1. ListInv'
    BY <1>2, <1>4 DEF Vanish, sched
  <2>2. QED
    BY <1>0, <1>4, <2>1 DEF Vanish, IInv, TypeOK, sched, db
<1>5. ASSUME NEW p \in Paths, FsFolderDeleted(p)
      PROVE  IInv'
  <2>1. ListInv'
    BY <1>2, <1>5 DEF FsFolderDeleted, sched
  <2>2. QED
    BY <1>0, <1>1, <1>5, <2>1 DEF FsFolderDeleted, DeleteRows, IInv, TypeOK, sched, env
<1>6. ASSUME NEW i \in Ids, UserAdd(i)
      PROVE  IInv'
  <2>1. NoDup(pending) /\ \A k \in 1..Len(pending) : ~Listed(pending[k])
    BY <1>0 DEF ListInv, QueueOK, NoDup
  <2>2. /\ workers' \subseteq Threads
        /\ pending' \in Seq(Ids)
        /\ thread' \in [Threads -> [pc : WorkerPC, folder : Ids,
                                   stopped : BOOLEAN, issues : BOOLEAN]]
        /\ ListInv'
    BY <1>0, <1>6, <2>1, AddFolderInv DEF UserAdd, TypeOK, ListInv
  <2>3. QED
    BY <1>0, <1>6, <2>2 DEF UserAdd, IInv, TypeOK, db, env
<1>7. ASSUME NEW i \in Ids, ReindexRequest(i)
      PROVE  IInv'
  <2>1. ListInv'
    BY <1>2, <1>7 DEF ReindexRequest, sched
  <2>2. QED
    BY <1>0, <1>7, <2>1 DEF ReindexRequest, IInv, TypeOK, Call, CallOps, sched, db, env
<1>8. ASSUME NEW i \in Ids, ReindexReset(i)
      PROVE  IInv'
  <2>1. ListInv'
    BY <1>2, <1>8 DEF ReindexReset, sched
  <2>2. status' \in [Ids -> Statuses \cup {NoRow}]
    BY <1>0, <1>8, SetStatusType DEF ReindexReset, Statuses
  <2>3. QED
    BY <1>0, <1>8, <2>1, <2>2 DEF ReindexReset, IInv, TypeOK, Call, CallOps, sched, env
<1>9. ASSUME NEW i \in Ids, RemoveRequest(i)
      PROVE  IInv'
  <2>1. /\ workers' \subseteq workers
        /\ \/ thread' = thread
           \/ \E t \in Threads : thread' = [thread EXCEPT ![t].stopped = TRUE]
    BY <1>0, <1>9 DEF RemoveRequest, TypeOK
  <2>2. /\ thread' \in ThreadType
        /\ \A u \in Threads : /\ thread'[u].folder = thread[u].folder
                              /\ thread'[u].pc = thread[u].pc
    <3>1. thread \in ThreadType
      BY <1>0 DEF TypeOK, ThreadType
    <3>2. CASE thread' = thread
      BY <3>1, <3>2
    <3>3. ASSUME NEW t \in Threads, thread' = [thread EXCEPT ![t].stopped = TRUE]
          PROVE  /\ thread' \in ThreadType
                 /\ \A u \in Threads : /\ thread'[u].folder = thread[u].folder
                                       /\ thread'[u].pc = thread[u].pc
      BY <3>1, <3>3 DEF ThreadType
    <3>4. QED
      BY <2>1, <3>2, <3>3
  <2>3. ListInv'
    <3>1. \A u \in workers' : thread'[u].folder = thread[u].folder /\ thread'[u].pc # "idle"
      BY <1>0, <2>1, <2>2 DEF TypeOK, ListInv, OneWorkerPerFolder, Live
    <3>2. pending' = pending
      BY <1>9 DEF RemoveRequest
    <3>3. QED
      BY <1>0, <2>1, <3>1, <3>2, Shrink
  <2>4. QED
    BY <1>0, <1>9, <2>1, <2>2, <2>3
       DEF RemoveRequest, IInv, TypeOK, ThreadType, Call, CallOps, db, env
<1>10. ASSUME NEW i \in Ids, RemoveDelete(i)
      PROVE  IInv'
  <2>1. ListInv'
    BY <1>2, <1>10 DEF RemoveDelete, sched
  <2>2. pathOf[i] \in Paths
    BY <1>0 DEF TypeOK
  <2>3. QED
    BY <1>0, <1>1, <1>10, <2>1, <2>2 DEF RemoveDelete, DeleteRows, IInv, TypeOK, sched, env
<1>11. QED
  BY <1>3, <1>4, <1>5, <1>6, <1>7, <1>8, <1>9, <1>10

\* The model, deinit and the restart of the process.
LEMMA EnvironmentInv ==
    ASSUME IInv, ModelLoaded \/ ModelFailed \/ Deinit \/ Restart
    PROVE  IInv'
<1>0. TypeOK /\ ListInv
  BY DEF IInv
<1>1. CASE ModelLoaded
  <2>1. ListInv'
    BY <1>0, <1>1
       DEF ModelLoaded, sched, ListInv, ListBound, OneWorkerPerFolder, QueueOK, Live, Listed
  <2>2. QED
    BY <1>0, <1>1, <2>1 DEF ModelLoaded, IInv, TypeOK, db, sched
<1>2. ASSUME workers' \subseteq workers,
             pending' \in {pending, <<>>},
             thread' = [t \in Threads |-> [thread[t] EXCEPT !.stopped = @ \/ t \in workers]]
      PROVE  thread' \in ThreadType /\ ListInv'
  <2>1. \A t \in Threads : (thread[t].stopped \/ t \in workers) \in BOOLEAN
    OBVIOUS
  <2>2. thread' \in ThreadType
    BY <1>0, <1>2, <2>1 DEF TypeOK, ThreadType
  <2>3. \A t \in workers' : thread'[t].folder = thread[t].folder /\ thread'[t].pc # "idle"
    BY <1>0, <1>2 DEF TypeOK, ListInv, OneWorkerPerFolder, Live
  <2>4. QED
    BY <1>0, <1>2, <2>2, <2>3, Shrink
<1>3. CASE ModelFailed
  <2>1. preload' \in {"running", "failing", "gave_up", "ready"}
    BY <1>3 DEF ModelFailed
  <2>2. CASE up
    <3>1. thread' \in ThreadType /\ ListInv' /\ pending' = <<>>
      BY <1>2, <1>3, <2>2 DEF ModelFailed
    <3>2. QED
      BY <1>0, <1>3, <2>1, <3>1 DEF ModelFailed, IInv, TypeOK, ThreadType, db
  <2>3. CASE ~up
    <3>1. ListInv'
      BY <1>0, <1>3, <2>3
         DEF ModelFailed, ListInv, ListBound, OneWorkerPerFolder, QueueOK, Live, Listed
    <3>2. QED
      BY <1>0, <1>3, <2>1, <2>3, <3>1 DEF ModelFailed, IInv, TypeOK, db
  <2>4. QED
    BY <2>2, <2>3
<1>4. CASE Deinit
  <2>1. thread' \in ThreadType /\ ListInv'
    BY <1>2, <1>4 DEF Deinit
  <2>2. QED
    BY <1>0, <1>4, <2>1 DEF Deinit, IInv, TypeOK, ThreadType, db
<1>5. CASE Restart
  <2>1. PICK r \in Resumers : FreshProcess(r)
    BY <1>5 DEF Restart
  <2>2. thread' \in ThreadType /\ resumer' \in ResumerType
    BY <2>1, BoundsAssumption
       DEF FreshProcess, ThreadType, ResumerType, NoThread, NoResume, InitResume,
           WorkerPC, ResumePC, Ids
  <2>3. ListInv'
    BY <1>0, <2>1, Shrink DEF FreshProcess
  <2>4. QED
    BY <1>0, <1>5, <2>1, <2>2, <2>3
       DEF Restart, FreshProcess, IInv, TypeOK, ThreadType, ResumerType, db
<1>6. QED
  BY <1>1, <1>3, <1>4, <1>5

\* The invariant holds when the application starts.
LEMMA InitInv == Init => IInv
<1> SUFFICES ASSUME Init PROVE IInv
  OBVIOUS
<1>1. TypeOK
  BY BoundsAssumption
     DEF Init, TypeOK, NoThread, NoResume, InitResume, WorkerPC, ResumePC, Ids
<1>2. ListInv
  <2>1. Cardinality(workers) = 0
    BY FS_EmptySet DEF Init
  <2>2. QED
    BY <2>1, BoundsAssumption DEF Init, ListInv, ListBound, OneWorkerPerFolder, QueueOK
<1>3. QED
  BY <1>1, <1>2 DEF IInv

\* Every step of the scheduler and of its environment preserves the invariant.
LEMMA NextInv == IInv /\ [Next]_vars => IInv'
<1> SUFFICES ASSUME IInv, [Next]_vars PROVE IInv'
  OBVIOUS
<1>1. CASE UNCHANGED vars
  BY <1>1 DEF vars, IInv, TypeOK, ListInv, ListBound, OneWorkerPerFolder, QueueOK, Live, Listed
<1>2. CASE Next
  BY <1>2, WorkerStepInv, ResumeStepInv, RequestInv, EnvironmentInv DEF Next
<1>3. QED
  BY <1>1, <1>2

-----------------------------------------------------------------------------
(* The theorems. *)

\* IInv holds in every reachable state.
THEOREM Invariance == Spec => []IInv
  BY InitInv, NextInv, PTL DEF Spec

\* Types: no step leaves the state space described in IndexWorkers.
THEOREM TypeCorrect == Spec => []TypeOK
<1>1. IInv => TypeOK
  BY DEF IInv
<1>2. QED
  BY Invariance, <1>1, PTL

\* The list _index_workers never exceeds _max_workers, for every number of
\* concurrent callers of add_index_worker.
THEOREM ListBoundHolds == Spec => []ListBound
<1>1. IInv => ListBound
  BY DEF IInv, ListInv
<1>2. QED
  BY Invariance, <1>1, PTL

\* No folder ever has two workers on the list, and no listed worker is dead.
THEOREM OneWorkerPerFolderHolds == Spec => []OneWorkerPerFolder
<1>1. IInv => OneWorkerPerFolder
  BY DEF IInv, ListInv
<1>2. QED
  BY Invariance, <1>1, PTL

\* The pending list has no duplicates and no folder that is being indexed.
THEOREM QueueOKHolds == Spec => []QueueOK
<1>1. IInv => QueueOK
  BY DEF IInv, ListInv
<1>2. QED
  BY Invariance, <1>1, PTL

-----------------------------------------------------------------------------
(* Queued folders are not forgotten. *)

\* add_index_worker keeps a folder that was waiting, whether it was left on the
\* list q or has just been popped from it.
LEMMA AddFolderQueue ==
    ASSUME TypeOK, NEW q \in Seq(Ids), NEW i \in Ids, NoDup(q), AddFolder(i, q),
           \A k \in 1..Len(pending) : pending[k] = i \/ Waiting(q, pending[k])
    PROVE  KeepsPending
<1>1. CASE Listed(i) /\ pending' = q /\ UNCHANGED <<workers, thread>>
  BY <1>1 DEF KeepsPending, Listed
<1>2. ASSUME NEW t \in Threads,
             thread' = [thread EXCEPT ![t] = [NoThread EXCEPT !.pc = "start", !.folder = i]],
             workers' = workers \cup {t},
             pending' = Without(q, i)
      PROVE  KeepsPending
  <2>1. t \in workers' /\ thread'[t].folder = i
    BY <1>2 DEF TypeOK, NoThread
  <2>2. \A x : Waiting(q, x) /\ x # i => Waiting(pending', x)
    <3>1. \A k \in 1..Len(q) : q[k] # i => Waiting(pending', q[k])
      BY <1>2, WithoutFacts
    <3>2. QED
      BY <3>1 DEF Waiting
  <2>3. QED
    BY <2>1, <2>2 DEF KeepsPending
<1>3. CASE pending' = IF Waiting(q, i) THEN q ELSE Append(q, i)
  <2>1. \A x : Waiting(q, x) \/ x = i => Waiting(pending', x)
    <3>1. CASE Waiting(q, i)
      BY <1>3, <3>1
    <3>2. CASE ~Waiting(q, i)
      BY <1>3, <3>2, AppendFacts DEF Waiting
    <3>3. QED
      BY <3>1, <3>2
  <2>2. QED
    BY <2>1 DEF KeepsPending
<1>4. QED
  BY <1>1, <1>2, <1>3 DEF AddFolder

\* Every step but a model failure or a restart keeps the waiting folders.
LEMMA PendingStep == IInv /\ [Next]_vars => [ModelFailed \/ Restart \/ KeepsPending]_vars
<1> SUFFICES ASSUME IInv, Next
             PROVE  ModelFailed \/ Restart \/ KeepsPending
  OBVIOUS
<1>0. /\ TypeOK /\ pending \in Seq(Ids) /\ NoDup(pending)
      /\ \A k \in 1..Len(pending) : pending[k] \in Ids /\ Waiting(pending, pending[k])
  BY DEF IInv, TypeOK, ListInv, QueueOK, NoDup, Waiting
<1>1. ASSUME pending' = pending PROVE KeepsPending
  BY <1>0, <1>1 DEF KeepsPending
<1>2. ASSUME NEW i \in Ids, AddFolder(i, pending) PROVE KeepsPending
  BY <1>0, <1>2, AddFolderQueue
<1>3. ASSUME NEW t \in Threads, WorkerStep(t) PROVE KeepsPending
  BY <1>1, <1>3 DEF WorkerStep, WorkerStart, WorkerEntry, WorkerInsert, WorkerTraversed,
     WorkerBuild, WorkerBatch, WorkerBatchFails, WorkerRaise, WorkerReport, WorkerFinish
<1>4. ASSUME NEW r \in Resumers, ResumeStep(r) PROVE KeepsPending
  <2>1. CASE ResumeRead(r)
    BY <1>1, <2>1 DEF ResumeRead
  <2>2. CASE ResumeAdd(r)
    <3>1. resumer[r].todo \subseteq Ids
      BY <1>0 DEF TypeOK
    <3>2. QED
      BY <1>1, <1>2, <2>2, <3>1 DEF ResumeAdd
  <2>3. CASE ResumePop(r)
    <3>1. CASE pending = <<>>
      BY <1>1, <2>3, <3>1 DEF ResumePop
    <3>2. CASE pending # <<>>
      <4> DEFINE q == SubSeq(pending, 1, Len(pending) - 1)
                 i == pending[Len(pending)]
      <4>1. /\ i \in Ids /\ q \in Seq(Ids) /\ NoDup(q)
            /\ \A k \in 1..Len(pending) : pending[k] = i \/ Waiting(q, pending[k])
        BY <1>0, <3>2, PopFacts
      <4>2. AddFolder(i, q)
        BY <2>3, <3>2 DEF ResumePop
      <4> HIDE DEF q, i
      <4>3. QED
        BY <1>0, <4>1, <4>2, AddFolderQueue
    <3>3. QED
      BY <3>1, <3>2
  <2>4. QED
    BY <1>4, <2>1, <2>2, <2>3 DEF ResumeStep
<1>5. ASSUME NEW p \in Paths, RegisterFolder(p) \/ Vanish(p) \/ FsFolderDeleted(p)
      PROVE  KeepsPending
  BY <1>1, <1>5 DEF RegisterFolder, Vanish, FsFolderDeleted, sched
<1>6. ASSUME NEW i \in Ids,
             \/ UserAdd(i) \/ ReindexRequest(i) \/ ReindexReset(i)
             \/ RemoveRequest(i) \/ RemoveDelete(i)
      PROVE  KeepsPending
  BY <1>1, <1>2, <1>6
     DEF UserAdd, ReindexRequest, ReindexReset, RemoveRequest, RemoveDelete, sched
<1>7. CASE ModelLoaded \/ Deinit
  BY <1>1, <1>7 DEF ModelLoaded, Deinit, sched
<1>8. QED
  BY <1>3, <1>4, <1>5, <1>6, <1>7 DEF Next

\* No queued folder is forgotten, for every interleaving of callers.
THEOREM PendingKeptHolds == Spec => PendingKept
  BY Invariance, PendingStep, PTL DEF Spec, PendingKept

-----------------------------------------------------------------------------
(* No folder is stranded. *)

\* What the chain of workers needs: nobody removes or re-indexes folders, none of
\* them is inaccessible, and neither workers nor the model raise errors.  Batches
\* may fail and the process may be restarted at any time.
Undisturbed == Ops \subseteq {"restart", "fail"}

\* A row for each id that was given, and the rows have different paths.
Registered ==
    /\ onDisk = Paths
    /\ \A i \in Ids : status[i] = NoRow <=> i >= nextId
    /\ \A i, j \in Ids : i < nextId /\ j < nextId /\ pathOf[i] = pathOf[j] => i = j

\* Every folder that somebody deals with has a row.
Known ==
    /\ \A c \in calls : c.op = "add" /\ c.id < nextId
    /\ \A r \in Resumers : \A i \in resumer[r].todo : i < nextId
    /\ \A k \in 1..Len(pending) : pending[k] < nextId
    /\ \A t \in Threads : Live(t) => thread[t].folder < nextId

\* Every live worker is on the list and has nothing to complain of, and one that
\* is about to leave has reported its folder as indexed.
AtWork ==
    up => \A t \in Threads :
            Live(t) => /\ t \in workers /\ ~thread[t].stopped /\ ~thread[t].issues
                       /\ thread[t].pc = "finish" => status[thread[t].folder] = 2

\* While a folder is unfinished somebody will look for folders to index: a worker,
\* which starts a resume thread in the end, such a thread before its last look,
\* or a request.
Chain ==
    up /\ (\E i \in Ids : status[i] \in {0, 1}) =>
        \/ \E t \in Threads : Live(t)
        \/ \E r \in Resumers : resumer[r].pc \in {"read", "add"}
        \/ calls # {}

\* The invariant behind NoneStranded.
ChainInv == IInv /\ Registered /\ Known /\ AtWork /\ Chain

\* The row of a folder is found by its path.
LEMMA RowsAtFacts ==
    ASSUME TypeOK, Registered, NEW i \in Ids, i < nextId
    PROVE  RowsAt(pathOf[i]) = {i}
<1>1. nextId \in Nat /\ \A j \in Ids : j \in Nat
  BY BoundsAssumption DEF TypeOK, Ids
<1>2. \A j \in Ids : status[j] # NoRow <=> j < nextId
  BY <1>1 DEF Registered
<1>3. QED
  BY <1>1, <1>2 DEF RowsAt, Registered

\* A step of a worker before its last: it goes on or is about to leave, and writes
\* no status but that of its folder.
LEMMA GoesOn ==
    ASSUME Undisturbed, ChainInv, NEW t \in Threads, WorkerStep(t), ~WorkerFinish(t)
    PROVE  /\ Live(t) /\ thread'[t].pc # "idle"
           /\ thread'[t].folder = thread[t].folder
           /\ thread'[t].stopped = thread[t].stopped
           /\ up => ~thread'[t].issues
           /\ up /\ thread'[t].pc = "finish" => status'[thread[t].folder] = 2
           /\ \A u \in Threads : u # t => thread'[u] = thread[u]
           /\ \A i \in Ids : /\ status'[i] = NoRow <=> status[i] = NoRow
                             /\ i # thread[t].folder => status'[i] = status[i]
           /\ UNCHANGED <<pathOf, nextId, workers, pending, resumer, calls, env>>
<1> DEFINE i == thread[t].folder
<1>1. TypeOK /\ Registered /\ Known /\ AtWork
  BY DEF ChainInv, IInv
<1>2. thread \in ThreadType /\ i \in Ids /\ status \in [Ids -> Statuses \cup {NoRow}]
  BY <1>1 DEF TypeOK, ThreadType
<1>3. thread[t].pc # "idle" => status[i] # NoRow
  <2>1. thread[t].pc # "idle" => i < nextId
    BY <1>1 DEF Known, Live
  <2>2. nextId \in Nat /\ i \in Nat
    BY <1>1, <1>2, BoundsAssumption DEF TypeOK, Ids
  <2>3. QED
    BY <1>1, <1>2, <2>1, <2>2 DEF Registered
<1>4. /\ "issue" \notin Ops /\ "raise" \notin Ops
      /\ pathOf[i] \in onDisk
  BY <1>1, <1>2 DEF Undisturbed, Registered, TypeOK
<1>5. up /\ thread[t].pc # "idle" => ~thread[t].stopped /\ ~thread[t].issues
  BY <1>1 DEF AtWork, Live
<1>6. ASSUME NEW c \in WorkerPC, c # "idle", thread[t].pc # "idle",
             \/ thread' = [thread EXCEPT ![t].pc = c]
             \/ thread' = [thread EXCEPT ![t].pc = c, ![t].issues = FALSE]
      PROVE  /\ Live(t) /\ thread'[t].pc = c
             /\ thread'[t].folder = i
             /\ thread'[t].stopped = thread[t].stopped
             /\ up => ~thread'[t].issues
             /\ \A u \in Threads : u # t => thread'[u] = thread[u]
  <2>1. CASE thread' = [thread EXCEPT ![t].pc = c]
    BY <1>2, <1>5, <1>6, <2>1 DEF Live, ThreadType
  <2>2. CASE thread' = [thread EXCEPT ![t].pc = c, ![t].issues = FALSE]
    BY <1>2, <1>5, <1>6, <2>2 DEF Live, ThreadType
  <2>3. QED
    BY <1>6, <2>1, <2>2
<1>7. ASSUME NEW s \in Statuses, status' = SetStatus(i, s), status[i] # NoRow
      PROVE  /\ status'[i] = s
             /\ \A j \in Ids : /\ status'[j] = NoRow <=> status[j] = NoRow
                               /\ j # i => status'[j] = status[j]
  <2>1. s # NoRow
    BY <1>7 DEF Statuses, NoRow
  <2>2. QED
    BY <1>2, <1>7, <2>1 DEF SetStatus
<1>8. CASE WorkerStart(t)
  <2>1. thread[t].pc # "idle" /\ 0 \in Statuses
    BY <1>8 DEF WorkerStart, Statuses
  <2>2. status' = SetStatus(i, 0) /\ thread' = [thread EXCEPT ![t].pc = "traverse"]
    BY <1>8 DEF WorkerStart, To
  <2>3. UNCHANGED <<pathOf, nextId, workers, pending, resumer, calls, env>>
    BY <1>8 DEF WorkerStart
  <2>4. "traverse" \in WorkerPC
    BY DEF WorkerPC
  <2> HIDE DEF i
  <2>5. QED
    BY <1>3, <1>6, <1>7, <2>1, <2>2, <2>3, <2>4 DEF i
<1>9. CASE WorkerEntry(t) \/ WorkerInsert(t) \/ WorkerBuild(t) \/ WorkerBatchFails(t)
  <2>1. /\ thread[t].pc # "idle"
        /\ \E c \in {"insert", "traverse", "batch", "report"} : thread' = [thread EXCEPT ![t].pc = c]
        /\ UNCHANGED <<status, pathOf, nextId, workers, pending, resumer, calls, env>>
    BY <1>9 DEF WorkerEntry, WorkerInsert, WorkerBuild, WorkerBatchFails, To, db
  <2>2. PICK c \in {"insert", "traverse", "batch", "report"} : thread' = [thread EXCEPT ![t].pc = c]
    BY <2>1
  <2>3. c \in WorkerPC /\ c # "idle" /\ c # "finish"
    BY <2>2 DEF WorkerPC
  <2>4. /\ Live(t) /\ thread'[t].pc = c
        /\ thread'[t].folder = i
        /\ thread'[t].stopped = thread[t].stopped
        /\ up => ~thread'[t].issues
        /\ \A u \in Threads : u # t => thread'[u] = thread[u]
    BY <1>6, <2>1, <2>2, <2>3
  <2>5. QED
    BY <2>1, <2>3, <2>4
<1>10. CASE WorkerTraversed(t)
  <2>1. thread[t].pc # "idle" /\ 1 \in Statuses
    BY <1>10 DEF WorkerTraversed, Statuses
  <2>2. UNCHANGED <<pathOf, nextId, workers, pending, resumer, calls, env>>
    BY <1>10 DEF WorkerTraversed
  <2>3. CASE thread[t].stopped
    <3>1. thread' = [thread EXCEPT ![t].pc = "finish"] /\ status' = status /\ ~up
      BY <1>5, <1>10, <2>1, <2>3 DEF WorkerTraversed, To
    <3>2. "finish" \in WorkerPC
      BY DEF WorkerPC
    <3>3. QED
      BY <1>6, <2>1, <2>2, <3>1, <3>2
  <2>4. CASE ~thread[t].stopped
    <3>1. /\ thread' = [thread EXCEPT ![t].pc = "build", ![t].issues = FALSE]
          /\ "build" \in WorkerPC
      BY <1>4, <1>10, <2>4 DEF WorkerTraversed, WorkerPC
    <3>2. status' = SetStatus(i, 1)
      BY <1>10, <2>4 DEF WorkerTraversed
    <3> HIDE DEF i
    <3>3. QED
      BY <1>3, <1>6, <1>7, <2>1, <2>2, <3>1, <3>2 DEF i
  <2>5. QED
    BY <2>3, <2>4
<1>11. CASE WorkerBatch(t)
  <2>1. /\ thread[t].pc # "idle"
        /\ UNCHANGED <<status, pathOf, nextId, workers, pending, resumer, calls, env>>
    BY <1>11 DEF WorkerBatch
  <2>2. \E c \in {"report", "finish", "batch"} :
           /\ thread' = [thread EXCEPT ![t].pc = c]
           /\ c = "finish" => thread[t].stopped
    BY <1>11 DEF WorkerBatch, To
  <2>3. PICK c \in {"report", "finish", "batch"} :
           /\ thread' = [thread EXCEPT ![t].pc = c]
           /\ c = "finish" => thread[t].stopped
    BY <2>2
  <2>4. c \in WorkerPC /\ c # "idle"
    BY <2>3 DEF WorkerPC
  <2>5. /\ Live(t) /\ thread'[t].pc = c
        /\ thread'[t].folder = i
        /\ thread'[t].stopped = thread[t].stopped
        /\ up => ~thread'[t].issues
        /\ \A u \in Threads : u # t => thread'[u] = thread[u]
    BY <1>6, <2>1, <2>3, <2>4
  <2>6. QED
    BY <1>5, <2>1, <2>3, <2>4, <2>5
<1>12. CASE WorkerReport(t)
  <2>1. /\ thread[t].pc # "idle" /\ thread' = [thread EXCEPT ![t].pc = "finish"]
        /\ UNCHANGED <<pathOf, nextId, workers, pending, resumer, calls, env>>
    BY <1>12 DEF WorkerReport, To
  <2>2. PICK s \in {2, 3} : status' = SetStatus(i, s) /\ (~thread[t].issues => s = 2)
    BY <1>12 DEF WorkerReport
  <2>3. s \in Statuses /\ "finish" \in WorkerPC
    BY <2>2 DEF Statuses, WorkerPC
  <2> HIDE DEF i
  <2>4. /\ Live(t) /\ thread'[t].pc = "finish"
        /\ thread'[t].folder = i
        /\ thread'[t].stopped = thread[t].stopped
        /\ up => ~thread'[t].issues
        /\ \A u \in Threads : u # t => thread'[u] = thread[u]
    BY <1>6, <2>1, <2>3
  <2>5. /\ status'[i] = s
        /\ \A j \in Ids : /\ status'[j] = NoRow <=> status[j] = NoRow
                          /\ j # i => status'[j] = status[j]
    BY <1>3, <1>7, <2>1, <2>2, <2>3
  <2>6. QED
    BY <1>5, <2>1, <2>2, <2>4, <2>5 DEF i
<1>13. ~WorkerRaise(t)
  BY <1>4 DEF WorkerRaise
<1>14. QED
  BY <1>8, <1>9, <1>10, <1>11, <1>12, <1>13 DEF WorkerStep

\* add_index_worker leaves somebody at work: the worker the folder has, the one it
\* gets, or those that fill the list.
LEMMA AddFolderChain ==
    ASSUME ChainInv, NEW q \in Seq(Ids), NEW i \in Ids, NoDup(q), i < nextId,
           \A k \in 1..Len(q) : q[k] < nextId,
           AddFolder(i, q)
    PROVE  /\ \E t \in Threads : thread'[t].pc # "idle"
           /\ \A k \in 1..Len(pending') : pending'[k] < nextId
           /\ \A t \in Threads : thread'[t].pc # "idle" => thread'[t].folder < nextId
           /\ up => \A t \in Threads : thread'[t].pc # "idle" =>
                       /\ t \in workers' /\ ~thread'[t].stopped /\ ~thread'[t].issues
                       /\ thread'[t].pc = "finish" => status[thread'[t].folder] = 2
<1>1. TypeOK /\ OneWorkerPerFolder /\ Known /\ AtWork
  BY DEF ChainInv, IInv, ListInv
<1>2. workers \subseteq Threads /\ thread \in ThreadType
  BY <1>1 DEF TypeOK, ThreadType
<1>3. ASSUME UNCHANGED <<workers, thread>>, \E t \in workers : TRUE
      PROVE  /\ \E t \in Threads : thread'[t].pc # "idle"
             /\ \A t \in Threads : thread'[t].pc # "idle" => thread'[t].folder < nextId
             /\ up => \A t \in Threads : thread'[t].pc # "idle" =>
                         /\ t \in workers' /\ ~thread'[t].stopped /\ ~thread'[t].issues
                         /\ thread'[t].pc = "finish" => status[thread'[t].folder] = 2
  <2>1. \E t \in Threads : thread'[t].pc # "idle"
    BY <1>1, <1>2, <1>3 DEF OneWorkerPerFolder, Live
  <2>2. \A t \in Threads : thread'[t].pc # "idle" => thread'[t].folder < nextId
    BY <1>1, <1>3 DEF Known, Live
  <2>3. QED
    BY <1>1, <1>3, <2>1, <2>2 DEF AtWork, Live
<1>4. CASE Listed(i) /\ pending' = q /\ UNCHANGED <<workers, thread>>
  BY <1>3, <1>4 DEF Listed
<1>5. ASSUME NEW t \in Threads,
             thread' = [thread EXCEPT ![t] = [NoThread EXCEPT !.pc = "start", !.folder = i]],
             workers' = workers \cup {t},
             pending' = Without(q, i)
      PROVE  /\ \E u \in Threads : thread'[u].pc # "idle"
             /\ \A k \in 1..Len(pending') : pending'[k] < nextId
             /\ \A u \in Threads : thread'[u].pc # "idle" => thread'[u].folder < nextId
             /\ up => \A u \in Threads : thread'[u].pc # "idle" =>
                         /\ u \in workers' /\ ~thread'[u].stopped /\ ~thread'[u].issues
                         /\ thread'[u].pc = "finish" => status[thread'[u].folder] = 2
  <2>1. /\ thread'[t].pc = "start" /\ thread'[t].folder = i
        /\ ~thread'[t].stopped /\ ~thread'[t].issues
        /\ \A u \in Threads : u # t => thread'[u] = thread[u]
    BY <1>2, <1>5 DEF ThreadType, NoThread
  <2>2. \A k \in 1..Len(pending') : pending'[k] < nextId
    BY <1>5, WithoutFacts DEF Waiting
  <2>3. \A u \in Threads : thread'[u].pc # "idle" => thread'[u].folder < nextId
    BY <1>1, <2>1 DEF Known, Live
  <2>4. up => \A u \in Threads : thread'[u].pc # "idle" =>
                /\ u \in workers' /\ ~thread'[u].stopped /\ ~thread'[u].issues
                /\ thread'[u].pc = "finish" => status[thread'[u].folder] = 2
    BY <1>1, <1>5, <2>1 DEF AtWork, Live
  <2>5. QED
    BY <2>1, <2>2, <2>3, <2>4
<1>6. CASE /\ Cardinality(workers) >= MaxWorkers
           /\ pending' = IF Waiting(q, i) THEN q ELSE Append(q, i)
           /\ UNCHANGED <<workers, thread>>
  <2>1. workers # {}
    <3>1. workers = {} => Cardinality(workers) = 0
      BY FS_EmptySet
    <3>2. MaxWorkers \in Nat /\ MaxWorkers # 0
      BY BoundsAssumption
    <3>3. ~(0 >= MaxWorkers)
      BY <3>2
    <3>4. QED
      BY <1>6, <3>1, <3>3
  <2>2. \A k \in 1..Len(pending') : pending'[k] < nextId
    BY <1>6, AppendFacts DEF Waiting
  <2>3. QED
    BY <1>3, <1>6, <2>1, <2>2
<1>7. QED
  BY <1>4, <1>5, <1>6 DEF AddFolder

\* The steps of the worker.
LEMMA WorkerStepChain ==
    ASSUME Undisturbed, ChainInv, IInv', NEW t \in Threads, WorkerStep(t)
    PROVE  ChainInv'
<1>1. TypeOK /\ Registered /\ Known /\ AtWork /\ Chain /\ OneWorkerPerFolder
  BY DEF ChainInv, IInv, ListInv
<1>2. thread[t] \in [pc : WorkerPC, folder : Ids, stopped : BOOLEAN, issues : BOOLEAN] /\ thread[t].folder \in Ids
  BY <1>1 DEF TypeOK
<1>3. CASE ~WorkerFinish(t)
  <2>1. /\ Live(t) /\ thread'[t].pc # "idle"
        /\ thread'[t].folder = thread[t].folder
        /\ thread'[t].stopped = thread[t].stopped
        /\ up => ~thread'[t].issues
        /\ up /\ thread'[t].pc = "finish" => status'[thread[t].folder] = 2
        /\ \A u \in Threads : u # t => thread'[u] = thread[u]
        /\ \A i \in Ids : /\ status'[i] = NoRow <=> status[i] = NoRow
                          /\ i # thread[t].folder => status'[i] = status[i]
        /\ UNCHANGED <<pathOf, nextId, workers, pending, resumer, calls, env>>
    BY <1>3, GoesOn
  <2>2. Registered'
    BY <1>1, <2>1 DEF Registered, env
  <2>3. Known'
    <3>1. \A u \in Threads : Live(u)' => thread'[u].folder < nextId'
      BY <1>1, <2>1 DEF Known, Live
    <3>2. QED
      BY <1>1, <2>1, <3>1 DEF Known
  <2>4. AtWork'
    <3>1. SUFFICES ASSUME up, NEW u \in Threads, thread'[u].pc # "idle"
                   PROVE  /\ u \in workers /\ ~thread'[u].stopped /\ ~thread'[u].issues
                          /\ thread'[u].pc = "finish" => status'[thread'[u].folder] = 2
      BY <2>1 DEF AtWork, Live, env
    <3>2. CASE u = t
      BY <1>1, <2>1, <3>1, <3>2 DEF AtWork, Live
    <3>3. CASE u # t
      <4>1. thread'[u] = thread[u] /\ Live(u) /\ u \in workers /\ t \in workers
        BY <1>1, <2>1, <3>1, <3>3 DEF AtWork, Live
      <4>2. thread[u].folder # thread[t].folder /\ thread[u].folder \in Ids
        BY <1>1, <3>3, <4>1 DEF OneWorkerPerFolder, TypeOK
      <4>3. QED
        BY <1>1, <2>1, <3>1, <4>1, <4>2 DEF AtWork
    <3>4. QED
      BY <3>2, <3>3
  <2>5. Chain'
    BY <2>1 DEF Chain, Live
  <2>6. QED
    BY <2>2, <2>3, <2>4, <2>5 DEF ChainInv
<1>4. CASE WorkerFinish(t)
  <2>1. /\ thread[t].pc = "finish"
        /\ thread' = [thread EXCEPT ![t] = NoThread]
        /\ workers' = workers \ {t}
        /\ UNCHANGED <<db, pending, calls, env>>
    BY <1>4 DEF WorkerFinish
  <2>2. /\ thread'[t].pc = "idle"
        /\ \A u \in Threads : u # t => thread'[u] = thread[u]
    BY <1>1, <2>1 DEF TypeOK, NoThread
  <2>3. resumer' = resumer \/ StartResume(FALSE)
    BY <1>4 DEF WorkerFinish
  <2>4. \A r \in Resumers : \A i \in resumer'[r].todo : i < nextId
    <3>1. CASE resumer' = resumer
      BY <1>1, <3>1 DEF Known
    <3>2. ASSUME NEW r0 \in Resumers,
                 resumer' = [resumer EXCEPT ![r0] = [pc |-> "read", todo |-> {}, init |-> FALSE]]
          PROVE  \A r \in Resumers : \A i \in resumer'[r].todo : i < nextId
      <4>1. \A r \in Resumers : r # r0 => resumer'[r] = resumer[r]
        BY <1>1, <3>2 DEF TypeOK
      <4>2. resumer'[r0].todo = {}
        BY <1>1, <3>2 DEF TypeOK
      <4>3. QED
        BY <1>1, <4>1, <4>2 DEF Known
    <3>3. QED
      BY <2>3, <3>1, <3>2 DEF StartResume
  <2>5. Registered' /\ Known' /\ AtWork'
    <3>1. Registered'
      BY <1>1, <2>1 DEF Registered, db, env
    <3>2. \A u \in Threads : Live(u)' => u # t /\ Live(u) /\ thread'[u] = thread[u]
      BY <2>2 DEF Live
    <3>3. Known'
      BY <1>1, <2>1, <2>4, <3>2 DEF Known, db
    <3>4. AtWork'
      BY <1>1, <2>1, <3>2 DEF AtWork, db, env
    <3>5. QED
      BY <3>1, <3>3, <3>4
  <2>6. Chain'
    <3>1. SUFFICES ASSUME up PROVE \E r \in Resumers : resumer'[r].pc \in {"read", "add"}
      BY <2>1 DEF Chain, env
    <3>2. t \in workers /\ status[thread[t].folder] = 2 /\ thread[t].folder < nextId
      BY <1>1, <2>1, <3>1 DEF AtWork, Known, Live
    <3>3. MayResume(t)
      BY <1>1, <1>2, <3>2, RowsAtFacts DEF MayResume
    <3>4. StartResume(FALSE)
      BY <1>4, <3>2, <3>3 DEF WorkerFinish
    <3>5. QED
      BY <1>1, <3>4 DEF StartResume, TypeOK
  <2>7. QED
    BY <2>5, <2>6 DEF ChainInv
<1>5. QED
  BY <1>3, <1>4

\* The resume threads.
LEMMA ResumeStepChain ==
    ASSUME Undisturbed, ChainInv, IInv', NEW r \in Resumers, ResumeStep(r)
    PROVE  ChainInv'
<1>1. /\ TypeOK /\ Registered /\ Known /\ AtWork /\ Chain /\ OneWorkerPerFolder
      /\ pending \in Seq(Ids) /\ NoDup(pending)
  BY DEF ChainInv, IInv, ListInv, QueueOK, NoDup, TypeOK
<1>2. /\ UNCHANGED <<db, calls, env>>
      /\ Registered'
  BY <1>1 DEF ResumeStep, ResumeRead, ResumeAdd, ResumePop, Registered, db, env
<1>3. resumer \in ResumerType /\ resumer[r].todo \subseteq Ids
  BY <1>1 DEF TypeOK, ResumerType
<1>4. ASSUME NEW s, s.todo \subseteq resumer[r].todo, resumer' = [resumer EXCEPT ![r] = s]
      PROVE  \A x \in Resumers : \A i \in resumer'[x].todo : i < nextId
  BY <1>1, <1>3, <1>4 DEF Known, ResumerType
<1>5. ASSUME NEW i \in Ids, NEW q \in Seq(Ids), NoDup(q), i < nextId,
             \A k \in 1..Len(q) : q[k] < nextId, AddFolder(i, q),
             \A x \in Resumers : \A j \in resumer'[x].todo : j < nextId
      PROVE  ChainInv'
  <2>1. /\ \E t \in Threads : thread'[t].pc # "idle"
        /\ \A k \in 1..Len(pending') : pending'[k] < nextId
        /\ \A t \in Threads : thread'[t].pc # "idle" => thread'[t].folder < nextId
        /\ up => \A t \in Threads : thread'[t].pc # "idle" =>
                    /\ t \in workers' /\ ~thread'[t].stopped /\ ~thread'[t].issues
                    /\ thread'[t].pc = "finish" => status[thread'[t].folder] = 2
    BY <1>5, AddFolderChain
  <2>2. Known'
    BY <1>1, <1>2, <1>5, <2>1 DEF Known, Live, db
  <2>3. AtWork'
    BY <1>2, <2>1 DEF AtWork, Live, db, env
  <2>4. Chain'
    BY <2>1 DEF Chain, Live
  <2>5. QED
    BY <1>2, <2>2, <2>3, <2>4 DEF ChainInv
<1>6. ASSUME UNCHANGED <<workers, pending, thread>>,
             \A x \in Resumers : \A j \in resumer'[x].todo : j < nextId,
             resumer'[r].pc \in {"read", "add"} \/ resumer[r].pc = "pop" \/ ~\E i \in Ids : status[i] \in {0, 1},
             \A x \in Resumers : x # r => resumer'[x] = resumer[x]
      PROVE  ChainInv'
  <2>1. Known'
    BY <1>1, <1>2, <1>6 DEF Known, Live, db
  <2>2. AtWork'
    BY <1>1, <1>2, <1>6 DEF AtWork, Live, db, env
  <2>3. Chain'
    BY <1>1, <1>2, <1>6 DEF Chain, Live, db, env
  <2>4. QED
    BY <1>2, <2>1, <2>2, <2>3 DEF ChainInv
<1>7. CASE ResumeRead(r)
  <2> DEFINE wanted == IF resumer[r].init THEN Statuses ELSE {0, 1}
             found == {i \in Ids : status[i] \in wanted /\ pathOf[i] \in onDisk}
  <2>1. /\ UNCHANGED <<workers, pending, thread>>
        /\ resumer' = [resumer EXCEPT ![r].pc = IF found = {} THEN "pop" ELSE "add", ![r].todo = found]
    BY <1>7 DEF ResumeRead
  <2>2. \A i \in found : i < nextId
    <3>1. \A i \in found : i \in Ids /\ status[i] # NoRow
      BY DEF Statuses, NoRow
    <3>2. nextId \in Nat /\ \A i \in Ids : i \in Nat
      BY <1>1, BoundsAssumption DEF TypeOK, Ids
    <3> HIDE DEF found
    <3>3. QED
      BY <1>1, <3>1, <3>2 DEF Registered
  <2>3. found = {} => ~\E i \in Ids : status[i] \in {0, 1}
    <3>1. {0, 1} \subseteq wanted
      BY DEF Statuses
    <3>2. \A i \in Ids : pathOf[i] \in onDisk
      BY <1>1 DEF Registered, TypeOK
    <3> HIDE DEF wanted
    <3>3. QED
      BY <3>1, <3>2
  <2> HIDE DEF found
  <2>4. /\ resumer'[r].pc = (IF found = {} THEN "pop" ELSE "add") /\ resumer'[r].todo = found
        /\ \A x \in Resumers : x # r => resumer'[x] = resumer[x]
    BY <1>3, <2>1 DEF ResumerType
  <2>5. \A x \in Resumers : \A j \in resumer'[x].todo : j < nextId
    BY <1>1, <2>2, <2>4 DEF Known
  <2>6. QED
    BY <1>6, <2>1, <2>3, <2>4, <2>5
<1>8. CASE ResumeAdd(r)
  <2>1. PICK i \in resumer[r].todo :
           /\ IF pathOf[i] \in onDisk THEN AddFolder(i, pending)
              ELSE UNCHANGED <<workers, pending, thread>>
           /\ resumer' = [resumer EXCEPT ![r] =
                            IF resumer[r].todo = {i} THEN NoResume
                            ELSE [resumer[r] EXCEPT !.todo = @ \ {i}]]
    BY <1>8 DEF ResumeAdd
  <2>2. i \in Ids /\ i < nextId /\ AddFolder(i, pending)
    BY <1>1, <1>3, <2>1 DEF Known, Registered, TypeOK
  <2>3. \A x \in Resumers : \A j \in resumer'[x].todo : j < nextId
    <3> DEFINE s == IF resumer[r].todo = {i} THEN NoResume ELSE [resumer[r] EXCEPT !.todo = @ \ {i}]
    <3>1. s.todo \subseteq resumer[r].todo
      BY <1>3 DEF NoResume, ResumerType
    <3>2. resumer' = [resumer EXCEPT ![r] = s]
      BY <2>1
    <3> HIDE DEF s
    <3>3. QED
      BY <1>4, <3>1, <3>2
  <2>4. \A k \in 1..Len(pending) : pending[k] < nextId
    BY <1>1 DEF Known
  <2>5. QED
    BY <1>1, <1>5, <2>2, <2>3, <2>4
<1>9. CASE ResumePop(r)
  <2>1. resumer[r].pc = "pop" /\ resumer' = [resumer EXCEPT ![r] = NoResume]
    BY <1>9 DEF ResumePop
  <2>2. \A x \in Resumers : \A j \in resumer'[x].todo : j < nextId
    BY <1>4, <2>1 DEF NoResume
  <2>3. CASE pending = <<>>
    <3>1. \A x \in Resumers : x # r => resumer'[x] = resumer[x]
      BY <1>3, <2>1 DEF ResumerType
    <3>2. UNCHANGED <<workers, pending, thread>>
      BY <1>9, <2>3 DEF ResumePop
    <3>3. QED
      BY <1>6, <2>1, <2>2, <3>1, <3>2
  <2>4. CASE pending # <<>>
    <3> DEFINE q == SubSeq(pending, 1, Len(pending) - 1)
               i == pending[Len(pending)]
    <3>1. /\ i \in Ids /\ q \in Seq(Ids) /\ NoDup(q)
          /\ \A k \in 1..Len(q) : q[k] = pending[k] /\ k \in 1..Len(pending)
      BY <1>1, <2>4, PopFacts
    <3>2. AddFolder(i, q)
      BY <1>9, <2>4 DEF ResumePop
    <3>3. i < nextId
      <4>1. Len(pending) \in 1..Len(pending)
        BY <1>1, <2>4, EmptySeq
      <4>2. QED
        BY <1>1, <4>1 DEF Known
    <3>4. \A k \in 1..Len(q) : q[k] < nextId
      BY <1>1, <3>1 DEF Known
    <3> HIDE DEF q, i
    <3>5. QED
      BY <1>5, <2>2, <3>1, <3>2, <3>3, <3>4
  <2>5. QED
    BY <2>3, <2>4
<1>10. QED
  BY <1>7, <1>8, <1>9 DEF ResumeStep

\* A folder is registered: it has the next row, and its request is under way.
LEMMA RegisterChain ==
    ASSUME Undisturbed, ChainInv, IInv', NEW p \in Paths, RegisterFolder(p)
    PROVE  ChainInv'
<1>1. TypeOK /\ Registered /\ Known /\ AtWork
  BY DEF ChainInv, IInv
<1>2. /\ nextId \in Ids /\ nextId \in Nat /\ \A i \in Ids : i \in Nat
      /\ nextId' = nextId + 1 /\ pathOf' = [pathOf EXCEPT ![nextId] = p]
      /\ status' = [status EXCEPT ![nextId] = 0]
      /\ calls' = calls \cup {[op |-> "add", id |-> nextId]}
      /\ UNCHANGED <<sched, env>> /\ RowsAt(p) = {}
  BY <1>1, BoundsAssumption DEF RegisterFolder, Call, TypeOK, Ids
<1>3. /\ status'[nextId] = 0 /\ pathOf'[nextId] = p
      /\ \A i \in Ids : i # nextId => status'[i] = status[i] /\ pathOf'[i] = pathOf[i]
  BY <1>1, <1>2 DEF TypeOK
<1>4. \A i \in Ids : i < nextId => pathOf[i] # p
  BY <1>1, <1>2 DEF RowsAt, Registered
<1>5. \A i \in Ids : i < nextId' <=> i < nextId \/ i = nextId
  BY <1>2
<1>6. Registered'
  <2>1. \A i \in Ids : status'[i] = NoRow <=> i >= nextId'
    <3>1. 0 # NoRow
      BY DEF NoRow
    <3>2. QED
      BY <1>1, <1>2, <1>3, <1>5, <3>1 DEF Registered
  <2>2. \A i, j \in Ids : i < nextId' /\ j < nextId' /\ pathOf'[i] = pathOf'[j] => i = j
    BY <1>1, <1>2, <1>3, <1>4, <1>5 DEF Registered
  <2>3. QED
    BY <1>1, <1>2, <2>1, <2>2 DEF Registered, env
<1>7. Known'
  <2>1. \A c \in calls' : c.op = "add" /\ c.id \in Ids /\ c.id < nextId'
    <3>1. \A c \in calls : c.op = "add" /\ c.id \in Ids /\ c.id < nextId'
      <4>1. \A c \in calls : c.id \in Ids
        BY <1>1 DEF TypeOK
      <4>2. QED
        BY <1>1, <1>5, <4>1 DEF Known
    <3> DEFINE new == [op |-> "add", id |-> nextId]
    <3>2. new.op = "add" /\ new.id = nextId
      OBVIOUS
    <3>3. calls' = calls \cup {new}
      BY <1>2
    <3> HIDE DEF new
    <3>4. QED
      BY <1>2, <1>5, <3>1, <3>2, <3>3
  <2>2. \A r \in Resumers : \A i \in resumer[r].todo : i \in Ids /\ i < nextId'
    BY <1>1, <1>5 DEF Known, TypeOK
  <2>3. \A k \in 1..Len(pending) : pending[k] < nextId'
    <3>1. \A k \in 1..Len(pending) : pending[k] \in Ids
      BY <1>1 DEF TypeOK
    <3>2. QED
      BY <1>1, <1>5, <3>1 DEF Known
  <2>4. \A t \in Threads : Live(t) => thread[t].folder < nextId'
    <3>1. \A t \in Threads : thread[t].folder \in Ids
      BY <1>1 DEF TypeOK
    <3>2. QED
      BY <1>1, <1>5, <3>1 DEF Known
  <2>5. QED
    BY <1>2, <2>1, <2>2, <2>3, <2>4 DEF Known, Live, sched
<1>8. AtWork'
  <2>1. \A t \in Threads : Live(t) => thread[t].folder \in Ids /\ thread[t].folder # nextId
    BY <1>1, <1>2 DEF TypeOK, Known
  <2>2. QED
    BY <1>1, <1>2, <1>3, <2>1 DEF AtWork, Live, sched, env
<1>9. Chain'
  BY <1>2 DEF Chain
<1>10. QED
  BY <1>6, <1>7, <1>8, <1>9 DEF ChainInv

\* The end of a request.
LEMMA UserAddChain ==
    ASSUME Undisturbed, ChainInv, IInv', NEW i \in Ids, UserAdd(i)
    PROVE  ChainInv'
<1>1. /\ TypeOK /\ Registered /\ Known /\ AtWork
      /\ pending \in Seq(Ids) /\ NoDup(pending)
  BY DEF ChainInv, IInv, ListInv, QueueOK, NoDup, TypeOK
<1>2. /\ AddFolder(i, pending) /\ calls' \subseteq calls /\ [op |-> "add", id |-> i] \in calls
      /\ UNCHANGED <<status, pathOf, nextId, resumer, onDisk, up>>
  BY DEF UserAdd, Call, db, env
<1>3. i < nextId /\ \A k \in 1..Len(pending) : pending[k] < nextId
  BY <1>1, <1>2 DEF Known
<1>4. /\ \E t \in Threads : thread'[t].pc # "idle"
      /\ \A k \in 1..Len(pending') : pending'[k] < nextId
      /\ \A t \in Threads : thread'[t].pc # "idle" => thread'[t].folder < nextId
      /\ up => \A t \in Threads : thread'[t].pc # "idle" =>
                  /\ t \in workers' /\ ~thread'[t].stopped /\ ~thread'[t].issues
                  /\ thread'[t].pc = "finish" => status[thread'[t].folder] = 2
  BY <1>1, <1>2, <1>3, AddFolderChain
<1>5. Registered' /\ Known' /\ AtWork' /\ Chain'
  <2>1. Registered'
    BY <1>1, <1>2 DEF Registered
  <2>2. Known'
    BY <1>1, <1>2, <1>4 DEF Known, Live
  <2>3. AtWork' /\ Chain'
    BY <1>2, <1>4 DEF AtWork, Chain, Live
  <2>4. QED
    BY <2>1, <2>2, <2>3
<1>6. QED
  BY <1>5 DEF ChainInv

\* Requests of other kinds do not occur.
LEMMA NoOtherRequest ==
    ASSUME Undisturbed, ChainInv, NEW p \in Paths, NEW i \in Ids
    PROVE  /\ ~Vanish(p) /\ ~FsFolderDeleted(p) /\ ~ModelFailed
           /\ ~ReindexRequest(i) /\ ~ReindexReset(i) /\ ~RemoveRequest(i) /\ ~RemoveDelete(i)
<1>1. Registered /\ Known
  BY DEF ChainInv
<1>2. "vanish" \notin Ops /\ "nomodel" \notin Ops /\ "reindex" \notin Ops /\ "remove" \notin Ops
  BY DEF Undisturbed
<1>3. ~Vanish(p) /\ ~ModelFailed /\ ~ReindexRequest(i) /\ ~RemoveRequest(i)
  BY <1>2 DEF Vanish, ModelFailed, ReindexRequest, RemoveRequest
<1>4. ~FsFolderDeleted(p)
  BY <1>1 DEF FsFolderDeleted, Registered
<1>5. ~ReindexReset(i) /\ ~RemoveDelete(i)
  BY <1>1 DEF Known, ReindexReset, RemoveDelete, Call
<1>6. QED
  BY <1>3, <1>4, <1>5

\* The model and the process.  A new process reads all folders.
LEMMA ProcessChain ==
    ASSUME Undisturbed, ChainInv, IInv', ModelLoaded \/ Deinit \/ Restart
    PROVE  ChainInv'
<1>1. TypeOK /\ Registered /\ Known /\ AtWork /\ Chain
  BY DEF ChainInv, IInv
<1>2. Registered'
  BY <1>1 DEF ModelLoaded, Deinit, Restart, Registered, db
<1>3. CASE ModelLoaded
  <2>1. UNCHANGED <<status, nextId, workers, pending, thread, resumer, calls, up>>
    BY <1>3 DEF ModelLoaded, db, sched
  <2>2. Known' /\ AtWork' /\ Chain'
    BY <1>1, <2>1 DEF Known, AtWork, Chain, Live
  <2>3. QED
    BY <1>2, <2>2 DEF ChainInv
<1>4. CASE Deinit
  <2>1. UNCHANGED <<nextId, pending, resumer, calls>> /\ up' = FALSE
    BY <1>4 DEF Deinit, db
  <2>2. \A t \in Threads : thread'[t].pc = thread[t].pc /\ thread'[t].folder = thread[t].folder
    BY <1>1, <1>4 DEF Deinit, TypeOK
  <2>3. Known'
    BY <1>1, <2>1, <2>2 DEF Known, Live
  <2>4. QED
    BY <1>2, <2>1, <2>3 DEF ChainInv, AtWork, Chain
<1>5. CASE Restart
  <2>1. PICK r \in Resumers : FreshProcess(r)
    BY <1>5 DEF Restart
  <2>2. /\ workers' = {} /\ pending' = <<>> /\ calls' = {} /\ nextId' = nextId
        /\ thread' = [t \in Threads |-> NoThread]
        /\ resumer' = [s \in Resumers |-> IF s = r THEN InitResume ELSE NoResume]
    BY <1>5, <2>1 DEF FreshProcess, Restart, db
  <2>3. \A t \in Threads : thread'[t].pc = "idle"
    BY <2>2 DEF NoThread
  <2>4. resumer'[r].pc = "read" /\ \A s \in Resumers : resumer'[s].todo = {}
    BY <2>2 DEF InitResume, NoResume
  <2>5. Known' /\ AtWork' /\ Chain'
    BY <2>2, <2>3, <2>4 DEF Known, AtWork, Chain, Live
  <2>6. QED
    BY <1>2, <2>5 DEF ChainInv
<1>6. QED
  BY <1>3, <1>4, <1>5

\* The application starts with a resume thread that reads all folders.
LEMMA InitChain == Init => ChainInv
<1> SUFFICES ASSUME Init PROVE ChainInv
  OBVIOUS
<1>1. IInv
  BY InitInv
<1>2. PICK r \in Resumers :
        resumer = [s \in Resumers |-> IF s = r THEN InitResume ELSE NoResume]
  BY DEF Init
<1>3. resumer[r].pc = "read" /\ \A s \in Resumers : resumer[s].todo = {}
  BY <1>2 DEF InitResume, NoResume
<1>4. Registered
  BY DEF Init, Registered
<1>5. Known /\ AtWork /\ Chain
  BY <1>3 DEF Init, Known, AtWork, Chain, Live, NoThread
<1>6. QED
  BY <1>1, <1>4, <1>5 DEF ChainInv

\* Every step keeps the chain.
LEMMA ChainNext == Undisturbed /\ ChainInv /\ [Next]_vars => ChainInv'
<1> SUFFICES ASSUME Undisturbed, ChainInv, [Next]_vars PROVE ChainInv'
  OBVIOUS
<1>1. IInv'
  BY NextInv DEF ChainInv
<1>2. CASE UNCHANGED vars
  BY <1>1, <1>2 DEF vars, ChainInv, Registered, Known, AtWork, Chain, Live
<1>3. CASE \E t \in Threads : WorkerStep(t)
  BY <1>1, <1>3, WorkerStepChain
<1>4. CASE \E r \in Resumers : ResumeStep(r)
  BY <1>1, <1>4, ResumeStepChain
<1>5. ASSUME NEW p \in Paths, RegisterFolder(p) \/ Vanish(p) \/ FsFolderDeleted(p) PROVE ChainInv'
  <2>1. \E i : i \in Ids
    BY BoundsAssumption DEF Ids
  <2>2. QED
    BY <1>1, <1>5, <2>1, RegisterChain, NoOtherRequest
<1>6. ASSUME NEW i \in Ids,
             UserAdd(i) \/ ReindexRequest(i) \/ ReindexReset(i) \/ RemoveRequest(i) \/ RemoveDelete(i)
      PROVE  ChainInv'
  <2>1. pathOf[i] \in Paths
    BY DEF ChainInv, IInv, TypeOK
  <2>2. QED
    BY <1>1, <1>6, <2>1, UserAddChain, NoOtherRequest
<1>7. CASE ModelLoaded \/ Deinit \/ Restart
  BY <1>1, <1>7, ProcessChain
<1>8. CASE ModelFailed
  BY <1>8 DEF ModelFailed, Undisturbed
<1>9. QED
  BY <1>2, <1>3, <1>4, <1>5, <1>6, <1>7, <1>8 DEF Next

\* When folders are only registered, batches may fail and the process may be
\* restarted, no folder is left unfinished once all threads have ended, for any
\* number of folders, workers and resume threads: the chain "a worker ends, it
\* starts a resume thread, that starts the next worker" does not break.
THEOREM NoneStrandedHolds == Undisturbed => (Spec => []NoneStranded)
<1> SUFFICES ASSUME Undisturbed PROVE Spec => []NoneStranded
  OBVIOUS
<1>1. Init => ChainInv
  BY InitChain
<1>2. ChainInv /\ [Next]_vars => ChainInv'
  BY ChainNext
<1>3. ChainInv => NoneStranded
  <2>1. SUFFICES ASSUME ChainInv, up, Idle, NEW i \in Ids PROVE status[i] \in {2, 3, NoRow}
    BY DEF NoneStranded
  <2>2. status[i] \in Statuses \cup {NoRow} /\ status[i] \notin {0, 1}
    BY <2>1 DEF ChainInv, IInv, TypeOK, Chain, Idle
  <2>3. QED
    BY <2>2 DEF Statuses
<1>4. QED
  BY <1>1, <1>2, <1>3, PTL DEF Spec

=============================================================================
