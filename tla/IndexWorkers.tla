---------------------------- MODULE IndexWorkers ----------------------------
(***************************************************************************)
(* The bulk indexing scheduler: dt_image_search/index/index_worker.py with *)
(* its callers in browse/folder_service.py and index_server/routes.py.     *)
(*                                                                         *)
(* A registered folder is indexed by an IndexWorker thread.  At most       *)
(* MaxWorkers of them are on the list _index_workers, the other folders    *)
(* wait on _pending_index_folders, and a worker that ends starts a short   *)
(* "resume" thread that looks for the next folder.  Users register,        *)
(* remove and re-index folders, the file system may take a folder away,    *)
(* the model may fail to load and the process may be restarted at any      *)
(* time, all concurrently with the threads.                                *)
(*                                                                         *)
(* Every block guarded by _workers_lock is one action, and so is every     *)
(* database statement that commits by itself.  What a worker does with     *)
(* the files of its folder is abstracted to a number of batches of         *)
(* pending rows (backlog); module FolderIndex has the rows themselves.     *)
(***************************************************************************)
EXTENDS Integers, FiniteSets, Sequences

CONSTANTS
    Paths,       \* folder paths, none inside another
    MaxId,       \* bound: folder ids are 1..MaxId (AUTOINCREMENT, never reused)
    MaxWorkers,  \* _max_workers
    Threads,     \* bound: IndexWorker threads alive at the same time
    Resumers,    \* bound: resume threads alive at the same time
    MaxBacklog,  \* bound: batches of pending rows of one folder
    MaxCalls,    \* bound: user requests in progress at the same time
    Ops          \* which of AllOps the environment may do

\* What the environment can do besides registering folders.
AllOps == {"remove", "reindex", "vanish", "issue", "fail", "raise", "nomodel", "restart"}

ASSUME BoundsAssumption ==
    /\ MaxId \in Nat \ {0}
    /\ MaxWorkers \in Nat \ {0}
    /\ MaxBacklog \in Nat
    /\ MaxCalls \in Nat
    /\ Ops \subseteq AllOps

ASSUME ThreadsAssumption == IsFiniteSet(Threads)

Ids == 1..MaxId
NoRow == -1                      \* no row of table folders has this id
Statuses == 0..3                 \* scanning, indexing, indexed, partially indexed
NoThread == [pc |-> "idle", folder |-> 1, stopped |-> FALSE, issues |-> FALSE]
NoResume == [pc |-> "idle", todo |-> {}, init |-> FALSE]
InitResume == [pc |-> "read", todo |-> {}, init |-> TRUE]

VARIABLES
    status,   \* table folders: id -> status column, NoRow when there is no row
    pathOf,   \* path column; Folder objects keep it after their row is gone
    nextId,   \* next AUTOINCREMENT id
    backlog,  \* table files: id -> batches of pending rows with this folder_id
    onDisk,   \* the folder paths that exist in the file system
    workers,  \* _index_workers, as the set of threads on the list
    pending,  \* _pending_index_folders, the ids of its Folder objects
    thread,   \* IndexWorker objects and where their threads are
    resumer,  \* threads running resume_logic
    calls,    \* user requests between two of their steps
    preload,  \* the model preload: "running", "failing", "gave_up" or "ready"
    up        \* FALSE between deinit and the end of the process

db == <<status, pathOf, nextId, backlog>>
sched == <<workers, pending, thread, resumer>>
env == <<onDisk, preload, up>>
vars == <<status, pathOf, nextId, backlog, onDisk, workers, pending, thread,
          resumer, calls, preload, up>>

WorkerPC == {"idle", "start", "traverse", "insert", "build", "batch", "report", "finish"}
ResumePC == {"idle", "read", "add", "pop"}
CallOps == {"add", "reset", "drop"}

TypeOK ==
    /\ status \in [Ids -> Statuses \cup {NoRow}]
    /\ pathOf \in [Ids -> Paths]
    /\ nextId \in 1..(MaxId + 1)
    /\ backlog \in [Ids -> 0..MaxBacklog]
    /\ onDisk \subseteq Paths
    /\ workers \subseteq Threads
    /\ pending \in Seq(Ids)
    /\ thread \in [Threads -> [pc : WorkerPC, folder : Ids, stopped : BOOLEAN, issues : BOOLEAN]]
    /\ resumer \in [Resumers -> [pc : ResumePC, todo : SUBSET Ids, init : BOOLEAN]]
    /\ calls \subseteq [op : CallOps, id : Ids]
    /\ preload \in {"running", "failing", "gave_up", "ready"}
    /\ up \in BOOLEAN

-----------------------------------------------------------------------------
(* The database. *)

\* get_folder_by_path: path is UNIQUE, so this has at most one member.
RowsAt(p) == {i \in Ids : status[i] # NoRow /\ pathOf[i] = p}

\* update_folder_status: an UPDATE by id, which changes nothing without a row.
SetStatus(i, s) == [status EXCEPT ![i] = IF @ = NoRow THEN NoRow ELSE s]

\* delete_folder: the row found by its path, and the file rows of its id.
DeleteRows(p) ==
    /\ status' = [i \in Ids |-> IF i \in RowsAt(p) THEN NoRow ELSE status[i]]
    /\ backlog' = [i \in Ids |-> IF i \in RowsAt(p) THEN 0 ELSE backlog[i]]
    /\ UNCHANGED <<pathOf, nextId>>

-----------------------------------------------------------------------------
(* Worker list and pending list. *)

Live(t) == thread[t].pc # "idle"
Listed(i) == \E t \in workers : thread[t].folder = i
Waiting(q, i) == \E k \in 1..Len(q) : q[k] = i

\* Drop folder i from list q, on which it is at most once (see QueueOK).
Without(q, i) ==
    IF Waiting(q, i)
    THEN LET k == CHOOSE j \in 1..Len(q) : q[j] = i
         IN  [j \in 1..(Len(q) - 1) |-> IF j < k THEN q[j] ELSE q[j + 1]]
    ELSE q

\* Mutant: starts a second worker for a folder that has one.
AddFolderUnchecked(i, q) ==
    \/ /\ Listed(i)
       /\ pending' = q
       /\ UNCHANGED <<workers, thread>>
    \/ /\ Cardinality(workers) < MaxWorkers
       /\ \E t \in Threads :
             /\ ~Live(t)
             /\ thread' = [thread EXCEPT ![t] = [NoThread EXCEPT !.pc = "start", !.folder = i]]
             /\ workers' = workers \cup {t}
       /\ pending' = Without(q, i)
    \/ /\ ~Listed(i)
       /\ Cardinality(workers) >= MaxWorkers
       /\ pending' = IF Waiting(q, i) THEN q ELSE Append(q, i)
       /\ UNCHANGED <<workers, thread>>

\* Mutant: does not drop the started folder from the pending list.
AddFolderKeeps(i, q) ==
    \/ /\ Listed(i)
       /\ pending' = q
       /\ UNCHANGED <<workers, thread>>
    \/ /\ ~Listed(i)
       /\ Cardinality(workers) < MaxWorkers
       /\ \E t \in Threads :
             /\ ~Live(t)
             /\ thread' = [thread EXCEPT ![t] = [NoThread EXCEPT !.pc = "start", !.folder = i]]
             /\ workers' = workers \cup {t}
       /\ pending' = q
    \/ /\ ~Listed(i)
       /\ Cardinality(workers) >= MaxWorkers
       /\ pending' = IF Waiting(q, i) THEN q ELSE Append(q, i)
       /\ UNCHANGED <<workers, thread>>

\* Mutant: empties the pending list when a worker starts.
AddFolderClears(i, q) ==
    \/ /\ Listed(i)
       /\ pending' = q
       /\ UNCHANGED <<workers, thread>>
    \/ /\ ~Listed(i)
       /\ Cardinality(workers) < MaxWorkers
       /\ \E t \in Threads :
             /\ ~Live(t)
             /\ thread' = [thread EXCEPT ![t] = [NoThread EXCEPT !.pc = "start", !.folder = i]]
             /\ workers' = workers \cup {t}
       /\ pending' = <<>>
    \/ /\ ~Listed(i)
       /\ Cardinality(workers) >= MaxWorkers
       /\ pending' = IF Waiting(q, i) THEN q ELSE Append(q, i)
       /\ UNCHANGED <<workers, thread>>

\* The locked part of add_index_worker for folder i, q being the pending list,
\* followed by worker.run().
AddFolder(i, q) ==
    \/ /\ Listed(i)
       /\ pending' = q
       /\ UNCHANGED <<workers, thread>>
    \/ /\ ~Listed(i)
       /\ Cardinality(workers) < MaxWorkers
       /\ \E t \in Threads :
             /\ ~Live(t)
             /\ thread' = [thread EXCEPT ![t] = [NoThread EXCEPT !.pc = "start", !.folder = i]]
             /\ workers' = workers \cup {t}
       /\ pending' = Without(q, i)
    \/ /\ ~Listed(i)
       /\ Cardinality(workers) >= MaxWorkers
       /\ pending' = IF Waiting(q, i) THEN q ELSE Append(q, i)
       /\ UNCHANGED <<workers, thread>>

\* resume_index_workers starts a thread.  It would return early in model state
\* "failed", but nothing assigns that state: _set_model_failed binds a local
\* variable of the same name, so get_model_state keeps returning "loading".
StartResume(init) ==
    \E r \in Resumers :
        /\ resumer[r].pc = "idle"
        /\ resumer' = [resumer EXCEPT ![r] = [pc |-> "read", todo |-> {}, init |-> init]]

-----------------------------------------------------------------------------
(* IndexWorker._run_impl *)

To(t, pc) == thread' = [thread EXCEPT ![t].pc = pc]

WorkerStart(t) ==
    /\ thread[t].pc = "start"
    /\ status' = SetStatus(thread[t].folder, 0)
    /\ To(t, "traverse")
    /\ UNCHANGED <<pathOf, nextId, backlog, workers, pending, resumer, calls, env>>

\* _traverse_dir looks at the stop flag before every entry ...
WorkerEntry(t) ==
    /\ thread[t].pc = "traverse"
    /\ ~thread[t].stopped
    /\ pathOf[thread[t].folder] \in onDisk
    /\ To(t, "insert")
    /\ UNCHANGED <<db, workers, pending, resumer, calls, env>>

\* ... and inserts an image as a pending row, which may begin another batch.
WorkerInsert(t) ==
    LET i == thread[t].folder IN
    /\ thread[t].pc = "insert"
    /\ \E b \in backlog[i]..(backlog[i] + 1) :
          /\ b <= MaxBacklog
          /\ backlog' = [backlog EXCEPT ![i] = b]
    /\ To(t, "traverse")
    /\ UNCHANGED <<status, pathOf, nextId, workers, pending, resumer, calls, env>>

\* The end of the traversal.  Inaccessible paths were skipped and counted, and a
\* folder that no longer exists is one of them.
WorkerTraversed(t) ==
    LET i == thread[t].folder IN
    /\ thread[t].pc = "traverse"
    /\ IF thread[t].stopped
       THEN /\ To(t, "finish")
            /\ status' = status
       ELSE /\ \E bad \in BOOLEAN :
                  /\ bad => "issue" \in Ops \/ pathOf[i] \notin onDisk
                  /\ pathOf[i] \notin onDisk => bad
                  /\ thread' = [thread EXCEPT ![t].pc = "build", ![t].issues = bad]
            /\ status' = SetStatus(i, 1)
    /\ UNCHANGED <<pathOf, nextId, backlog, workers, pending, resumer, calls, env>>

\* build_index waits for the model without a timeout.  Once loaded it stays
\* ready, so the generator's "model not ready" result is never produced here.
WorkerBuild(t) ==
    /\ thread[t].pc = "build"
    /\ preload = "ready"
    /\ To(t, "batch")
    /\ UNCHANGED <<db, workers, pending, resumer, calls, env>>

\* Mutant: takes a batch without looking whether any row is pending.
WorkerBatchUnchecked(t) ==
    /\ thread[t].pc = "batch"
    /\ backlog' = [backlog EXCEPT ![thread[t].folder] = @ - 1]
    /\ To(t, IF thread[t].stopped THEN "finish" ELSE "batch")
    /\ UNCHANGED <<status, pathOf, nextId, workers, pending, resumer, calls, env>>

\* One round of build_index: it ends when no row is pending; a batch that
\* succeeds is yielded, and the worker then looks at its stop flag.
WorkerBatch(t) ==
    LET i == thread[t].folder IN
    /\ thread[t].pc = "batch"
    /\ IF backlog[i] = 0
       THEN /\ To(t, "report")
            /\ backlog' = backlog
       ELSE /\ backlog' = [backlog EXCEPT ![i] = @ - 1]
            /\ To(t, IF thread[t].stopped THEN "finish" ELSE "batch")
    /\ UNCHANGED <<status, pathOf, nextId, workers, pending, resumer, calls, env>>

\* A batch that fails ends build_index without a yield: the worker never sees
\* the result and its all_success stays true.
WorkerBatchFails(t) ==
    /\ "fail" \in Ops
    /\ thread[t].pc = "batch"
    /\ backlog[thread[t].folder] > 0
    /\ To(t, "report")
    /\ UNCHANGED <<db, workers, pending, resumer, calls, env>>

\* An exception leaves _run_impl through its finally block.
WorkerRaise(t) ==
    /\ "raise" \in Ops
    /\ thread[t].pc \in {"traverse", "insert", "batch"}
    /\ To(t, "finish")
    /\ UNCHANGED <<db, workers, pending, resumer, calls, env>>

WorkerReport(t) ==
    /\ thread[t].pc = "report"
    /\ status' = SetStatus(thread[t].folder, IF thread[t].issues THEN 3 ELSE 2)
    /\ To(t, "finish")
    /\ UNCHANGED <<pathOf, nextId, backlog, workers, pending, resumer, calls, env>>

\* Mutant: resumes only after a removal, not after a completed folder.
MayResumeRemoved(t) == RowsAt(pathOf[thread[t].folder]) = {}

\* Line 146: the folder was removed, or it was completed.
MayResume(t) ==
    LET here == RowsAt(pathOf[thread[t].folder])
    IN  here = {} \/ \E i \in here : status[i] = 2

\* The finally block: only a worker that is still on the list may resume.
WorkerFinish(t) ==
    /\ thread[t].pc = "finish"
    /\ thread' = [thread EXCEPT ![t] = NoThread]
    /\ workers' = workers \ {t}
    /\ IF t \in workers /\ MayResume(t)
       THEN StartResume(FALSE)
       ELSE resumer' = resumer
    /\ UNCHANGED <<db, pending, calls, env>>

WorkerStep(t) ==
    \/ WorkerStart(t) \/ WorkerEntry(t) \/ WorkerInsert(t) \/ WorkerTraversed(t)
    \/ WorkerBuild(t) \/ WorkerBatch(t)
    \/ WorkerBatchFails(t) \/ WorkerRaise(t) \/ WorkerReport(t) \/ WorkerFinish(t)

-----------------------------------------------------------------------------
(* resume_logic *)

\* Read the folders to index: not completed ones, or all of them at start-up.
ResumeRead(r) ==
    LET wanted == IF resumer[r].init THEN Statuses ELSE {0, 1}
        found == {i \in Ids : status[i] \in wanted /\ pathOf[i] \in onDisk}
    IN  /\ resumer[r].pc = "read"
        /\ resumer' = [resumer EXCEPT ![r].pc = IF found = {} THEN "pop" ELSE "add",
                                      ![r].todo = found]
        /\ UNCHANGED <<db, workers, pending, thread, calls, env>>

\* Offer the next of the folders that were read, in the order of their ids,
\* unless its path is gone by now.
ResumeAdd(r) ==
    /\ resumer[r].pc = "add"
    /\ \E i \in resumer[r].todo :
          /\ \A j \in resumer[r].todo : i <= j
          /\ IF pathOf[i] \in onDisk
             THEN AddFolder(i, pending)
             ELSE UNCHANGED <<workers, pending, thread>>
          /\ resumer' = [resumer EXCEPT ![r] =
                           IF resumer[r].todo = {i} THEN NoResume
                           ELSE [resumer[r] EXCEPT !.todo = @ \ {i}]]
    /\ UNCHANGED <<db, calls, env>>

\* add_index_worker(ctx, None): take the folder that was queued last.
ResumePop(r) ==
    /\ resumer[r].pc = "pop"
    /\ IF pending = <<>>
       THEN UNCHANGED <<workers, pending, thread>>
       ELSE AddFolder(pending[Len(pending)], SubSeq(pending, 1, Len(pending) - 1))
    /\ resumer' = [resumer EXCEPT ![r] = NoResume]
    /\ UNCHANGED <<db, calls, env>>

ResumeStep(r) == ResumeRead(r) \/ ResumeAdd(r) \/ ResumePop(r)

-----------------------------------------------------------------------------
(* Users and the file system. *)

Call(o, i) == [op |-> o, id |-> i]
MayCall == up /\ Cardinality(calls) < MaxCalls

\* register_folder inserted the row; watch_and_index is to follow.
RegisterFolder(p) ==
    /\ MayCall /\ p \in onDisk /\ RowsAt(p) = {} /\ nextId <= MaxId
    /\ status' = [status EXCEPT ![nextId] = 0]
    /\ pathOf' = [pathOf EXCEPT ![nextId] = p]
    /\ nextId' = nextId + 1
    /\ calls' = calls \cup {Call("add", nextId)}
    /\ UNCHANGED <<backlog, sched, env>>

\* The add_index_worker call at the end of watch_and_index or reindex_folder.
UserAdd(i) ==
    /\ Call("add", i) \in calls
    /\ AddFolder(i, pending)
    /\ calls' = calls \ {Call("add", i)}
    /\ UNCHANGED <<db, resumer, env>>

\* The route refuses a completed folder; reindex_folder then resets the status
\* of the folder that the route has read.
ReindexRequest(i) ==
    /\ "reindex" \in Ops /\ MayCall
    /\ status[i] \notin {NoRow, 2}
    /\ calls' = calls \cup {Call("reset", i)}
    /\ UNCHANGED <<db, sched, env>>

ReindexReset(i) ==
    /\ Call("reset", i) \in calls
    /\ status' = SetStatus(i, 0)
    /\ calls' = (calls \ {Call("reset", i)}) \cup {Call("add", i)}
    /\ UNCHANGED <<pathOf, nextId, backlog, sched, env>>

\* remove_folder publishes folder_deleted_from_ui, whose handler
\* _stop_deleted_worker_for_folder stops the worker of that path and takes it
\* off the list (the first one: the list is sorted by age) ...
RemoveRequest(i) ==
    LET mine == {t \in workers : pathOf[thread[t].folder] = pathOf[i]} IN
    /\ "remove" \in Ops /\ MayCall
    /\ status[i] # NoRow
    /\ Call("drop", i) \notin calls
    /\ IF mine = {}
       THEN UNCHANGED <<workers, thread>>
       ELSE \E t \in mine :
               /\ \A u \in mine : thread[t].folder <= thread[u].folder
               /\ workers' = workers \ {t}
               /\ thread' = [thread EXCEPT ![t].stopped = TRUE]
    /\ calls' = calls \cup {Call("drop", i)}
    /\ UNCHANGED <<db, pending, resumer, env>>

\* ... and then deletes the rows of that path.
RemoveDelete(i) ==
    /\ Call("drop", i) \in calls
    /\ DeleteRows(pathOf[i])
    /\ calls' = calls \ {Call("drop", i)}
    /\ UNCHANGED <<sched, env>>

\* The folder is deleted in the file system.
Vanish(p) ==
    /\ "vanish" \in Ops
    /\ p \in onDisk
    /\ onDisk' = onDisk \ {p}
    /\ UNCHANGED <<db, sched, calls, preload, up>>

\* The incremental indexer handles the deletion of a root folder: it deletes
\* the rows, and does not publish folder_deleted_from_ui.
FsFolderDeleted(p) ==
    /\ up /\ p \notin onDisk /\ RowsAt(p) # {}
    /\ DeleteRows(p)
    /\ UNCHANGED <<sched, calls, env>>

-----------------------------------------------------------------------------
(* The model and the process. *)

ModelLoaded ==
    /\ preload = "running"
    /\ preload' = "ready"
    /\ UNCHANGED <<db, sched, calls, onDisk, up>>

\* _set_model_failed publishes model_load_failed, once after the last attempt
\* and once more when _preload_model ends.  Its handler _on_model_failure
\* forgets the pending folders and stops the workers on the list.
ModelFailed ==
    /\ "nomodel" \in Ops
    /\ preload \in {"running", "failing"}
    /\ preload' = IF preload = "running" THEN "failing" ELSE "gave_up"
    /\ IF up
       THEN /\ pending' = <<>>
            /\ thread' = [t \in Threads |->
                            [thread[t] EXCEPT !.stopped = @ \/ t \in workers]]
       ELSE UNCHANGED <<pending, thread>>
    /\ UNCHANGED <<db, workers, resumer, calls, onDisk, up>>

\* deinit_index_workers unsubscribes, stops the workers and clears the list.
Deinit ==
    /\ "restart" \in Ops /\ up
    /\ thread' = [t \in Threads |-> [thread[t] EXCEPT !.stopped = @ \/ t \in workers]]
    /\ workers' = {}
    /\ up' = FALSE
    /\ UNCHANGED <<db, pending, resumer, calls, onDisk, preload>>

\* What a process has in memory after init_index_workers.
FreshProcess(r) ==
    /\ workers' = {}
    /\ pending' = <<>>
    /\ thread' = [t \in Threads |-> NoThread]
    /\ resumer' = [s \in Resumers |->
                     IF s = r THEN InitResume ELSE NoResume]
    /\ calls' = {}
    /\ preload' = "running"
    /\ up' = TRUE

\* The process dies, after deinit or at any other time, and is started again.
Restart ==
    /\ "restart" \in Ops
    /\ \E r \in Resumers : FreshProcess(r)
    /\ UNCHANGED <<db, onDisk>>

-----------------------------------------------------------------------------
\* The application starts on the database an earlier run left behind.
Init ==
    /\ nextId \in 1..(MaxId + 1)
    /\ pathOf \in [Ids -> Paths]
    /\ status \in [Ids -> Statuses \cup {NoRow}]
    /\ \A i \in Ids : status[i] = NoRow <=> i >= nextId
    /\ \A i, j \in Ids : i < nextId /\ j < nextId /\ pathOf[i] = pathOf[j] => i = j
    /\ \A i, j \in Ids : i >= nextId /\ j >= nextId => pathOf[i] = pathOf[j]
    /\ backlog = [i \in Ids |-> 0]
    /\ onDisk = Paths
    /\ workers = {}
    /\ pending = <<>>
    /\ thread = [t \in Threads |-> NoThread]
    /\ \E r \in Resumers :
          resumer = [s \in Resumers |->
                       IF s = r THEN InitResume ELSE NoResume]
    /\ calls = {}
    /\ preload = "running"
    /\ up = TRUE

Next ==
    \/ \E t \in Threads : WorkerStep(t)
    \/ \E r \in Resumers : ResumeStep(r)
    \/ \E p \in Paths : RegisterFolder(p) \/ Vanish(p) \/ FsFolderDeleted(p)
    \/ \E i \in Ids : \/ UserAdd(i)
                      \/ ReindexRequest(i) \/ ReindexReset(i)
                      \/ RemoveRequest(i) \/ RemoveDelete(i)
    \/ ModelLoaded \/ ModelFailed \/ Deinit \/ Restart

Spec == Init /\ [][Next]_vars

\* The operating system schedules every started thread, a directory tree has
\* finitely many entries, requests run to their end, and the model load ends.
Fairness ==
    /\ \A t \in Threads : WF_vars(WorkerStep(t)) /\ SF_vars(WorkerTraversed(t))
    /\ \A r \in Resumers : WF_vars(ResumeStep(r))
    /\ \A i \in Ids : WF_vars(UserAdd(i)) /\ WF_vars(ReindexReset(i)) /\ WF_vars(RemoveDelete(i))
    /\ WF_vars(ModelLoaded)

FairSpec == Spec /\ Fairness

-----------------------------------------------------------------------------
(* Properties. *)

\* The list _index_workers never holds more than _max_workers workers, whatever
\* the interleaving of users, resume threads and ending workers.
ListBound == Cardinality(workers) <= MaxWorkers

\* Every worker on the list has a live thread, and no folder has two workers
\* on the list: add_index_worker looks before it appends, under the lock.
OneWorkerPerFolder ==
    /\ \A t \in workers : Live(t)
    /\ \A t, u \in workers : thread[t].folder = thread[u].folder => t = u

\* _pending_index_folders holds no folder twice and none that has a worker.
QueueOK ==
    /\ \A j, k \in 1..Len(pending) : pending[j] = pending[k] => j = k
    /\ \A k \in 1..Len(pending) : ~Listed(pending[k])

\* Every waiting folder still waits, or has got a worker.
KeepsPending ==
    \A k \in 1..Len(pending) :
        \/ Waiting(pending', pending[k])
        \/ \E t \in workers' : thread'[t].folder = pending[k]

\* A folder leaves the pending list only by getting a worker, unless the model
\* failed or the process ended: no queued folder is forgotten, although pop()
\* takes it off the list before add_index_worker knows whether it can start.
PendingKept == [][ModelFailed \/ Restart \/ KeepsPending]_vars

\* Nothing runs and nothing is about to run.
Idle ==
    /\ \A t \in Threads : ~Live(t)
    /\ \A r \in Resumers : resumer[r].pc = "idle"
    /\ calls = {}

\* No folder is stranded: when no thread is left, every registered folder that
\* exists has been reported on.  Nobody else would start the folder's worker, so the chain
\* "worker ends, resume thread starts, next worker starts" must not break.
NoneStranded ==
    up /\ Idle => \A i \in Ids : pathOf[i] \in onDisk => status[i] \in {2, 3, NoRow}

\* Every registered folder is eventually reported as indexed, with no fault, no
\* removal and no re-index request; line 145 resumes only after a completed
\* folder "to avoid infinite loops".
EventuallyIndexed ==
    \A i \in Ids : (status[i] # NoRow) ~> (status[i] \in {2, NoRow})

\* line 19 of index_worker.py: "Maximum number of concurrent indexing workers",
\* counting the threads that really run.
LiveBound == Cardinality({t \in Threads : Live(t)}) <= MaxWorkers

\* remove_folder deletes "the folder (and its files/index) from the DB": no file
\* row of a removed folder is left once no worker runs for it.
RemovedLeavesNoRows ==
    \A i \in Ids :
        i < nextId /\ status[i] = NoRow /\ (\A t \in Threads : Live(t) => thread[t].folder # i)
            => backlog[i] = 0

=============================================================================
