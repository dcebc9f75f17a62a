------------------------------ MODULE FsEvents ------------------------------
(***************************************************************************)
(* From the file system to the table of files: the event buffer and the    *)
(* handlers of dt_image_search/index/incremental_index_worker.py, fed by   *)
(* fs/bm_fs_monitor.py.                                                    *)
(*                                                                         *)
(* The watchdog delivers events one at a time on its dispatcher thread.    *)
(* Each is appended to a buffer, and a second later the thread looks       *)
(* whether the front of the buffer can be handled.  It can when no         *)
(* FileCreationIndexWorker is on the list; then all events of the front's  *)
(* type are taken, deletions and moves are handled on the spot, and        *)
(* creations are given to new worker threads.  A worker looks at the       *)
(* buffer too when it ends, so several threads can be handling events.     *)
(*                                                                         *)
(* One registered folder is modelled, and files directly in it.  A worker   *)
(* waits for the model, which may never be loaded.  A batch may fail in    *)
(* part; its worker then asks for the bulk indexer, which is not in this   *)
(* module: the rows it is asked for are those of the paths in left.        *)
(***************************************************************************)
EXTENDS Integers, FiniteSets, Sequences

CONSTANTS
    Paths,      \* paths of files in the folder
    Workers,    \* bound: FileCreationIndexWorker threads alive at the same time
    MaxEvents,  \* bound: changes of the file system
    BatchSize,  \* files per worker (100 in the code)
    Scenarios   \* which paths is_image_file accepts and what may happen

\* "recreate": a path may be used again; "keep": the folder is not empty at first;
\* "fault": images cannot be decoded, jobs fail, the FAISS file cannot be written.
AllOps == {"create", "delete", "move", "recreate", "keep", "deinit", "fault"}

ASSUME EventsAssumption ==
    /\ "dispatcher" \notin Workers
    /\ MaxEvents \in Nat /\ BatchSize \in Nat \ {0}
    /\ Scenarios \subseteq [images : SUBSET Paths, ops : SUBSET AllOps]

VARIABLES
    disk,      \* the files that exist
    used,      \* the paths that existed at some time
    row,       \* table files: path -> "none" or the status of its row
    reported,  \* events the watchdog has yet to dispatch
    buffer,    \* _event_buffer
    agent,     \* the dispatcher and the worker threads
    list,      \* _index_workers
    stopped,   \* workers with _is_stopped
    changes,   \* changes of the file system so far
    up,        \* FALSE after deinit
    scenario,  \* the one of this behaviour
    ready,     \* model_is_ready(), and _model_loaded_event is set
    left       \* history: paths whose images a failing batch did not index

Images == scenario.images
Ops == scenario.ops

world == <<disk, used, reported, changes, scenario, ready, left>>
vars == <<world, row, buffer, agent, list, stopped, up>>

Threads == Workers \cup {"dispatcher"}
Idle == [pc |-> "idle", todo |-> <<>>, files |-> {}]
PCs == {"idle", "try", "created", "spawn", "deleted", "moved", "filter", "insert", "index", "leave"}
Event == [type : {"created", "deleted", "moved"}, src : Paths, dest : Paths]
Thread == [pc : PCs, todo : Seq(Event), files : SUBSET Paths]

TypeOK ==
    /\ disk \subseteq Paths /\ used \subseteq Paths
    /\ row \in [Paths -> {"none", "pending", "indexed", "removed"}]
    /\ reported \in Seq(Event)
    /\ buffer \in Seq(Event)
    /\ agent \in [Threads -> Thread]
    /\ list \subseteq Workers /\ stopped \subseteq Workers
    /\ changes \in 0..MaxEvents
    /\ up \in BOOLEAN /\ scenario \in Scenarios
    /\ ready \in BOOLEAN /\ left \subseteq Paths

Set(t, pc, todo) == [agent EXCEPT ![t] = [pc |-> pc, todo |-> todo, files |-> {}]]
End(t) == [agent EXCEPT ![t] = Idle]

-----------------------------------------------------------------------------
(* The buffer. *)

\* FSHandler -> _on_fs_changed -> _on_directory_changed
Dispatch ==
    /\ up /\ reported # <<>>
    /\ agent["dispatcher"].pc = "idle"
    /\ reported' = Tail(reported)
    /\ buffer' = Append(buffer, Head(reported))
    /\ agent' = Set("dispatcher", "try", <<>>)
    /\ UNCHANGED <<disk, used, row, list, stopped, changes, up, scenario, ready, left>>

\* Mutant: the whole buffer is taken as one batch.
FrontRunAll == Len(buffer)

\* How many events at the front of the buffer have the same type.
FrontRun == Cardinality({n \in DOMAIN buffer : \A k \in 1..n : buffer[k].type = buffer[1].type})

\* Mutant: a blocking read of the buffer.
TryNextBatchBlocks(t) ==
    /\ agent[t].pc = "try" /\ buffer # <<>>
    /\ \/ /\ list # {}
          /\ agent' = End(t)
          /\ UNCHANGED buffer
       \/ /\ list = {}
          /\ agent' = Set(t, buffer[1].type, SubSeq(buffer, 1, FrontRun))
          /\ buffer' = SubSeq(buffer, FrontRun + 1, Len(buffer))
    /\ UNCHANGED <<world, row, list, stopped, up>>

\* _try_schedule_next_batch: nothing is taken while a worker is on the list.
TryNextBatch(t) ==
    /\ agent[t].pc = "try"
    /\ \/ /\ buffer = <<>> \/ list # {}
          /\ agent' = End(t)
          /\ UNCHANGED buffer
       \/ /\ buffer # <<>> /\ list = {}
          /\ agent' = Set(t, buffer[1].type, SubSeq(buffer, 1, FrontRun))
          /\ buffer' = SubSeq(buffer, FrontRun + 1, Len(buffer))
    /\ UNCHANGED <<world, row, list, stopped, up>>

-----------------------------------------------------------------------------
(* The handlers. *)

\* The events of s whose path is in P, in their order.
Kept(s, P) ==
    LET kept[n \in 0..Len(s)] ==
            IF n = 0 THEN <<>>
            ELSE IF s[n].src \in P THEN Append(kept[n - 1], s[n]) ELSE kept[n - 1]
    IN  kept[Len(s)]

\* _on_created first drops what is not an image file any more ...
OnCreated(t) ==
    LET images == Kept(agent[t].todo, disk \cap Images)
    IN  /\ agent[t].pc = "created"
        /\ agent' = IF images = <<>> THEN End(t) ELSE Set(t, "spawn", images)
        /\ UNCHANGED <<world, row, buffer, list, stopped, up>>

\* Mutant: the thread that starts the worker is put on the list, not the worker.
SpawnWorkerSelf(t) ==
    LET todo == agent[t].todo
        n == IF Len(todo) < BatchSize THEN Len(todo) ELSE BatchSize
        paths == {todo[k].src : k \in 1..n}
        rest == SubSeq(todo, n + 1, Len(todo))
    IN  /\ agent[t].pc = "spawn"
        /\ \E w \in Workers :
              /\ agent[w].pc = "idle"
              /\ list' = list \cup {t}
              /\ stopped' = stopped \ {w}
              /\ agent' = [(IF rest = <<>> THEN End(t) ELSE Set(t, "spawn", rest)) EXCEPT
                              ![w] = [pc |-> "filter", todo |-> <<>>, files |-> paths]]
        /\ UNCHANGED <<world, row, buffer, up>>

\* ... and then starts a worker for every BatchSize events.
SpawnWorker(t) ==
    LET todo == agent[t].todo
        n == IF Len(todo) < BatchSize THEN Len(todo) ELSE BatchSize
        paths == {todo[k].src : k \in 1..n}
        rest == SubSeq(todo, n + 1, Len(todo))
    IN  /\ agent[t].pc = "spawn"
        /\ \E w \in Workers :
              /\ agent[w].pc = "idle"
              /\ list' = list \cup {w}
              /\ stopped' = stopped \ {w}
              /\ agent' = [(IF rest = <<>> THEN End(t) ELSE Set(t, "spawn", rest)) EXCEPT
                              ![w] = [pc |-> "filter", todo |-> <<>>, files |-> paths]]
        /\ UNCHANGED <<world, row, buffer, up>>

\* _on_deleted: the rows of the paths are deleted.
OnDeleted(t) ==
    LET paths == {agent[t].todo[k].src : k \in DOMAIN agent[t].todo}
    IN  /\ agent[t].pc = "deleted"
        /\ row' = [p \in Paths |-> IF p \in paths THEN "none" ELSE row[p]]
        /\ agent' = End(t)
        /\ UNCHANGED <<world, buffer, list, stopped, up>>

\* rename_file: the row moves to the new path and replaces the row there.
RenameRow(rows, e) == [rows EXCEPT ![e.dest] = rows[e.src], ![e.src] = "none"]

\* The table after the renames s, one after the other.
Renamed(rows, s) ==
    LET after[n \in 0..Len(s)] == IF n = 0 THEN rows ELSE RenameRow(after[n - 1], s[n])
    IN  after[Len(s)]

\* _on_moved looks up the rows of all sources before it renames any; a file
\* without a row is handled like a new one.
OnMoved(t) ==
    LET known == Kept(agent[t].todo, {p \in Paths : row[p] # "none"})
        new == Kept(agent[t].todo, {p \in Paths : row[p] = "none"})
        AsCreated(e) == [type |-> "created", src |-> e.dest, dest |-> e.dest]
    IN  /\ agent[t].pc = "moved"
        /\ row' = Renamed(row, known)
        /\ agent' = IF new = <<>> THEN End(t)
                    ELSE Set(t, "created", [k \in DOMAIN new |-> AsCreated(new[k])])
        /\ UNCHANGED <<world, buffer, list, stopped, up>>

-----------------------------------------------------------------------------
(* FileCreationIndexWorker. *)

WorkerFilter(w) ==
    LET files == agent[w].files \cap disk \cap Images
    IN  /\ agent[w].pc = "filter"
        /\ agent' = [agent EXCEPT ![w] = [pc |-> IF files = {} THEN "leave" ELSE "insert",
                                         todo |-> <<>>, files |-> files]]
        /\ UNCHANGED <<world, row, buffer, list, stopped, up>>

\* insert_file for each of them.
WorkerInsert(w) ==
    /\ agent[w].pc = "insert"
    /\ row' = [p \in Paths |-> IF p \in agent[w].files /\ row[p] \in {"none", "removed"}
                               THEN "pending" ELSE row[p]]
    /\ agent' = [agent EXCEPT ![w].pc = "index"]
    /\ UNCHANGED <<world, buffer, list, stopped, up>>

\* append_to_index waits for the model without a limit.  Then the pending ones
\* are indexed, those that are gone removed.
WorkerIndex(w) ==
    /\ ready
    /\ agent[w].pc = "index"
    /\ row' = [p \in Paths |-> IF p \in agent[w].files /\ row[p] = "pending"
                               THEN IF p \in disk THEN "indexed" ELSE "removed"
                               ELSE row[p]]
    /\ agent' = [agent EXCEPT ![w].pc = "leave"]
    /\ UNCHANGED <<world, buffer, list, stopped, up>>

\* append_to_index with faults: images of a job that fails stay pending, images
\* that cannot be decoded are skipped, and all are skipped when none has been
\* decoded.  Where the FAISS file cannot be written, nothing is marked as indexed.
WorkerFaults(w) ==
    LET batch == {p \in agent[w].files : row[p] = "pending"}
    IN  /\ "fault" \in Ops /\ ready
        /\ agent[w].pc = "index"
        /\ \E failed, bad \in SUBSET batch :
              LET good == (batch \cap disk) \ (failed \cup bad)
                  kept == IF good = {} THEN {} ELSE failed
              IN  \E written \in {good, {}} :
                     /\ row' = [p \in Paths |-> IF p \notin batch THEN row[p]
                                               ELSE IF p \in written THEN "indexed"
                                               ELSE IF p \in kept \cup good THEN "pending"
                                               ELSE "removed"]
                     /\ left' = left \cup failed \cup bad \cup (good \ written)
        /\ agent' = [agent EXCEPT ![w].pc = "leave"]
        /\ UNCHANGED <<disk, used, reported, changes, scenario, ready, buffer, list, stopped, up>>

\* The worker leaves the list, then looks at the buffer.
WorkerLeave(w) ==
    /\ agent[w].pc = "leave"
    /\ list' = list \ {w}
    /\ agent' = IF w \in stopped THEN End(w) ELSE [agent EXCEPT ![w] = [Idle EXCEPT !.pc = "try"]]
    /\ UNCHANGED <<world, row, buffer, stopped, up>>

\* deinit_indexing_pipeline: stop_watch joins the dispatcher, then the buffer is
\* cleared and the workers on the list are told to stop.
Deinit ==
    /\ "deinit" \in Ops
    /\ up /\ agent["dispatcher"].pc = "idle"
    /\ up' = FALSE
    /\ buffer' = <<>>
    /\ stopped' = list
    /\ UNCHANGED <<world, row, agent, list>>

\* _preload_model loads the model.  Nothing makes it: a download or a load that
\* fails leaves the event unset.  Nothing takes the model away in this process
\* either, because nothing calls reload_model.
ModelLoaded ==
    /\ ~ready
    /\ ready' = TRUE
    /\ UNCHANGED <<disk, used, reported, changes, scenario, left, row, buffer, agent, list, stopped, up>>

-----------------------------------------------------------------------------
(* The file system: a file is created, deleted, or renamed over another path. *)

Change(new, e) ==
    /\ changes < MaxEvents
    /\ changes' = changes + 1
    /\ disk' = new
    /\ used' = used \cup new
    /\ reported' = Append(reported, e)
    /\ UNCHANGED <<row, buffer, agent, list, stopped, up, scenario, ready, left>>

MayUse(p) == p \notin used \/ "recreate" \in Ops

CreateFile(p) ==
    /\ "create" \in Ops /\ p \notin disk
    /\ MayUse(p)
    /\ Change(disk \cup {p}, [type |-> "created", src |-> p, dest |-> p])

DeleteFile(p) ==
    /\ "delete" \in Ops /\ p \in disk
    /\ Change(disk \ {p}, [type |-> "deleted", src |-> p, dest |-> p])

MoveFile(p, q) ==
    /\ "move" \in Ops /\ p \in disk /\ p # q
    /\ MayUse(q)
    /\ Change((disk \ {p}) \cup {q}, [type |-> "moved", src |-> p, dest |-> q])

-----------------------------------------------------------------------------
\* The folder as a bulk run of its index leaves it.
Init ==
    /\ scenario \in Scenarios /\ disk \in SUBSET Paths
    /\ "keep" \notin Ops => disk = {}
    /\ used = disk
    /\ row = [p \in Paths |-> IF p \in disk \cap Images THEN "indexed" ELSE "none"]
    /\ reported = <<>>
    /\ buffer = <<>>
    /\ agent = [t \in Threads |-> Idle]
    /\ list = {}
    /\ stopped = {}
    /\ changes = 0
    /\ up = TRUE
    /\ ready \in BOOLEAN
    /\ left = {}

Handle(t) == TryNextBatch(t) \/ OnCreated(t) \/ SpawnWorker(t) \/ OnDeleted(t) \/ OnMoved(t)

Work(w) ==
    WorkerFilter(w) \/ WorkerInsert(w) \/ WorkerIndex(w) \/ WorkerFaults(w) \/ WorkerLeave(w)

Next ==
    \/ Dispatch
    \/ \E t \in Threads : Handle(t)
    \/ \E w \in Workers : Work(w)
    \/ \E p \in Paths : CreateFile(p) \/ DeleteFile(p)
    \/ \E p, q \in Paths : MoveFile(p, q)
    \/ Deinit
    \/ ModelLoaded

Spec == Init /\ [][Next]_vars

\* The watchdog delivers every event and threads keep running.  The model need
\* not be loaded.
Fairness ==
    /\ WF_vars(Dispatch)
    /\ \A t \in Threads : WF_vars(Handle(t))
    /\ \A w \in Workers : WF_vars(Work(w))

FairSpec == Spec /\ Fairness

-----------------------------------------------------------------------------
(* Properties. *)

Quiet == reported = <<>> /\ buffer = <<>> /\ \A t \in Threads : agent[t].pc = "idle"

\* When no event is left anywhere the table agrees with the disk: every image
\* is indexed, except those that a failing batch has left to the bulk indexer or
\* skipped, and a path that is gone has no row or one that is out of use.
\* Handlers read the disk and the table at other times than the events happened,
\* and two threads may be handling batches at once.
CaughtUp ==
    up /\ Quiet => \A p \in Images :
        row[p] \in IF p \notin disk THEN {"none", "removed"}
                   ELSE {"indexed"} \cup (IF p \in left THEN {"pending", "removed"} ELSE {})

\* Events do not stay in the buffer: the dispatcher or the last worker that
\* leaves the list takes them.
Drained == [](buffer # <<>> => <>(buffer = <<>>))

Ended == \A t \in Threads : agent[t].pc = "idle"

\* The worker stands in append_to_index and waits for the model.
Waits(t) == agent[t].pc = "index" /\ ~ready

\* After deinit no thread remains but workers that wait for a model that is not
\* loaded, and if it is, or ever will be, these end too.  Threads that are told
\* to stop may be anywhere: in a handler, about to start workers, or with a batch.
ShutsDown ==
    /\ ~up ~> \A t \in Threads : agent[t].pc = "idle" \/ Waits(t)
    /\ ~up /\ ready ~> Ended

\* After deinit every thread ends, so that the process, which waits for them, can.
\* The code does not keep it: a worker waits for the model without a limit and
\* does not look at its stop flag while it does.
AlwaysShutsDown == ~up ~> Ended

=============================================================================
