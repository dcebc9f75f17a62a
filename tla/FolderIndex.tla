---------------------------- MODULE FolderIndex ----------------------------
(***************************************************************************)
(* The index of one registered folder: its rows in table files, its FAISS  *)
(* file, and the code that moves images from one to the other, build_index *)
(* and append_to_index of dt_image_search/index/dts_index.py.              *)
(*                                                                         *)
(* Two kinds of thread write a folder's index.  The bulk IndexWorker scans *)
(* the folder, and the incremental FileCreationIndexWorker is given the    *)
(* files of one batch of "created" events; the two keep separate lists of  *)
(* workers and nothing keeps them apart.  Each of them reads the FAISS     *)
(* file, computes features for a batch of pending rows, adds them to its   *)
(* copy, replaces the file and marks the rows indexed.  The lock of the    *)
(* file is held for the read and for the replacement, not in between.      *)
(*                                                                         *)
(* The database and the FAISS file survive a crash, everything else is     *)
(* lost.  The model is taken to be ready (see ModelStartup for the rest).   *)
(***************************************************************************)
EXTENDS Integers, FiniteSets

CONSTANTS
    Paths,       \* image paths in the folder
    Writers,     \* the threads that may run, a subset of {"bulk", "append"}
    MaxId,       \* bound: file ids are 1..MaxId (AUTOINCREMENT, never reused);
                 \* a path takes a new id only when its row was deleted
    MaxChanges,  \* bound: files created or deleted by users
    MaxCrashes,  \* bound: crashes of the process
    MaxCopies,   \* bound: vectors of one id in a FAISS file
    BatchLimit,  \* rows per round of build_index (100 in the code)
    SubBatch,    \* images per job of the process pool (16 in the code)
    Ops          \* what may happen besides new files, a subset of AllOps

AllOps == {"delete", "reindex", "undecodable", "fail", "corrupt"}

ASSUME FolderAssumption ==
    /\ Writers \subseteq {"bulk", "append"}
    /\ MaxId \in Nat /\ MaxChanges \in Nat /\ MaxCrashes \in Nat
    /\ MaxCopies \in Nat \ {0} /\ BatchLimit \in Nat \ {0} /\ SubBatch \in Nat \ {0}
    /\ Ops \subseteq AllOps

Ids == 1..MaxId
NoRow == [path |-> "none", status |-> 2, clip |-> FALSE]
Vectors == [Ids -> 0..MaxCopies]
NoVectors == [i \in Ids |-> 0]
NoWriter == [pc |-> "idle", scan |-> {}, files |-> {}, batch |-> {}, loaded |-> NoVectors,
             todo |-> {}, ok |-> TRUE]

VARIABLES
    row,      \* table files: id -> path, status (0 pending, 1 indexed, 2 removed), clip_index set?
    nextId,   \* next AUTOINCREMENT id
    status,   \* status column of the folder
    index,    \* the FAISS file: "missing", "corrupt" or "ok", and its vectors
    disk,     \* images that exist in the folder
    events,   \* path -> file system events that are not handled yet: a deletion, a
              \* creation, or a deletion followed by a creation
    wanted,   \* the scheduler will start an IndexWorker
    writer,   \* the two threads
    torn,     \* history: a crash came between the two halves of a recovery
    changes, crashes

store == <<row, nextId, status, index>>
world == <<disk, events, torn, changes, crashes>>
vars == <<row, nextId, status, index, disk, events, wanted, writer, torn, changes, crashes>>

PCs == {"idle", "scan", "create", "pick", "load", "recover", "embed", "write", "commit", "report"}

TypeOK ==
    /\ row \in [Ids -> [path : Paths, status : 0..2, clip : BOOLEAN] \cup {NoRow}]
    /\ nextId \in 1..(MaxId + 1)
    /\ status \in 0..3
    /\ index \in [state : {"missing", "corrupt", "ok"}, vec : Vectors]
    /\ disk \subseteq Paths
    /\ events \in [Paths -> SUBSET {"created", "deleted"}]
    /\ wanted \in BOOLEAN
    /\ writer \in [Writers -> [pc : PCs, scan : SUBSET Paths, files : SUBSET Paths,
                               batch : SUBSET Ids, loaded : Vectors, todo : SUBSET Ids,
                               ok : BOOLEAN]]
    /\ torn \in BOOLEAN
    /\ changes \in 0..MaxChanges
    /\ crashes \in 0..MaxCrashes

Live(i) == row[i] # NoRow
RowsOf(p) == {i \in Ids : Live(i) /\ row[i].path = p}
Pending == {i \in Ids : Live(i) /\ row[i].status = 0}
Recovering == \E w \in Writers : writer[w].pc = "recover"

\* The first n members of a set of ids (ORDER BY id LIMIT n).
FirstIds(S, n) == {i \in S : Cardinality({j \in S : j <= i}) <= n}

-----------------------------------------------------------------------------
(* Database statements. *)

\* Mutant: a path that is scanned again is pending again, whatever its status.
InsertFileAgain(p) ==
    IF RowsOf(p) = {}
    THEN /\ nextId <= MaxId
         /\ row' = [row EXCEPT ![nextId] = [path |-> p, status |-> 0, clip |-> FALSE]]
         /\ nextId' = nextId + 1
    ELSE /\ row' = [i \in Ids |-> IF i \in RowsOf(p)
                                  THEN [row[i] EXCEPT !.status = 0, !.clip = FALSE] ELSE row[i]]
         /\ UNCHANGED nextId

\* Mutant: the same, but the row keeps its clip_index.
InsertFileHalf(p) ==
    IF RowsOf(p) = {}
    THEN /\ nextId <= MaxId
         /\ row' = [row EXCEPT ![nextId] = [path |-> p, status |-> 0, clip |-> FALSE]]
         /\ nextId' = nextId + 1
    ELSE /\ row' = [i \in Ids |-> IF i \in RowsOf(p) THEN [row[i] EXCEPT !.status = 0] ELSE row[i]]
         /\ UNCHANGED nextId

\* insert_file: a new pending row; a removed row of that path is pending again.
InsertFile(p) ==
    IF RowsOf(p) = {}
    THEN /\ nextId <= MaxId
         /\ row' = [row EXCEPT ![nextId] = [path |-> p, status |-> 0, clip |-> FALSE]]
         /\ nextId' = nextId + 1
    ELSE /\ row' = [i \in Ids |-> IF i \in RowsOf(p) /\ row[i].status = 2
                                  THEN [row[i] EXCEPT !.status = 0] ELSE row[i]]
         /\ UNCHANGED nextId

\* mark_files_deleted, mark_files_skipped
Marked(S) == [i \in Ids |-> IF i \in S /\ Live(i) THEN [row[i] EXCEPT !.status = 2] ELSE row[i]]

-----------------------------------------------------------------------------
(* The writers. *)

To(w, pc) == writer' = [writer EXCEPT ![w].pc = pc]

\* IndexWorker: list the images of the folder.
BulkStart ==
    /\ "bulk" \in Writers /\ wanted
    /\ writer["bulk"].pc = "idle"
    /\ status' = 0
    /\ wanted' = FALSE
    /\ writer' = [writer EXCEPT !["bulk"] = [NoWriter EXCEPT !.pc = "scan", !.scan = disk]]
    /\ UNCHANGED <<row, nextId, index, world>>

\* FileCreationIndexWorker: take the files of a batch of created events.
AppendStart(P) ==
    /\ "append" \in Writers /\ P # {}
    /\ writer["append"].pc = "idle"
    /\ \A p \in P : events[p] = {"created"}
    /\ events' = [p \in Paths |-> IF p \in P THEN {} ELSE events[p]]
    /\ status' = 3
    /\ writer' = [writer EXCEPT !["append"] = [NoWriter EXCEPT !.pc = "scan", !.scan = P, !.files = P]]
    /\ UNCHANGED <<row, nextId, index, wanted, disk, torn, changes, crashes>>

\* Both insert their files one by one; the bulk worker then sets status 1.
Scan(w) ==
    /\ writer[w].pc = "scan"
    /\ IF writer[w].scan = {}
       THEN /\ To(w, "create")
            /\ status' = IF w = "bulk" THEN 1 ELSE status
            /\ UNCHANGED <<row, nextId>>
       ELSE \E p \in writer[w].scan :
               /\ InsertFile(p)
               /\ writer' = [writer EXCEPT ![w].scan = @ \ {p}]
               /\ UNCHANGED status
    /\ UNCHANGED <<index, wanted, world>>

\* create_index_if_needed
Create(w) ==
    /\ writer[w].pc = "create"
    /\ index' = IF index.state = "missing" THEN [state |-> "ok", vec |-> NoVectors] ELSE index
    /\ To(w, "pick")
    /\ UNCHANGED <<row, nextId, status, wanted, world>>

\* The next batch.  build_index ends when nothing is pending; it goes round for
\* ever when all it finds are pending rows that have a clip_index, since it asks
\* for the same rows again.  append_to_index looks up the rows of its files.
Pick(w) ==
    LET found == IF w = "bulk" THEN FirstIds(Pending, BatchLimit)
                 ELSE {i \in Pending : row[i].path \in writer[w].files}
        batch == {i \in found : w = "bulk" => ~row[i].clip}
    IN  /\ writer[w].pc = "pick"
        /\ found = {} \/ batch # {}
        /\ writer' = [writer EXCEPT ![w].batch = batch,
                                    ![w].pc = IF found = {} THEN "report" ELSE "load"]
        /\ UNCHANGED <<store, wanted, world>>

\* _add_to_index reads the file under its lock.
Load(w) ==
    /\ writer[w].pc = "load"
    /\ writer' = [writer EXCEPT ![w].loaded = IF index.state = "ok" THEN index.vec ELSE NoVectors,
                                ![w].ok = index.state = "ok",
                                ![w].pc = CASE index.state = "ok" -> "embed"
                                            [] index.state = "corrupt" -> "recover"
                                            [] index.state = "missing" -> "report"]
    /\ IF index.state = "corrupt"
       THEN index' = [state |-> "ok", vec |-> NoVectors]  \* first half of _recover_corrupted_index
       ELSE UNCHANGED index
    /\ UNCHANGED <<row, nextId, status, wanted, world>>

\* Mutant: the rows keep their clip_index.
RecoverHalf(w) ==
    /\ writer[w].pc = "recover"
    /\ row' = [i \in Ids |-> IF Live(i) /\ row[i].status # 2
                             THEN [row[i] EXCEPT !.status = 0] ELSE row[i]]
    /\ status' = 1
    /\ torn' = FALSE
    /\ To(w, "report")
    /\ UNCHANGED <<nextId, index, wanted, disk, events, changes, crashes>>

\* Second half of _recover_corrupted_index, outside the lock of the file.  The
\* caller then sees CorruptFaissIndexError, which makes the batch a failure.
Recover(w) ==
    /\ writer[w].pc = "recover"
    /\ row' = [i \in Ids |-> IF Live(i) /\ row[i].status # 2
                             THEN [path |-> row[i].path, status |-> 0, clip |-> FALSE]
                             ELSE row[i]]
    /\ status' = 1
    /\ torn' = FALSE
    /\ To(w, "report")
    /\ UNCHANGED <<nextId, index, wanted, disk, events, changes, crashes>>

\* The images of the batch are decoded in jobs of SubBatch files.  A job that
\* decodes none of its files reports none of them, a job that fails leaves its
\* files pending, and if no image at all was decoded the batch is skipped.
Embed(w) ==
    LET batch == writer[w].batch
        Job(i) == (Cardinality({j \in batch : j < i})) \div SubBatch
        absent == {i \in batch : row[i].path \notin disk}
    IN  /\ writer[w].pc = "embed"
        /\ \E bad \in SUBSET batch, broken \in SUBSET {Job(i) : i \in batch} :
              LET good == batch \ (bad \cup absent)
                  done == {Job(i) : i \in good} \ broken
                  valid == {i \in good : Job(i) \in done}
                  skipped == IF valid = {} THEN batch
                             ELSE {i \in batch \ good : Job(i) \in done}
              IN  /\ bad # {} => "undecodable" \in Ops
                  /\ broken # {} => "fail" \in Ops
                  /\ row' = Marked(skipped)
                  /\ writer' = [writer EXCEPT ![w].todo = valid,
                                              ![w].ok = valid # {} /\ broken = {},
                                              ![w].pc = IF valid = {} THEN "report" ELSE "write"]
        /\ UNCHANGED <<nextId, status, index, wanted, world>>

\* Replace the file by the copy with the new vectors.
Write(w) ==
    /\ writer[w].pc = "write"
    /\ \A i \in writer[w].todo : writer[w].loaded[i] < MaxCopies
    /\ index' = [state |-> "ok",
                 vec |-> [i \in Ids |-> writer[w].loaded[i] + (IF i \in writer[w].todo THEN 1 ELSE 0)]]
    /\ To(w, "commit")
    /\ UNCHANGED <<row, nextId, status, wanted, world>>

\* The write fails (no space): the exception makes the batch a failure.
WriteFails(w) ==
    /\ "fail" \in Ops
    /\ writer[w].pc = "write"
    /\ writer' = [writer EXCEPT ![w].ok = FALSE, ![w].pc = "report"]
    /\ UNCHANGED <<store, wanted, world>>

\* Mutant: INSERT OR REPLACE instead of UPDATE brings a deleted row back.
CommitUpserts(w) ==
    /\ writer[w].pc = "commit"
    /\ IF writer[w].todo = {}
       THEN /\ To(w, IF w = "bulk" /\ writer[w].ok THEN "pick" ELSE "report")
            /\ UNCHANGED row
       ELSE \E i \in writer[w].todo :
               /\ row' = [row EXCEPT ![i].status = 1, ![i].clip = TRUE]
               /\ writer' = [writer EXCEPT ![w].todo = @ \ {i}]
    /\ UNCHANGED <<nextId, status, index, wanted, world>>

\* Mark the rows indexed, each in a transaction of its own.  After a good batch
\* build_index picks the next one, after a bad one it ends without a yield.
Commit(w) ==
    /\ writer[w].pc = "commit"
    /\ IF writer[w].todo = {}
       THEN /\ To(w, IF w = "bulk" /\ writer[w].ok THEN "pick" ELSE "report")
            /\ UNCHANGED row
       ELSE \E i \in writer[w].todo :
               /\ \A j \in writer[w].todo : i <= j
               /\ row' = IF Live(i)
                         THEN [row EXCEPT ![i] = [path |-> row[i].path, status |-> 1, clip |-> TRUE]]
                         ELSE row
               /\ writer' = [writer EXCEPT ![w].todo = @ \ {i}]
    /\ UNCHANGED <<nextId, status, index, wanted, world>>

Running(w) == w \in Writers /\ writer[w].pc # "idle"

\* The folder's new status.  The bulk worker never learns of the failed batch
\* that ended build_index; the incremental one asks for a bulk run, which is
\* refused while there is a bulk worker of this folder.
Report(w) ==
    /\ writer[w].pc = "report"
    /\ status' = IF w = "bulk" \/ writer[w].ok THEN 2 ELSE 1
    /\ wanted' = (wanted \/ (w = "append" /\ ~writer[w].ok /\ ~Running("bulk")))
    /\ writer' = [writer EXCEPT ![w] = NoWriter]
    /\ UNCHANGED <<row, nextId, index, world>>

WriterStep(w) ==
    \/ Scan(w) \/ Create(w) \/ Pick(w) \/ Load(w) \/ Recover(w) \/ Embed(w)
    \/ Write(w) \/ WriteFails(w) \/ Commit(w) \/ Report(w)

-----------------------------------------------------------------------------
(* Users, the disk and the process. *)

\* A file appears or disappears and the watchdog reports it.  A creation that is
\* still unhandled when the file is gone is dropped here: its handler would find
\* that there is no such file.
Change(p, new) ==
    /\ changes < MaxChanges
    /\ changes' = changes + 1
    /\ events' = [events EXCEPT ![p] = new]
    /\ UNCHANGED <<store, wanted, writer, torn, crashes>>

CreateFile(p) ==
    /\ p \notin disk
    /\ disk' = disk \cup {p}
    /\ Change(p, events[p] \cup {"created"})

DeleteFile(p) ==
    /\ "delete" \in Ops
    /\ p \in disk
    /\ disk' = disk \ {p}
    /\ Change(p, {"deleted"})

\* _on_deleted: the rows of the path are deleted, the vectors stay in the file.
FileDeleted(p) ==
    /\ "deleted" \in events[p]
    /\ events' = [events EXCEPT ![p] = @ \ {"deleted"}]
    /\ row' = [i \in Ids |-> IF i \in RowsOf(p) THEN NoRow ELSE row[i]]
    /\ UNCHANGED <<nextId, status, index, wanted, writer, disk, torn, changes, crashes>>

\* reindex_folder: refused while the folder has a bulk worker, except for the
\* status.
Reindex ==
    /\ "reindex" \in Ops
    /\ status' = 0
    /\ wanted' = (wanted \/ ~Running("bulk"))
    /\ UNCHANGED <<row, nextId, index, writer, world>>

\* The FAISS file becomes unreadable.
CorruptIndex ==
    /\ "corrupt" \in Ops
    /\ index.state = "ok" /\ \E i \in Ids : index.vec[i] > 0
    /\ index' = [state |-> "corrupt", vec |-> NoVectors]
    /\ UNCHANGED <<row, nextId, status, wanted, writer, world>>

\* Mutant: the start resumes only folders whose status is not "indexed".
CrashSkipsDone ==
    /\ crashes < MaxCrashes
    /\ crashes' = crashes + 1
    /\ writer' = [w \in Writers |-> NoWriter]
    /\ torn' = (torn \/ Recovering)
    /\ events' = [p \in Paths |-> {}]
    /\ wanted' = (status # 2)
    /\ UNCHANGED <<store, disk, changes>>

\* Mutant: nothing is resumed.
CrashForgets ==
    /\ crashes < MaxCrashes
    /\ crashes' = crashes + 1
    /\ writer' = [w \in Writers |-> NoWriter]
    /\ torn' = (torn \/ Recovering)
    /\ events' = [p \in Paths |-> {}]
    /\ UNCHANGED <<store, disk, changes, wanted>>

\* The process dies and is started again: threads and unhandled events are
\* lost, and init_index_workers indexes every folder.
Crash ==
    /\ crashes < MaxCrashes
    /\ crashes' = crashes + 1
    /\ writer' = [w \in Writers |-> NoWriter]
    /\ torn' = (torn \/ Recovering)
    /\ events' = [p \in Paths |-> {}]
    /\ wanted' = TRUE
    /\ UNCHANGED <<store, disk, changes>>

-----------------------------------------------------------------------------
\* A folder that has just been registered.
Init ==
    /\ row = [i \in Ids |-> NoRow]
    /\ nextId = 1
    /\ status = 0
    /\ index = [state |-> "missing", vec |-> NoVectors]
    /\ disk \in SUBSET Paths
    /\ events = [p \in Paths |-> {}]
    /\ wanted = TRUE
    /\ writer = [w \in Writers |-> NoWriter]
    /\ torn = FALSE
    /\ changes = 0
    /\ crashes = 0

Next ==
    \/ BulkStart
    \/ \E P \in SUBSET Paths : AppendStart(P)
    \/ \E w \in Writers : WriterStep(w)
    \/ \E p \in Paths : CreateFile(p) \/ DeleteFile(p) \/ FileDeleted(p)
    \/ Reindex
    \/ CorruptIndex
    \/ Crash

Spec == Init /\ [][Next]_vars

\* Threads that were started keep running, and events are delivered.
Fairness ==
    /\ WF_vars(BulkStart)
    /\ \A w \in Writers : WF_vars(WriterStep(w))
    /\ \A p \in Paths : WF_vars(FileDeleted(p)) /\ WF_vars(AppendStart({p}))

FairSpec == Spec /\ Fairness

-----------------------------------------------------------------------------
(* What this promises to a search: module ImageCatalog, under a mapping. *)

\* get_files_by_clip_indices keeps the hits of the FAISS file that have a row
\* with status 1.
Searchable == {p \in Paths : \E i \in RowsOf(p) : row[i].status = 1 /\ row[i].clip /\ index.vec[i] > 0}
Deleted == {p \in Paths : "deleted" \in events[p]}

Catalog == INSTANCE ImageCatalog
             WITH found <- Searchable, deleted <- Deleted, damaged <- index.state = "corrupt"

-----------------------------------------------------------------------------
(* Properties. *)

\* An image that a search can find stays findable until its deletion has been
\* reported and handled or the FAISS file is damaged, whatever is re-scanned,
\* re-indexed, recovered, skipped or interrupted meanwhile.
ImplementsCatalog == Catalog!Spec

\* A row that is marked indexed has its vector in the FAISS file, so a search
\* can find it: the file is replaced before the rows are marked, and whatever
\* happens in between only leaves rows pending.  (For a crash in the middle of
\* a recovery see RecoveredHasVector.)
IndexedHasVector ==
    index.state = "ok" /\ ~Recovering /\ ~torn =>
        \A i \in Ids : Live(i) /\ row[i].clip => index.vec[i] > 0

\* The same at all times: line 15 of db_schema.sql says of status 1 "indexed".
RecoveredHasVector ==
    index.state = "ok" /\ ~Recovering =>
        \A i \in Ids : Live(i) /\ row[i].status = 1 => index.vec[i] > 0

\* A folder that is reported "indexed" has no pending row once its threads have
\* ended, since nothing would index that row before the next start.
ReportedMeansDone ==
    status = 2 /\ ~wanted /\ (\A w \in Writers : ~Running(w)) => Pending = {}

\* Every run of an indexing thread ends.
WritersEnd == \A w \in Writers : Running(w) ~> ~Running(w)

\* Every image of the folder is indexed at last, or found to be gone: what a
\* crash leaves behind is taken up by the next start.
EventuallyIndexed ==
    \A p \in Paths :
        (p \in disk) ~> (p \notin disk \/ \E i \in RowsOf(p) : row[i].status = 1)

=============================================================================
