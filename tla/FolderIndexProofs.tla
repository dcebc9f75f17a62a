------------------------- MODULE FolderIndexProofs -------------------------
(***************************************************************************)
(* Proofs about FolderIndex, for any images, batch sizes and crashes.      *)
(* First with the bulk writer alone and all faults, up to the refinement   *)
(* of ImageCatalog: with both writers IndexedHasVector does not hold, and  *)
(* the README tells how that is checked.  Then with both writers: types,   *)
(* and that a folder reported as indexed has no pending rows.              *)
(***************************************************************************)
EXTENDS FolderIndex, TLAPS, FiniteSetTheorems

BulkAlone == Writers = {"bulk"}
bulk == writer["bulk"]

\* A row that has a clip_index is marked indexed: nothing skips such a row,
\* because build_index picks rows without a clip_index and nobody else writes
\* the folder's rows meanwhile.
ClipMeansIndexed == \A i \in Ids : row[i].clip => row[i].status = 1

BatchIsFresh ==
    bulk.pc \in {"load", "embed"} => \A i \in bulk.batch : i \in Ids => ~row[i].clip

\* The copy that will replace the file has the vectors of all marked rows.
CopyHasVectors ==
    bulk.pc \in {"embed", "write"} /\ ~torn =>
        \A i \in Ids : row[i].clip => bulk.loaded[i] > 0

\* Rows that are about to be marked have their vectors.
TodoHasVectors ==
    bulk.pc = "commit" /\ index.state = "ok" => \A i \in bulk.todo : index.vec[i] > 0

\* Before the file exists no row is marked, and it exists while a batch is added.
FileExists ==
    /\ index.state = "missing" => \A i \in Ids : ~row[i].clip
    /\ bulk.pc \in {"recover", "embed", "write", "commit"} => index.state # "missing"

Agreement == ClipMeansIndexed /\ BatchIsFresh /\ CopyHasVectors /\ TodoHasVectors /\ FileExists

\* The inductive invariant.
IInv == TypeOK /\ Agreement /\ IndexedHasVector

RowType == [path : Paths, status : 0..2, clip : BOOLEAN] \cup {NoRow}
WriterType == [pc : PCs, scan : SUBSET Paths, files : SUBSET Paths, batch : SUBSET Ids,
               loaded : Vectors, todo : SUBSET Ids, ok : BOOLEAN]

-----------------------------------------------------------------------------
(* Rows, vectors and writers. *)

\* The types in a form the provers use; the only writer is the bulk worker.
LEMMA TypeFacts ==
    ASSUME BulkAlone, TypeOK
    PROVE  /\ row \in [Ids -> RowType]
           /\ writer \in [Writers -> WriterType]
           /\ bulk \in WriterType
           /\ "bulk" \in Writers
           /\ \A w \in Writers : w = "bulk"
           /\ \A i \in Ids : row[i].status \in 0..2 /\ row[i].clip \in BOOLEAN
<1>1. row \in [Ids -> RowType] /\ writer \in [Writers -> WriterType]
  BY DEF TypeOK, RowType, WriterType
<1>2. "bulk" \in Writers /\ \A w \in Writers : w = "bulk"
  BY DEF BulkAlone
<1>3. \A r \in RowType : r.status \in 0..2 /\ r.clip \in BOOLEAN
  <2>1. \A r \in [path : Paths, status : 0..2, clip : BOOLEAN] : r.status \in 0..2 /\ r.clip \in BOOLEAN
    OBVIOUS
  <2>2. NoRow.status \in 0..2 /\ NoRow.clip \in BOOLEAN
    BY DEF NoRow
  <2>3. QED
    BY <2>1, <2>2 DEF RowType
<1>4. bulk \in WriterType
  BY <1>1, <1>2 DEF bulk
<1>5. QED
  BY <1>1, <1>2, <1>3, <1>4

\* A recovery is the bulk worker's.
LEMMA RecoveringFacts ==
    ASSUME BulkAlone
    PROVE  /\ Recovering <=> bulk.pc = "recover"
           /\ Recovering' <=> bulk'.pc = "recover"
  BY DEF BulkAlone, Recovering, bulk

\* The empty values have their types.
LEMMA EmptyFacts ==
    /\ NoVectors \in Vectors
    /\ NoWriter \in WriterType
    /\ NoRow \in RowType
<1>1. MaxCopies \in Nat /\ 0 \in 0..MaxCopies
  BY FolderAssumption
<1>2. NoVectors \in Vectors
  BY <1>1 DEF NoVectors, Vectors
<1>3. QED
  BY <1>2 DEF NoWriter, WriterType, PCs, NoRow, RowType

\* insert_file changes no clip_index, and no status of an indexed row; the new
\* row is pending.
LEMMA InsertFileFacts ==
    ASSUME NEW p \in Paths, TypeOK, InsertFile(p)
    PROVE  /\ row' \in [Ids -> RowType]
           /\ nextId' \in 1..(MaxId + 1)
           /\ \A i \in Ids : row'[i].clip => row[i].clip /\ (row[i].status = 1 => row'[i] = row[i])
<1>1. MaxId \in Nat /\ nextId \in 1..(MaxId + 1) /\ row \in [Ids -> RowType]
  BY FolderAssumption DEF TypeOK, RowType
<1>2. CASE RowsOf(p) = {}
  <2>1. /\ nextId \in Ids /\ nextId' = nextId + 1
        /\ row' = [row EXCEPT ![nextId] = [path |-> p, status |-> 0, clip |-> FALSE]]
    BY <1>1, <1>2 DEF InsertFile, Ids
  <2>2. [path |-> p, status |-> 0, clip |-> FALSE] \in RowType
    BY DEF RowType
  <2>3. nextId' \in 1..(MaxId + 1)
    BY <1>1, <2>1 DEF Ids
  <2>4. QED
    BY <1>1, <2>1, <2>2, <2>3
<1>3. CASE RowsOf(p) # {}
  <2> DEFINE S == {i \in Ids : i \in RowsOf(p) /\ row[i].status = 2}
  <2>1. /\ nextId' = nextId
        /\ row' = [i \in Ids |-> IF i \in S THEN [row[i] EXCEPT !.status = 0] ELSE row[i]]
    BY <1>3 DEF InsertFile
  <2>2. \A i \in S : row[i] \in [path : Paths, status : 0..2, clip : BOOLEAN]
    BY <1>1 DEF RowsOf, Live, RowType
  <2>3. \A i \in S : [row[i] EXCEPT !.status = 0] \in RowType /\ [row[i] EXCEPT !.status = 0].clip = row[i].clip
    BY <2>2 DEF RowType
  <2>4. \A i \in S : row[i].status # 1
    OBVIOUS
  <2> HIDE DEF S
  <2>5. QED
    BY <1>1, <2>1, <2>3, <2>4
<1>4. QED
  BY <1>2, <1>3

\* mark_files_deleted and mark_files_skipped change the status only.
LEMMA MarkedFacts ==
    ASSUME NEW S, TypeOK, row' = Marked(S)
    PROVE  /\ row' \in [Ids -> RowType]
           /\ \A i \in Ids : /\ row'[i].clip = row[i].clip
                             /\ i \notin S => row'[i] = row[i]
<1>1. row \in [Ids -> RowType]
  BY DEF TypeOK, RowType
<1>2. row' = [i \in Ids |-> IF i \in S /\ Live(i) THEN [row[i] EXCEPT !.status = 2] ELSE row[i]]
  BY DEF Marked
<1>3. \A i \in Ids : Live(i) =>
          /\ [row[i] EXCEPT !.status = 2] \in RowType
          /\ [row[i] EXCEPT !.status = 2].clip = row[i].clip
  BY <1>1 DEF Live, RowType
<1>4. QED
  BY <1>1, <1>2, <1>3

\* Whatever the jobs of a batch do, rows of the batch are marked and a part of
\* the batch goes on to be written.
LEMMA EmbedFacts ==
    ASSUME NEW w \in Writers, Embed(w), TypeOK
    PROVE  /\ writer[w].pc = "embed"
           /\ \E S \in SUBSET writer[w].batch : row' = Marked(S)
           /\ \E T \in SUBSET writer[w].batch, b \in BOOLEAN, c \in {"report", "write"} :
                 writer' = [writer EXCEPT ![w].todo = T, ![w].ok = b, ![w].pc = c]
  BY DEF Embed

\* A step of the bulk writer replaces its record.
LEMMA WriterFacts ==
    ASSUME BulkAlone, TypeOK, NEW r \in WriterType, writer' = [writer EXCEPT !["bulk"] = r]
    PROVE  writer' \in [Writers -> WriterType] /\ bulk' = r
  BY TypeFacts DEF bulk

\* IndexWorker starts.
LEMMA BulkStartInv == BulkAlone /\ IInv /\ BulkStart => IInv'
<1> SUFFICES ASSUME BulkAlone, IInv, BulkStart PROVE IInv'
  OBVIOUS
<1>1. TypeOK /\ Agreement /\ IndexedHasVector
  BY DEF IInv
<1>2. /\ row \in [Ids -> RowType] /\ bulk \in WriterType
      /\ writer \in [Writers -> WriterType] /\ "bulk" \in Writers
      /\ \A i \in Ids : row[i].status \in 0..2 /\ row[i].clip \in BOOLEAN
  BY <1>1, TypeFacts
<1> DEFINE r == [NoWriter EXCEPT !.pc = "scan", !.scan = disk]
<1>3. r \in WriterType /\ writer' = [writer EXCEPT !["bulk"] = r]
  BY <1>1, <1>2, EmptyFacts DEF BulkStart, To, bulk, WriterType, PCs, TypeOK
<1>4. writer' \in [Writers -> WriterType] /\ bulk' = r
  BY <1>1, <1>3, WriterFacts
<1>5. r.pc = "scan"
  BY EmptyFacts DEF WriterType
<1> HIDE DEF r
<1>6. TypeOK'
  <2>1. row' = row /\ nextId' = nextId /\ index' = index /\ status' = 0
        /\ disk' = disk /\ events' = events /\ torn' = torn /\ changes' = changes /\ crashes' = crashes
    BY DEF BulkStart, world
  <2>2. wanted' \in BOOLEAN
    BY DEF BulkStart
  <2>3. QED
    BY <1>1, <1>4, <2>1, <2>2 DEF TypeOK, WriterType
<1>7. Agreement' /\ IndexedHasVector'
  BY <1>1, <1>2, <1>4, <1>5, RecoveringFacts
     DEF BulkStart, Agreement, ClipMeansIndexed, BatchIsFresh, CopyHasVectors,
         TodoHasVectors, FileExists, IndexedHasVector, Live, store, world, bulk
<1>8. QED
  BY <1>6, <1>7 DEF IInv

\* create_index_if_needed makes an empty file only where no row is marked.
LEMMA CreateInv == BulkAlone /\ IInv /\ Create("bulk") => IInv'
<1> SUFFICES ASSUME BulkAlone, IInv, Create("bulk") PROVE IInv'
  OBVIOUS
<1>1. TypeOK /\ Agreement /\ IndexedHasVector
  BY DEF IInv
<1>2. /\ row \in [Ids -> RowType] /\ bulk \in WriterType
      /\ writer \in [Writers -> WriterType] /\ "bulk" \in Writers
      /\ \A i \in Ids : row[i].status \in 0..2 /\ row[i].clip \in BOOLEAN
  BY <1>1, TypeFacts
<1> DEFINE r == [bulk EXCEPT !.pc = "pick"]
<1>3. r \in WriterType /\ writer' = [writer EXCEPT !["bulk"] = r]
  BY <1>1, <1>2 DEF Create, To, bulk, WriterType, PCs, TypeOK
<1>4. writer' \in [Writers -> WriterType] /\ bulk' = r
  BY <1>1, <1>3, WriterFacts
<1>5. TypeOK'
  BY <1>1, <1>4, EmptyFacts DEF Create, TypeOK, RowType, WriterType, store, world
<1>6. Agreement' /\ IndexedHasVector'
  BY <1>1, <1>2, <1>4, RecoveringFacts, EmptyFacts
     DEF Create, Agreement, ClipMeansIndexed, BatchIsFresh, CopyHasVectors, TodoHasVectors,
         FileExists, IndexedHasVector, Live, store, world, bulk
<1>7. QED
  BY <1>5, <1>6 DEF IInv

\* The file is replaced by the copy, which has the vectors of all marked rows.
LEMMA WriteInv == BulkAlone /\ IInv /\ Write("bulk") => IInv'
<1> SUFFICES ASSUME BulkAlone, IInv, Write("bulk") PROVE IInv'
  OBVIOUS
<1>1. TypeOK /\ Agreement /\ IndexedHasVector
  BY DEF IInv
<1>2. /\ row \in [Ids -> RowType] /\ bulk \in WriterType
      /\ writer \in [Writers -> WriterType] /\ "bulk" \in Writers
      /\ \A i \in Ids : row[i].status \in 0..2 /\ row[i].clip \in BOOLEAN
  BY <1>1, TypeFacts
<1> DEFINE r == [bulk EXCEPT !.pc = "commit"]
<1>3. r \in WriterType /\ writer' = [writer EXCEPT !["bulk"] = r]
  BY <1>1, <1>2 DEF Write, To, bulk, WriterType, PCs, TypeOK
<1>4. writer' \in [Writers -> WriterType] /\ bulk' = r
  BY <1>1, <1>3, WriterFacts
<1> DEFINE v == [i \in Ids |-> bulk.loaded[i] + (IF i \in bulk.todo THEN 1 ELSE 0)]
<1>5. /\ index' = [state |-> "ok", vec |-> v] /\ bulk.pc = "write"
      /\ \A i \in bulk.todo : bulk.loaded[i] < MaxCopies
  BY DEF Write, bulk
<1>6. index'.state = "ok" /\ index'.vec = v /\ v \in Vectors /\ index' \in [state : {"missing", "corrupt", "ok"}, vec : Vectors]
  <2>1. bulk.loaded \in [Ids -> 0..MaxCopies] /\ bulk.todo \subseteq Ids /\ MaxCopies \in Nat
    BY <1>2, FolderAssumption DEF WriterType, Vectors
  <2>2. \A i \in Ids : v[i] \in 0..MaxCopies
    BY <2>1, <1>5
  <2>3. v \in Vectors
    BY <2>2 DEF Vectors
  <2>4. QED
    BY <1>5, <2>3
<1>7. /\ \A i \in bulk.todo : i \in Ids /\ v[i] > 0
      /\ \A i \in Ids : bulk.loaded[i] > 0 => v[i] > 0
  BY <1>2, FolderAssumption DEF WriterType, Vectors
<1> HIDE DEF v
<1>8. TypeOK'
  <2>1. row' = row /\ nextId' = nextId /\ status' = status /\ wanted' = wanted
        /\ disk' = disk /\ events' = events /\ torn' = torn /\ changes' = changes /\ crashes' = crashes
    BY DEF Write, world
  <2>2. QED
    BY <1>1, <1>4, <1>6, <2>1 DEF TypeOK, WriterType
<1>9. Agreement' /\ IndexedHasVector'
  BY <1>1, <1>2, <1>4, <1>6, <1>7, RecoveringFacts
     DEF Write, Agreement, ClipMeansIndexed, BatchIsFresh, CopyHasVectors, TodoHasVectors,
         FileExists, IndexedHasVector, Live, store, world, bulk
<1>10. QED
  BY <1>8, <1>9 DEF IInv

\* A write that fails leaves the file as it was.
LEMMA WriteFailsInv == BulkAlone /\ IInv /\ WriteFails("bulk") => IInv'
<1> SUFFICES ASSUME BulkAlone, IInv, WriteFails("bulk") PROVE IInv'
  OBVIOUS
<1>1. TypeOK /\ Agreement /\ IndexedHasVector
  BY DEF IInv
<1>2. /\ row \in [Ids -> RowType] /\ bulk \in WriterType
      /\ writer \in [Writers -> WriterType] /\ "bulk" \in Writers
      /\ \A i \in Ids : row[i].status \in 0..2 /\ row[i].clip \in BOOLEAN
  BY <1>1, TypeFacts
<1> DEFINE r == [bulk EXCEPT !.ok = FALSE, !.pc = "report"]
<1>3. r \in WriterType /\ writer' = [writer EXCEPT !["bulk"] = r]
  BY <1>1, <1>2 DEF WriteFails, To, bulk, WriterType, PCs, TypeOK
<1>4. writer' \in [Writers -> WriterType] /\ bulk' = r
  BY <1>1, <1>3, WriterFacts
<1>5. TypeOK'
  BY <1>1, <1>4 DEF WriteFails, TypeOK, RowType, WriterType, store, world
<1>6. Agreement' /\ IndexedHasVector'
  BY <1>1, <1>2, <1>4, RecoveringFacts
     DEF WriteFails, Agreement, ClipMeansIndexed, BatchIsFresh, CopyHasVectors,
         TodoHasVectors, FileExists, IndexedHasVector, Live, store, world, bulk
<1>7. QED
  BY <1>5, <1>6 DEF IInv

\* The end of the worker.
LEMMA ReportInv == BulkAlone /\ IInv /\ Report("bulk") => IInv'
<1> SUFFICES ASSUME BulkAlone, IInv, Report("bulk") PROVE IInv'
  OBVIOUS
<1>1. TypeOK /\ Agreement /\ IndexedHasVector
  BY DEF IInv
<1>2. /\ row \in [Ids -> RowType] /\ bulk \in WriterType
      /\ writer \in [Writers -> WriterType] /\ "bulk" \in Writers
      /\ \A i \in Ids : row[i].status \in 0..2 /\ row[i].clip \in BOOLEAN
  BY <1>1, TypeFacts
<1> DEFINE r == NoWriter
<1>3. r \in WriterType /\ writer' = [writer EXCEPT !["bulk"] = r]
  BY <1>1, <1>2, EmptyFacts DEF Report, To, bulk, WriterType, PCs, TypeOK
<1>4. writer' \in [Writers -> WriterType] /\ bulk' = r
  BY <1>1, <1>3, WriterFacts
<1>5. TypeOK'
  BY <1>1, <1>4 DEF Report, TypeOK, RowType, WriterType, store, world
<1>6. Agreement' /\ IndexedHasVector'
  BY <1>1, <1>2, <1>4, RecoveringFacts, EmptyFacts
     DEF Report, Agreement, ClipMeansIndexed, BatchIsFresh, CopyHasVectors, TodoHasVectors,
         FileExists, IndexedHasVector, Live, store, world, bulk, NoWriter
<1>7. QED
  BY <1>5, <1>6 DEF IInv

\* The second half of the recovery leaves no row marked.
LEMMA RecoverInv == BulkAlone /\ IInv /\ Recover("bulk") => IInv'
<1> SUFFICES ASSUME BulkAlone, IInv, Recover("bulk") PROVE IInv'
  OBVIOUS
<1>1. TypeOK /\ Agreement /\ IndexedHasVector
  BY DEF IInv
<1>2. /\ row \in [Ids -> RowType] /\ bulk \in WriterType
      /\ writer \in [Writers -> WriterType] /\ "bulk" \in Writers
      /\ \A i \in Ids : row[i].status \in 0..2 /\ row[i].clip \in BOOLEAN
  BY <1>1, TypeFacts
<1> DEFINE r == [bulk EXCEPT !.pc = "report"]
<1>3. r \in WriterType /\ writer' = [writer EXCEPT !["bulk"] = r]
  BY <1>1, <1>2 DEF Recover, To, bulk, WriterType, PCs, TypeOK
<1>4. writer' \in [Writers -> WriterType] /\ bulk' = r
  BY <1>1, <1>3, WriterFacts
<1>5. row' \in [Ids -> RowType] /\ \A i \in Ids : ~row'[i].clip
  <2>1. row' = [i \in Ids |-> IF Live(i) /\ row[i].status # 2
                               THEN [path |-> row[i].path, status |-> 0, clip |-> FALSE]
                               ELSE row[i]]
    BY DEF Recover
  <2>2. \A i \in Ids : Live(i) => row[i] \in [path : Paths, status : 0..2, clip : BOOLEAN]
    BY <1>2 DEF Live, RowType
  <2>3. \A r1 \in [path : Paths, status : 0..2, clip : BOOLEAN] :
           [path |-> r1.path, status |-> 0, clip |-> FALSE] \in RowType
    BY DEF RowType
  <2>4. \A i \in Ids : row[i].status = 2 => ~row[i].clip
    BY <1>1 DEF Agreement, ClipMeansIndexed
  <2>5. \A i \in Ids : ~Live(i) => ~row[i].clip
    BY DEF Live, NoRow
  <2>6. QED
    BY <1>2, <2>1, <2>2, <2>3, <2>4, <2>5
<1>6. TypeOK'
  <2>1. nextId' = nextId /\ index' = index /\ status' = 1 /\ wanted' = wanted
        /\ disk' = disk /\ events' = events /\ changes' = changes /\ crashes' = crashes
    BY DEF Recover
  <2>2. torn' \in BOOLEAN
    BY DEF Recover
  <2>3. QED
    BY <1>1, <1>4, <1>5, <2>1, <2>2 DEF TypeOK, WriterType, RowType
<1>7. Agreement' /\ IndexedHasVector'
  BY <1>1, <1>2, <1>4, <1>5, RecoveringFacts
     DEF Recover, Agreement, ClipMeansIndexed, BatchIsFresh, CopyHasVectors, TodoHasVectors,
         FileExists, IndexedHasVector, Live, store, world, bulk
<1>8. QED
  BY <1>6, <1>7 DEF IInv

\* Scanning adds pending rows only.
LEMMA ScanInv == BulkAlone /\ IInv /\ Scan("bulk") => IInv'
<1> SUFFICES ASSUME BulkAlone, IInv, Scan("bulk") PROVE IInv'
  OBVIOUS
<1>1. TypeOK /\ Agreement /\ IndexedHasVector
  BY DEF IInv
<1>2. /\ row \in [Ids -> RowType] /\ bulk \in WriterType
      /\ writer \in [Writers -> WriterType] /\ "bulk" \in Writers
      /\ \A i \in Ids : row[i].status \in 0..2 /\ row[i].clip \in BOOLEAN
  BY <1>1, TypeFacts
<1>3. bulk.pc = "scan" /\ UNCHANGED <<index, wanted, world>>
  BY DEF Scan, bulk
<1>4. CASE bulk.scan = {}
  <2> DEFINE r == [bulk EXCEPT !.pc = "create"]
  <2>1. writer' = [writer EXCEPT !["bulk"] = r] /\ status' = 1 /\ UNCHANGED <<row, nextId>>
    BY <1>2, <1>4 DEF Scan, To, bulk, WriterType
  <2>2. r \in WriterType /\ r.pc = "create"
    BY <1>2 DEF WriterType, PCs
  <2>3. writer' \in [Writers -> WriterType] /\ bulk' = r
    BY <1>1, <2>1, <2>2, WriterFacts
  <2> HIDE DEF r
  <2>4. TypeOK'
    BY <1>1, <1>3, <2>1, <2>3 DEF TypeOK, WriterType, world
  <2>5. Agreement' /\ IndexedHasVector'
    BY <1>1, <1>2, <1>3, <2>1, <2>2, <2>3, RecoveringFacts
       DEF Agreement, ClipMeansIndexed, BatchIsFresh, CopyHasVectors, TodoHasVectors,
           FileExists, IndexedHasVector, Live, world
  <2>6. QED
    BY <2>4, <2>5 DEF IInv
<1>5. CASE bulk.scan # {}
  <2>1. PICK p \in bulk.scan : InsertFile(p) /\ writer' = [writer EXCEPT !["bulk"].scan = @ \ {p}] /\ UNCHANGED status
    BY <1>5 DEF Scan, bulk
  <2>2. p \in Paths
    BY <1>2, <2>1 DEF WriterType
  <2>3. /\ row' \in [Ids -> RowType]
        /\ nextId' \in 1..(MaxId + 1)
        /\ \A i \in Ids : row'[i].clip => row[i].clip /\ (row[i].status = 1 => row'[i] = row[i])
    BY <1>1, <2>1, <2>2, InsertFileFacts
  <2> DEFINE r == [bulk EXCEPT !.scan = @ \ {p}]
  <2>4. r \in WriterType /\ r.pc = "scan" /\ writer' = [writer EXCEPT !["bulk"] = r]
    BY <1>2, <1>3, <2>1 DEF WriterType, bulk
  <2>5. writer' \in [Writers -> WriterType] /\ bulk' = r
    BY <1>1, <2>4, WriterFacts
  <2> HIDE DEF r
  <2>6. TypeOK'
    BY <1>1, <1>3, <2>1, <2>3, <2>5 DEF TypeOK, WriterType, RowType, world
  <2>7. \A i \in Ids : row'[i].clip => row[i].clip /\ row'[i] = row[i]
    BY <1>1, <2>3 DEF Agreement, ClipMeansIndexed
  <2>8. Agreement' /\ IndexedHasVector'
    BY <1>1, <1>2, <1>3, <2>3, <2>4, <2>5, <2>7, RecoveringFacts
       DEF Agreement, ClipMeansIndexed, BatchIsFresh, CopyHasVectors, TodoHasVectors,
           FileExists, IndexedHasVector, Live, world
  <2>9. QED
    BY <2>6, <2>8 DEF IInv
<1>6. QED
  BY <1>4, <1>5

\* A batch has only rows without a clip_index.
LEMMA PickInv == BulkAlone /\ IInv /\ Pick("bulk") => IInv'
<1> SUFFICES ASSUME BulkAlone, IInv, Pick("bulk") PROVE IInv'
  OBVIOUS
<1>1. TypeOK /\ Agreement /\ IndexedHasVector
  BY DEF IInv
<1>2. /\ row \in [Ids -> RowType] /\ bulk \in WriterType
      /\ writer \in [Writers -> WriterType] /\ "bulk" \in Writers
      /\ \A i \in Ids : row[i].status \in 0..2 /\ row[i].clip \in BOOLEAN
  BY <1>1, TypeFacts
<1>3. /\ bulk.pc = "pick"
      /\ UNCHANGED <<store, wanted, world>>
      /\ \E B \in SUBSET Ids, c \in {"report", "load"} :
            /\ \A i \in B : ~row[i].clip
            /\ writer' = [writer EXCEPT !["bulk"].batch = B, !["bulk"].pc = c]
  <2> DEFINE found == FirstIds(Pending, BatchLimit)
             batch == {i \in found : ~row[i].clip}
  <2>1. batch \in SUBSET Ids /\ \A i \in batch : ~row[i].clip
    BY DEF FirstIds, Pending
  <2>2. /\ bulk.pc = "pick"
        /\ UNCHANGED <<store, wanted, world>>
        /\ writer' = [writer EXCEPT !["bulk"].batch = batch,
                                    !["bulk"].pc = IF found = {} THEN "report" ELSE "load"]
    BY DEF Pick, bulk
  <2> HIDE DEF batch, found
  <2>3. (IF found = {} THEN "report" ELSE "load") \in {"report", "load"}
    OBVIOUS
  <2>4. QED
    BY <2>1, <2>2, <2>3
<1>4. PICK B \in SUBSET Ids, c \in {"report", "load"} :
        /\ \A i \in B : ~row[i].clip
        /\ writer' = [writer EXCEPT !["bulk"].batch = B, !["bulk"].pc = c]
  BY <1>3
<1> DEFINE r == [[bulk EXCEPT !.batch = B] EXCEPT !.pc = c]
<1>5. /\ r \in WriterType /\ r.pc = c /\ r.batch = B
      /\ writer' = [writer EXCEPT !["bulk"] = r]
  BY <1>2, <1>4 DEF WriterType, PCs, bulk
<1>6. writer' \in [Writers -> WriterType] /\ bulk' = r
  BY <1>1, <1>5, WriterFacts
<1> HIDE DEF r
<1>7. TypeOK'
  BY <1>1, <1>3, <1>6 DEF TypeOK, WriterType, store, world
<1>8. Agreement' /\ IndexedHasVector'
  BY <1>1, <1>2, <1>3, <1>4, <1>5, <1>6, RecoveringFacts
     DEF Agreement, ClipMeansIndexed, BatchIsFresh, CopyHasVectors, TodoHasVectors,
         FileExists, IndexedHasVector, Live, store, world
<1>9. QED
  BY <1>7, <1>8 DEF IInv

\* A copy is taken from a file that has the vectors of all marked rows, or an
\* unreadable file is replaced by an empty one.
LEMMA LoadInv == BulkAlone /\ IInv /\ Load("bulk") => IInv'
<1> SUFFICES ASSUME BulkAlone, IInv, Load("bulk") PROVE IInv'
  OBVIOUS
<1>1. TypeOK /\ Agreement /\ IndexedHasVector
  BY DEF IInv
<1>2. /\ row \in [Ids -> RowType] /\ bulk \in WriterType
      /\ writer \in [Writers -> WriterType] /\ "bulk" \in Writers
      /\ \A i \in Ids : row[i].status \in 0..2 /\ row[i].clip \in BOOLEAN
  BY <1>1, TypeFacts
<1>3. bulk.pc = "load" /\ UNCHANGED <<row, nextId, status, wanted, world>>
  BY DEF Load, bulk
<1>4. \A i \in Ids : row[i].clip => Live(i)
  BY DEF Live, NoRow
<1> DEFINE l == IF index.state = "ok" THEN index.vec ELSE NoVectors
           b == index.state = "ok"
           c == CASE index.state = "ok" -> "embed"
                  [] index.state = "corrupt" -> "recover"
                  [] index.state = "missing" -> "report"
           r == [[[bulk EXCEPT !.loaded = l] EXCEPT !.ok = b] EXCEPT !.pc = c]
<1>5. /\ l \in Vectors /\ b \in BOOLEAN
      /\ \/ index.state = "ok" /\ c = "embed" /\ l = index.vec /\ index' = index
         \/ index.state = "corrupt" /\ c = "recover" /\ index' = [state |-> "ok", vec |-> NoVectors]
         \/ index.state = "missing" /\ c = "report" /\ index' = index
  <2>1. index.state \in {"missing", "corrupt", "ok"} /\ index.vec \in Vectors
    BY <1>1 DEF TypeOK
  <2>2. l \in Vectors /\ b \in BOOLEAN
    BY <2>1, EmptyFacts
  <2>3. index' = IF index.state = "corrupt" THEN [state |-> "ok", vec |-> NoVectors] ELSE index
    BY DEF Load
  <2>4. QED
    BY <2>1, <2>2, <2>3
<1>6. writer' = [writer EXCEPT !["bulk"].loaded = l, !["bulk"].ok = b, !["bulk"].pc = c]
  BY DEF Load
<1> HIDE DEF l, b, c
<1>7. c \in PCs
  BY <1>5 DEF PCs
<1>8. /\ r \in WriterType /\ r.pc = c /\ r.batch = bulk.batch /\ r.loaded = l
       /\ writer' = [writer EXCEPT !["bulk"] = r]
  BY <1>2, <1>5, <1>6, <1>7 DEF WriterType, bulk
<1>9. writer' \in [Writers -> WriterType] /\ bulk' = r
  BY <1>1, <1>8, WriterFacts
<1> HIDE DEF r
<1>10. TypeOK'
  <2>1. index' \in [state : {"missing", "corrupt", "ok"}, vec : Vectors]
    BY <1>1, <1>5, EmptyFacts DEF TypeOK
  <2>2. QED
    BY <1>1, <1>3, <1>9, <2>1 DEF TypeOK, WriterType, world
<1>11. Agreement' /\ IndexedHasVector'
  BY <1>1, <1>2, <1>3, <1>4, <1>5, <1>8, <1>9, RecoveringFacts
     DEF Agreement, ClipMeansIndexed, BatchIsFresh, CopyHasVectors, TodoHasVectors,
         FileExists, IndexedHasVector, Live, world
<1>12. QED
  BY <1>10, <1>11 DEF IInv

\* A batch that is skipped has no row with a clip_index.
LEMMA EmbedInv == BulkAlone /\ IInv /\ Embed("bulk") => IInv'
<1> SUFFICES ASSUME BulkAlone, IInv, Embed("bulk") PROVE IInv'
  OBVIOUS
<1>1. TypeOK /\ Agreement /\ IndexedHasVector
  BY DEF IInv
<1>2. /\ row \in [Ids -> RowType] /\ bulk \in WriterType
      /\ writer \in [Writers -> WriterType] /\ "bulk" \in Writers
      /\ \A i \in Ids : row[i].status \in 0..2 /\ row[i].clip \in BOOLEAN
  BY <1>1, TypeFacts
<1>3. /\ bulk.pc = "embed" /\ UNCHANGED <<nextId, status, index, wanted, world>>
      /\ \E S \in SUBSET bulk.batch : row' = Marked(S)
      /\ \E T \in SUBSET bulk.batch, b \in BOOLEAN, c \in {"report", "write"} :
            writer' = [writer EXCEPT !["bulk"].todo = T, !["bulk"].ok = b, !["bulk"].pc = c]
  <2>1. UNCHANGED <<nextId, status, index, wanted, world>>
    BY DEF Embed
  <2>2. QED
    BY <1>1, <1>2, <2>1, EmbedFacts DEF bulk
<1>4. PICK S \in SUBSET bulk.batch : row' = Marked(S)
  BY <1>3
<1>5. /\ row' \in [Ids -> RowType]
      /\ \A i \in Ids : row'[i].clip => row[i].clip /\ row'[i] = row[i]
  BY <1>1, <1>3, <1>4, MarkedFacts DEF Agreement, BatchIsFresh
<1>6. PICK T \in SUBSET bulk.batch, b \in BOOLEAN, c \in {"report", "write"} :
        writer' = [writer EXCEPT !["bulk"].todo = T, !["bulk"].ok = b, !["bulk"].pc = c]
  BY <1>3
<1> DEFINE r == [[[bulk EXCEPT !.todo = T] EXCEPT !.ok = b] EXCEPT !.pc = c]
<1>7. T \subseteq Ids /\ c \in PCs
  BY <1>2, <1>6 DEF WriterType, PCs
<1>8. /\ r \in WriterType /\ r.pc = c /\ r.loaded = bulk.loaded
       /\ writer' = [writer EXCEPT !["bulk"] = r]
  BY <1>2, <1>6, <1>7 DEF WriterType, bulk
<1>9. writer' \in [Writers -> WriterType] /\ bulk' = r
  BY <1>1, <1>8, WriterFacts
<1> HIDE DEF r
<1>10. TypeOK'
  BY <1>1, <1>3, <1>5, <1>9 DEF TypeOK, WriterType, RowType, world
<1>11. Agreement' /\ IndexedHasVector'
  BY <1>1, <1>2, <1>3, <1>5, <1>6, <1>8, <1>9, RecoveringFacts
     DEF Agreement, ClipMeansIndexed, BatchIsFresh, CopyHasVectors, TodoHasVectors,
         FileExists, IndexedHasVector, Live, world
<1>12. QED
  BY <1>10, <1>11 DEF IInv

\* A row is marked when the file has its vector.
LEMMA CommitInv == BulkAlone /\ IInv /\ Commit("bulk") => IInv'
<1> SUFFICES ASSUME BulkAlone, IInv, Commit("bulk") PROVE IInv'
  OBVIOUS
<1>1. TypeOK /\ Agreement /\ IndexedHasVector
  BY DEF IInv
<1>2. /\ row \in [Ids -> RowType] /\ bulk \in WriterType
      /\ writer \in [Writers -> WriterType] /\ "bulk" \in Writers
      /\ \A i \in Ids : row[i].status \in 0..2 /\ row[i].clip \in BOOLEAN
  BY <1>1, TypeFacts
<1>3. bulk.pc = "commit" /\ UNCHANGED <<nextId, status, index, wanted, world>>
  BY DEF Commit, bulk
<1>4. CASE bulk.todo = {}
  <2> DEFINE c == IF "bulk" = "bulk" /\ bulk.ok THEN "pick" ELSE "report"
             r == [bulk EXCEPT !.pc = c]
  <2>1. writer' = [writer EXCEPT !["bulk"].pc = c] /\ UNCHANGED row
    BY <1>4 DEF Commit, To, bulk
  <2>2. c \in {"pick", "report"}
    OBVIOUS
  <2> HIDE DEF c
  <2>3. r \in WriterType /\ r.pc = c /\ writer' = [writer EXCEPT !["bulk"] = r]
    BY <1>2, <2>1, <2>2 DEF WriterType, PCs, bulk
  <2>4. writer' \in [Writers -> WriterType] /\ bulk' = r
    BY <1>1, <2>3, WriterFacts
  <2> HIDE DEF r
  <2>5. TypeOK'
    BY <1>1, <1>3, <2>1, <2>4 DEF TypeOK, WriterType, world
  <2>6. Agreement' /\ IndexedHasVector'
    BY <1>1, <1>2, <1>3, <2>1, <2>2, <2>3, <2>4, RecoveringFacts
       DEF Agreement, ClipMeansIndexed, BatchIsFresh, CopyHasVectors, TodoHasVectors,
           FileExists, IndexedHasVector, Live, world
  <2>7. QED
    BY <2>5, <2>6 DEF IInv
<1>5. CASE bulk.todo # {}
  <2>1. PICK i \in bulk.todo :
          /\ row' = IF Live(i)
                    THEN [row EXCEPT ![i] = [path |-> row[i].path, status |-> 1, clip |-> TRUE]]
                    ELSE row
          /\ writer' = [writer EXCEPT !["bulk"].todo = @ \ {i}]
    BY <1>5 DEF Commit, bulk
  <2>2. i \in Ids /\ (index.state = "ok" => index.vec[i] > 0) /\ index.state # "missing"
    BY <1>1, <1>2, <1>3, <2>1 DEF WriterType, Agreement, TodoHasVectors, FileExists
  <2> DEFINE new == [path |-> row[i].path, status |-> 1, clip |-> TRUE]
  <2>3. Live(i) => new \in RowType
    BY <1>2, <2>2 DEF Live, RowType
  <2>4. /\ row' \in [Ids -> RowType]
        /\ \A j \in Ids : row'[j] = row[j] \/ (j = i /\ row'[j].clip /\ row'[j].status = 1)
    BY <1>2, <2>1, <2>2, <2>3
  <2> HIDE DEF new
  <2> DEFINE r == [bulk EXCEPT !.todo = @ \ {i}]
  <2>5. /\ r \in WriterType /\ r.pc = "commit" /\ r.todo = bulk.todo \ {i}
        /\ writer' = [writer EXCEPT !["bulk"] = r]
    BY <1>2, <1>3, <2>1 DEF WriterType, bulk
  <2>6. writer' \in [Writers -> WriterType] /\ bulk' = r
    BY <1>1, <2>5, WriterFacts
  <2> HIDE DEF r
  <2>7. TypeOK'
    BY <1>1, <1>3, <2>4, <2>6 DEF TypeOK, WriterType, RowType, world
  <2>8. Agreement' /\ IndexedHasVector'
    BY <1>1, <1>2, <1>3, <2>2, <2>4, <2>5, <2>6, RecoveringFacts
       DEF Agreement, ClipMeansIndexed, BatchIsFresh, CopyHasVectors, TodoHasVectors,
           FileExists, IndexedHasVector, Live, world
  <2>9. QED
    BY <2>7, <2>8 DEF IInv
<1>6. QED
  BY <1>4, <1>5

-----------------------------------------------------------------------------
(* Users, the disk and the process. *)

\* An action that leaves the rows, the file and the writers alone.
LEMMA QuietFacts ==
    ASSUME BulkAlone, IInv, UNCHANGED <<row, nextId, index, writer, torn, crashes>>,
           status' \in 0..3, disk' \subseteq Paths, wanted' \in BOOLEAN,
           events' \in [Paths -> SUBSET {"created", "deleted"}], changes' \in 0..MaxChanges
    PROVE  IInv'
  BY DEF IInv, TypeOK, Recovering, bulk, Agreement, ClipMeansIndexed, BatchIsFresh, CopyHasVectors, TodoHasVectors, FileExists, IndexedHasVector, Live

\* A file that appears or disappears does not touch the rows or the FAISS file.
LEMMA ChangeInv ==
    ASSUME BulkAlone, IInv, NEW p \in Paths, CreateFile(p) \/ DeleteFile(p)
    PROVE  IInv'
<1>1. TypeOK
  BY DEF IInv
<1>2. \E new \in SUBSET {"created", "deleted"} : Change(p, new)
  <2>1. events[p] \cup {"created"} \in SUBSET {"created", "deleted"}
    BY <1>1 DEF TypeOK
  <2>2. {"deleted"} \in SUBSET {"created", "deleted"}
    OBVIOUS
  <2>3. QED
    BY <2>1, <2>2 DEF CreateFile, DeleteFile
<1>3. PICK new \in SUBSET {"created", "deleted"} : Change(p, new)
  BY <1>2
<1>4. events' \in [Paths -> SUBSET {"created", "deleted"}]
  BY <1>1, <1>3 DEF Change, TypeOK
<1>5. changes' \in 0..MaxChanges
  BY <1>1, <1>3, FolderAssumption DEF Change, TypeOK
<1>6. disk' \subseteq Paths
  BY <1>1 DEF CreateFile, DeleteFile, TypeOK
<1>7. UNCHANGED <<row, nextId, index, writer, torn, crashes, status, wanted>>
  BY <1>3 DEF Change, store
<1>8. QED
  BY <1>1, <1>4, <1>5, <1>6, <1>7, QuietFacts DEF TypeOK

\* The rows of a deleted file go, its vectors stay.
LEMMA FileDeletedInv ==
    ASSUME BulkAlone, IInv, NEW p \in Paths, FileDeleted(p)
    PROVE  IInv'
<1>1. TypeOK /\ Agreement /\ IndexedHasVector
  BY DEF IInv
<1>2. /\ row' \in [Ids -> RowType]
      /\ \A i \in Ids : row'[i].clip => row'[i] = row[i]
  <2>1. row' = [i \in Ids |-> IF i \in RowsOf(p) THEN NoRow ELSE row[i]]
    BY DEF FileDeleted
  <2>2. row \in [Ids -> RowType] /\ NoRow \in RowType /\ ~NoRow.clip
    BY <1>1, TypeFacts, EmptyFacts DEF NoRow
  <2> HIDE DEF NoRow, RowType
  <2>3. QED
    BY <2>1, <2>2
<1>3. UNCHANGED <<nextId, status, index, wanted, writer, disk, torn, changes, crashes>>
  BY DEF FileDeleted
<1>4. events' \in [Paths -> SUBSET {"created", "deleted"}]
  BY <1>1 DEF FileDeleted, TypeOK
<1>5. TypeOK'
  BY <1>1, <1>2, <1>3, <1>4 DEF TypeOK, RowType
<1>6. Agreement' /\ IndexedHasVector'
  BY <1>1, <1>2, <1>3
     DEF Recovering, bulk, Agreement, ClipMeansIndexed, BatchIsFresh, CopyHasVectors,
         TodoHasVectors, FileExists, IndexedHasVector, Live
<1>7. QED
  BY <1>5, <1>6 DEF IInv

\* A user's re-index only sets the status and asks for a worker.
LEMMA ReindexInv ==
    ASSUME BulkAlone, IInv, Reindex
    PROVE  IInv'
<1>1. TypeOK
  BY DEF IInv
<1>2. wanted' \in BOOLEAN
  BY DEF Reindex
<1>3. status' \in 0..3 /\ UNCHANGED <<row, nextId, index, writer, disk, events, torn, changes, crashes>>
  BY DEF Reindex, world
<1>4. QED
  BY <1>1, <1>2, <1>3, QuietFacts DEF TypeOK

\* An unreadable file promises nothing.
LEMMA CorruptIndexInv ==
    ASSUME BulkAlone, IInv, CorruptIndex
    PROVE  IInv'
<1>1. TypeOK /\ Agreement /\ IndexedHasVector
  BY DEF IInv
<1>2. /\ index.state = "ok" /\ index'.state = "corrupt"
      /\ index' \in [state : {"missing", "corrupt", "ok"}, vec : Vectors]
      /\ UNCHANGED <<row, nextId, status, wanted, writer, disk, events, torn, changes, crashes>>
  BY EmptyFacts DEF CorruptIndex, world
<1>3. TypeOK'
  BY <1>1, <1>2 DEF TypeOK
<1>4. Agreement' /\ IndexedHasVector'
  BY <1>1, <1>2
     DEF Recovering, bulk, Agreement, ClipMeansIndexed, BatchIsFresh, CopyHasVectors,
         TodoHasVectors, FileExists, IndexedHasVector, Live
<1>5. QED
  BY <1>3, <1>4 DEF IInv

\* The copies are lost; a crash in the middle of a recovery is remembered.
LEMMA CrashInv ==
    ASSUME BulkAlone, IInv, Crash
    PROVE  IInv'
<1>1. TypeOK /\ Agreement /\ IndexedHasVector
  BY DEF IInv
<1>2. /\ UNCHANGED <<row, nextId, status, index, disk, changes>>
      /\ crashes' \in 0..MaxCrashes
  BY <1>1, FolderAssumption DEF Crash, store, TypeOK
<1>3. events' \in [Paths -> SUBSET {"created", "deleted"}]
  BY DEF Crash
<1>4. wanted' \in BOOLEAN
  BY DEF Crash
<1>5. torn' \in BOOLEAN /\ (~torn' => ~torn /\ ~Recovering)
  BY DEF Crash
<1>6. /\ writer' \in [Writers -> WriterType]
      /\ \A w \in Writers : writer'[w].pc = "idle"
      /\ "bulk" \in Writers
  BY EmptyFacts DEF Crash, NoWriter, BulkAlone
<1>7. TypeOK'
  BY <1>1, <1>2, <1>3, <1>4, <1>5, <1>6 DEF TypeOK, WriterType
<1>8. Agreement' /\ IndexedHasVector'
  BY <1>1, <1>2, <1>5, <1>6
     DEF bulk, Agreement, ClipMeansIndexed, BatchIsFresh, CopyHasVectors, TodoHasVectors,
         FileExists, IndexedHasVector, Live
<1>9. QED
  BY <1>7, <1>8 DEF IInv

-----------------------------------------------------------------------------
(* The invariant. *)

\* A folder that has just been registered has no rows and no file.
LEMMA InitInv == BulkAlone /\ Init => IInv
<1> SUFFICES ASSUME BulkAlone, Init PROVE IInv
  OBVIOUS
<1>1. /\ row = [i \in Ids |-> NoRow] /\ NoRow \in RowType /\ ~NoRow.clip
      /\ writer = [w \in Writers |-> NoWriter] /\ NoWriter \in WriterType /\ NoWriter.pc = "idle"
      /\ "bulk" \in Writers
  BY EmptyFacts DEF Init, NoRow, NoWriter, BulkAlone
<1>2. index = [state |-> "missing", vec |-> NoVectors] /\ NoVectors \in Vectors
  BY EmptyFacts DEF Init
<1>3. nextId \in 1..(MaxId + 1) /\ changes \in 0..MaxChanges /\ crashes \in 0..MaxCrashes
  BY FolderAssumption DEF Init
<1>4. status \in 0..3 /\ disk \subseteq Paths /\ events \in [Paths -> SUBSET {"created", "deleted"}]
  BY DEF Init
<1>5. wanted \in BOOLEAN /\ torn \in BOOLEAN
  BY DEF Init
<1>6. TypeOK
  <2>1. row \in [Ids -> RowType] /\ writer \in [Writers -> WriterType]
    BY <1>1
  <2>2. index \in [state : {"missing", "corrupt", "ok"}, vec : Vectors]
    BY <1>2
  <2>3. QED
    BY <1>3, <1>4, <1>5, <2>1, <2>2 DEF TypeOK, RowType, WriterType
<1>7. Agreement /\ IndexedHasVector
  BY <1>1, <1>2
     DEF bulk, Agreement, ClipMeansIndexed, BatchIsFresh, CopyHasVectors, TodoHasVectors,
         FileExists, IndexedHasVector, Live
<1>8. QED
  BY <1>6, <1>7 DEF IInv

\* Every step of the bulk worker.
LEMMA WriterStepInv == BulkAlone /\ IInv /\ WriterStep("bulk") => IInv'
  BY ScanInv, CreateInv, PickInv, LoadInv, RecoverInv, EmbedInv, WriteInv, WriteFailsInv, CommitInv, ReportInv
     DEF WriterStep

\* Every step of the folder.
LEMMA NextInv == BulkAlone /\ IInv /\ [Next]_vars => IInv'
<1> SUFFICES ASSUME BulkAlone, IInv, [Next]_vars PROVE IInv'
  OBVIOUS
<1>1. CASE UNCHANGED vars
  BY <1>1
     DEF vars, IInv, TypeOK, Recovering, bulk, Agreement, ClipMeansIndexed, BatchIsFresh,
         CopyHasVectors, TodoHasVectors, FileExists, IndexedHasVector, Live
<1>2. CASE BulkStart
  BY <1>2, BulkStartInv
<1>3. CASE \E P \in SUBSET Paths : AppendStart(P)
  BY <1>3 DEF AppendStart, BulkAlone
<1>4. CASE \E w \in Writers : WriterStep(w)
  BY <1>4, WriterStepInv DEF BulkAlone
<1>5. CASE \E p \in Paths : CreateFile(p) \/ DeleteFile(p) \/ FileDeleted(p)
  BY <1>5, ChangeInv, FileDeletedInv
<1>6. CASE Reindex \/ CorruptIndex \/ Crash
  BY <1>6, ReindexInv, CorruptIndexInv, CrashInv
<1>7. QED
  BY <1>1, <1>2, <1>3, <1>4, <1>5, <1>6 DEF Next

-----------------------------------------------------------------------------
(* The theorems. *)

\* The inductive invariant holds in every reachable state of a folder whose only
\* indexing thread is the IndexWorker (build_index of dts_index.py).
THEOREM Invariance == BulkAlone => (Spec => []IInv)
<1>1. BulkAlone /\ Init => IInv
  BY InitInv
<1>2. BulkAlone /\ IInv /\ [Next]_vars => IInv'
  BY NextInv
<1>3. SUFFICES ASSUME BulkAlone PROVE Spec => []IInv
  OBVIOUS
<1>4. Init => IInv
  BY <1>1, <1>3
<1>5. IInv /\ [Next]_vars => IInv'
  BY <1>2, <1>3
<1>6. QED
  BY <1>4, <1>5, PTL DEF Spec

\* Every variable keeps its type; in particular the copy of a FAISS file never has
\* more vectors of an id than the file may have, and a batch has ids of rows only.
THEOREM BulkTypeCorrect == BulkAlone => (Spec => []TypeOK)
<1>1. IInv => TypeOK
  BY DEF IInv
<1>2. QED
  BY <1>1, Invariance, PTL

\* A row with a clip_index has its vector in the FAISS file, through any number
\* of scans, failed and skipped batches, damaged files, deletions and crashes,
\* for any images and batch sizes: build_index replaces the file before it marks
\* the rows, and nobody else replaces it between _add_to_index's read and write.
THEOREM BulkIndexedHasVector == BulkAlone => (Spec => []IndexedHasVector)
<1>1. IInv => IndexedHasVector
  BY DEF IInv
<1>2. QED
  BY <1>1, Invariance, PTL

-----------------------------------------------------------------------------
(* The refinement of ImageCatalog. *)

\* The file that is missing or unreadable has no vectors, ids are given in order,
\* a recovery starts from an empty file, and the copy of a batch has every vector
\* that the file has: what a step of the writer may not take from a search.
Blank == index.state # "ok" => \A i \in Ids : index.vec[i] = 0
IdsFresh == \A i \in Ids : i >= nextId => row[i] = NoRow
Emptied == bulk.pc = "recover" => \A i \in Ids : index.vec[i] = 0
CopyHasFound ==
    bulk.pc \in {"embed", "write"} => \A i \in Ids : index.vec[i] > 0 => bulk.loaded[i] > 0

\* The invariant of the refinement.
RInv == IInv /\ Blank /\ IdsFresh /\ Emptied /\ CopyHasFound

\* A search finds the image of id i.
Hit(i) == row[i] # NoRow /\ row[i].status = 1 /\ row[i].clip /\ index.vec[i] > 0

\* No hit of a search is lost in this step.
KeepsHits ==
    \A i \in Ids : Hit(i) => /\ row'[i] # NoRow /\ row'[i].path = row[i].path
                             /\ row'[i].status = 1 /\ row'[i].clip
                             /\ index'.vec[i] > 0

CatalogStep == [Catalog!Next]_<<Searchable, Deleted, index.state = "corrupt">>

\* insert_file takes a fresh id or revives a removed row: it touches no indexed
\* row, and leaves the higher ids free.
LEMMA InsertFileKeeps ==
    ASSUME NEW p \in Paths, TypeOK, IdsFresh, InsertFile(p)
    PROVE  /\ \A i \in Ids : row[i] # NoRow /\ row[i].status = 1 => row'[i] = row[i]
           /\ IdsFresh'
<1>1. MaxId \in Nat /\ nextId \in 1..(MaxId + 1) /\ row \in [Ids -> RowType]
  BY FolderAssumption DEF TypeOK, RowType
<1>2. CASE RowsOf(p) = {}
  <2>1. /\ nextId \in Ids /\ nextId' = nextId + 1
        /\ row' = [row EXCEPT ![nextId] = [path |-> p, status |-> 0, clip |-> FALSE]]
    BY <1>1, <1>2 DEF InsertFile, Ids
  <2>2. row[nextId] = NoRow
    BY <1>1, <2>1 DEF IdsFresh, Ids
  <2>3. \A i \in Ids : i # nextId => row'[i] = row[i]
    BY <1>1, <2>1
  <2>4. \A i \in Ids : i >= nextId' => i # nextId /\ i >= nextId
    BY <1>1, <2>1 DEF Ids
  <2>5. QED
    BY <2>2, <2>3, <2>4 DEF IdsFresh
<1>3. CASE RowsOf(p) # {}
  <2>1. /\ nextId' = nextId
        /\ row' = [i \in Ids |-> IF i \in RowsOf(p) /\ row[i].status = 2
                                 THEN [row[i] EXCEPT !.status = 0] ELSE row[i]]
    BY <1>3 DEF InsertFile
  <2>2. \A i \in Ids : row[i].status = 1 => row'[i] = row[i]
    BY <2>1
  <2>3. \A i \in Ids : row[i] = NoRow => row'[i] = row[i]
    BY <2>1 DEF RowsOf, Live
  <2>4. QED
    BY <2>1, <2>2, <2>3 DEF IdsFresh
<1>4. QED
  BY <1>2, <1>3

\* A step that keeps the hits, the reports and the damage is a publication, or
\* changes nothing that a search can see.
LEMMA PublishStep ==
    ASSUME RInv, RInv', KeepsHits, Deleted' = Deleted,
           index'.state = "corrupt" <=> index.state = "corrupt"
    PROVE  CatalogStep
<1>1. Searchable \subseteq Searchable'
  BY DEF KeepsHits, Hit, Searchable, RowsOf, Live
<1>2. (index.state = "corrupt")' = (index.state = "corrupt")
  OBVIOUS
<1>3. CASE index.state = "corrupt"
  <2>1. Searchable = {}
    BY <1>3 DEF RInv, Blank, Searchable, RowsOf
  <2>2. Searchable' = {}
    BY <1>3 DEF RInv, Blank, Searchable, RowsOf
  <2>3. QED
    BY <1>2, <2>1, <2>2 DEF CatalogStep
<1>4. CASE index.state # "corrupt"
  <2>1. Searchable' \in SUBSET Paths /\ Searchable' = Searchable \cup Searchable'
    BY <1>1 DEF Searchable
  <2>2. Catalog!Publish(Searchable')
    BY <1>2, <1>4, <2>1 DEF Catalog!Publish
  <2>3. QED
    BY <2>1, <2>2 DEF CatalogStep, Catalog!Next
<1>5. QED
  BY <1>3, <1>4

\* The reports of deletions depend on the events only.
LEMMA DeletedSame == ASSUME UNCHANGED events PROVE Deleted' = Deleted
  BY DEF Deleted

\* A step that leaves the rows and the file alone loses no hit.
LEMMA SameKeeps == ASSUME UNCHANGED <<row, index>> PROVE KeepsHits
  BY DEF KeepsHits, Hit

\* While no recovery is under way and no batch is held, the copy says nothing.
LEMMA OutsideBatch ==
    ASSUME bulk'.pc \notin {"recover", "embed", "write"}
    PROVE  Emptied' /\ CopyHasFound'
  BY DEF Emptied, CopyHasFound, bulk

\* Where each step of the worker that keeps no copy leaves it.
LEMMA PlainPcs ==
    ASSUME BulkAlone, TypeOK,
           BulkStart \/ Scan("bulk") \/ Create("bulk") \/ Pick("bulk") \/ Recover("bulk")
           \/ Write("bulk") \/ WriteFails("bulk") \/ Commit("bulk") \/ Report("bulk") \/ Crash
    PROVE  bulk'.pc \notin {"recover", "embed", "write"}
<1>1. writer \in [Writers -> WriterType] /\ "bulk" \in Writers
  BY TypeFacts
<1>2. NoWriter \in WriterType /\ NoWriter.pc = "idle"
  BY EmptyFacts DEF NoWriter
<1>3. CASE BulkStart
  <2> DEFINE r == [NoWriter EXCEPT !.pc = "scan", !.scan = disk]
  <2>1. writer' = [writer EXCEPT !["bulk"] = r]
    BY <1>3 DEF BulkStart
  <2>2. r.pc = "scan"
    BY <1>2 DEF WriterType
  <2> HIDE DEF r
  <2>3. QED
    BY <1>1, <2>1, <2>2 DEF bulk
<1>4. CASE Scan("bulk")
  <2>1. CASE writer["bulk"].scan = {}
    BY <1>1, <1>4, <2>1 DEF Scan, To, bulk, WriterType
  <2>2. CASE writer["bulk"].scan # {}
    <3>1. PICK p \in writer["bulk"].scan : writer' = [writer EXCEPT !["bulk"].scan = @ \ {p}]
      BY <1>4, <2>2 DEF Scan
    <3>2. writer["bulk"].pc = "scan"
      BY <1>4 DEF Scan
    <3>3. QED
      BY <1>1, <3>1, <3>2 DEF bulk, WriterType
  <2>3. QED
    BY <2>1, <2>2
<1>5. CASE Create("bulk") \/ Recover("bulk") \/ Write("bulk")
  <2>1. \E c \in {"pick", "report", "commit"} : writer' = [writer EXCEPT !["bulk"].pc = c]
    BY <1>5 DEF Create, Recover, Write, To
  <2>2. QED
    BY <1>1, <2>1 DEF bulk, WriterType
<1>6. CASE Pick("bulk")
  <2>1. \E B, c : c \in {"report", "load"} /\
          writer' = [writer EXCEPT !["bulk"].batch = B, !["bulk"].pc = c]
    BY <1>6 DEF Pick
  <2>2. PICK B, c : c \in {"report", "load"} /\
          writer' = [writer EXCEPT !["bulk"].batch = B, !["bulk"].pc = c]
    BY <2>1
  <2>3. writer'["bulk"].pc = c
    BY <1>1, <2>2 DEF WriterType
  <2>4. QED
    BY <2>2, <2>3 DEF bulk
<1>7. CASE WriteFails("bulk")
  <2>1. writer' = [writer EXCEPT !["bulk"].ok = FALSE, !["bulk"].pc = "report"]
    BY <1>7 DEF WriteFails
  <2>2. QED
    BY <1>1, <2>1 DEF bulk, WriterType
<1>8. CASE Commit("bulk")
  <2>1. CASE writer["bulk"].todo = {}
    <3>1. \E c \in {"pick", "report"} : writer' = [writer EXCEPT !["bulk"].pc = c]
      BY <1>8, <2>1 DEF Commit, To
    <3>2. QED
      BY <1>1, <3>1 DEF bulk, WriterType
  <2>2. CASE writer["bulk"].todo # {}
    <3>1. PICK i \in writer["bulk"].todo : writer' = [writer EXCEPT !["bulk"].todo = @ \ {i}]
      BY <1>8, <2>2 DEF Commit
    <3>2. writer["bulk"].pc = "commit"
      BY <1>8 DEF Commit
    <3>3. QED
      BY <1>1, <3>1, <3>2 DEF bulk, WriterType
  <2>3. QED
    BY <2>1, <2>2
<1>9. CASE Report("bulk")
  BY <1>1, <1>2, <1>9 DEF Report, bulk
<1>10. CASE Crash
  BY <1>1, <1>2, <1>10 DEF Crash, bulk
<1>11. QED
  BY <1>3, <1>4, <1>5, <1>6, <1>7, <1>8, <1>9, <1>10

\* A step that leaves the file, the rows and the next id alone.
LEMMA PlainStep ==
    ASSUME BulkAlone, RInv, IInv', UNCHANGED <<row, nextId, index>>, Deleted' = Deleted,
           bulk'.pc \notin {"recover", "embed", "write"} \/ bulk' = bulk
    PROVE  RInv' /\ CatalogStep
<1>1. Blank' /\ IdsFresh'
  BY DEF RInv, Blank, IdsFresh
<1>2. Emptied' /\ CopyHasFound'
  BY OutsideBatch DEF RInv, Emptied, CopyHasFound, bulk
<1>3. RInv'
  BY <1>1, <1>2 DEF RInv
<1>4. QED
  BY <1>3, SameKeeps, PublishStep

\* Scanning inserts pending rows.
LEMMA ScanStep ==
    ASSUME BulkAlone, RInv, IInv', Scan("bulk")
    PROVE  RInv' /\ CatalogStep
<1>1. TypeOK /\ IdsFresh /\ Blank
  BY DEF RInv, IInv
<1>2. bulk'.pc \notin {"recover", "embed", "write"}
  BY <1>1, PlainPcs
<1>3. index' = index /\ Deleted' = Deleted
  BY DeletedSame DEF Scan, world
<1>4. CASE writer["bulk"].scan = {}
  BY <1>2, <1>3, <1>4, PlainStep DEF Scan
<1>5. CASE writer["bulk"].scan # {}
  <2>1. PICK p \in writer["bulk"].scan : InsertFile(p)
    BY <1>5 DEF Scan
  <2>2. p \in Paths
    BY <1>1, <2>1, TypeFacts DEF WriterType, bulk
  <2>3. /\ \A i \in Ids : row[i] # NoRow /\ row[i].status = 1 => row'[i] = row[i]
        /\ IdsFresh'
    BY <1>1, <2>1, <2>2, InsertFileKeeps
  <2>4. KeepsHits
    BY <1>3, <2>3 DEF KeepsHits, Hit
  <2>5. RInv'
    BY <1>1, <1>2, <1>3, <2>3, OutsideBatch DEF RInv, Blank
  <2>6. QED
    BY <1>3, <2>4, <2>5, PublishStep
<1>6. QED
  BY <1>4, <1>5

\* The empty file that is created has no hit, as the missing one had none.
LEMMA CreateStep ==
    ASSUME BulkAlone, RInv, IInv', Create("bulk")
    PROVE  RInv' /\ CatalogStep
<1>1. TypeOK /\ IdsFresh /\ Blank
  BY DEF RInv, IInv
<1>2. bulk'.pc \notin {"recover", "embed", "write"}
  BY <1>1, PlainPcs
<1>3. UNCHANGED <<row, nextId>> /\ Deleted' = Deleted
  BY DeletedSame DEF Create, world
<1>4. \/ index' = index
      \/ index.state = "missing" /\ index' = [state |-> "ok", vec |-> NoVectors]
  BY DEF Create
<1>5. \A i \in Ids : Hit(i) => index'.vec[i] > 0
  BY <1>1, <1>4 DEF Hit, Blank
<1>6. KeepsHits
  BY <1>3, <1>5 DEF KeepsHits, Hit
<1>7. Blank' /\ IdsFresh'
  BY <1>1, <1>3, <1>4 DEF Blank, IdsFresh
<1>8. RInv'
  BY <1>2, <1>7, OutsideBatch DEF RInv
<1>9. QED
  BY <1>3, <1>4, <1>6, <1>8, PublishStep

\* The second half of the recovery: the file has been emptied already.
LEMMA RecoverStep ==
    ASSUME BulkAlone, RInv, IInv', Recover("bulk")
    PROVE  RInv' /\ CatalogStep
<1>1. TypeOK /\ IdsFresh /\ Blank
  BY DEF RInv, IInv
<1>2. bulk'.pc \notin {"recover", "embed", "write"}
  BY <1>1, PlainPcs
<1>3. UNCHANGED <<nextId, index>> /\ Deleted' = Deleted
  BY DeletedSame DEF Recover
<1>4. KeepsHits
  BY DEF RInv, Emptied, Recover, KeepsHits, Hit, bulk
<1>5. \A i \in Ids : row[i] = NoRow => row'[i] = NoRow
  BY DEF Recover, Live
<1>6. Blank' /\ IdsFresh'
  BY <1>1, <1>3, <1>5 DEF Blank, IdsFresh
<1>7. RInv'
  BY <1>2, <1>6, OutsideBatch DEF RInv
<1>8. QED
  BY <1>3, <1>4, <1>7, PublishStep

\* A file that was damaged is repaired by being emptied.
LEMMA LoadStep ==
    ASSUME BulkAlone, RInv, IInv', Load("bulk")
    PROVE  RInv' /\ CatalogStep
<1>1. TypeOK /\ IdsFresh /\ Blank
  BY DEF RInv, IInv
<1>2. UNCHANGED <<row, nextId>> /\ Deleted' = Deleted
  BY DeletedSame DEF Load, world
<1>3. /\ index.state = "ok" => bulk'.pc = "embed" /\ bulk'.loaded = index.vec
      /\ index.state = "corrupt" => bulk'.pc = "recover"
      /\ index.state = "missing" => bulk'.pc = "report"
  <2>1. \E v, b, c :
           /\ writer' = [writer EXCEPT !["bulk"].loaded = v, !["bulk"].ok = b, !["bulk"].pc = c]
           /\ index.state = "ok" => c = "embed" /\ v = index.vec
           /\ index.state = "corrupt" => c = "recover"
           /\ index.state = "missing" => c = "report"
    BY DEF Load
  <2>2. PICK v, b, c :
           /\ writer' = [writer EXCEPT !["bulk"].loaded = v, !["bulk"].ok = b, !["bulk"].pc = c]
           /\ index.state = "ok" => c = "embed" /\ v = index.vec
           /\ index.state = "corrupt" => c = "recover"
           /\ index.state = "missing" => c = "report"
    BY <2>1
  <2>3. writer \in [Writers -> WriterType] /\ "bulk" \in Writers
    BY <1>1, TypeFacts
  <2>4. writer'["bulk"].pc = c /\ writer'["bulk"].loaded = v
    BY <2>2, <2>3 DEF WriterType
  <2>5. QED
    BY <2>2, <2>4 DEF bulk
<1>4. index.state \in {"missing", "corrupt", "ok"}
  BY <1>1 DEF TypeOK
<1>5. IdsFresh'
  BY <1>1, <1>2 DEF IdsFresh
<1>6. CASE index.state = "corrupt"
  <2>1. index' = [state |-> "ok", vec |-> NoVectors]
    BY <1>6 DEF Load
  <2>2. \A i \in Ids : index'.vec[i] = 0
    BY <2>1 DEF NoVectors
  <2>3. RInv'
    BY <1>3, <1>5, <1>6, <2>2 DEF RInv, Blank, Emptied, CopyHasFound, bulk
  <2>4. Searchable' = {}
    BY <2>2 DEF Searchable, RowsOf
  <2>5. Catalog!Repair({})
    BY <1>2, <1>6, <2>1, <2>4 DEF Catalog!Repair
  <2>6. QED
    BY <2>3, <2>5 DEF CatalogStep, Catalog!Next
<1>7. CASE index.state # "corrupt"
  <2>1. index' = index
    BY <1>7 DEF Load
  <2>2. Blank'
    BY <1>1, <2>1 DEF Blank
  <2>3. Emptied' /\ CopyHasFound'
    BY <1>3, <1>4, <1>7, <2>1 DEF Emptied, CopyHasFound, bulk
  <2>4. RInv'
    BY <1>5, <2>2, <2>3 DEF RInv
  <2>5. QED
    BY <1>2, <2>1, <2>4, SameKeeps, PublishStep
<1>8. QED
  BY <1>6, <1>7

\* The rows of a batch that are skipped had no clip_index, so no search found them.
LEMMA EmbedStep ==
    ASSUME BulkAlone, RInv, IInv', Embed("bulk")
    PROVE  RInv' /\ CatalogStep
<1>1. TypeOK /\ IdsFresh /\ Blank /\ "bulk" \in Writers
  BY TypeFacts DEF RInv, IInv
<1>2. UNCHANGED <<nextId, index>> /\ Deleted' = Deleted
  BY DeletedSame DEF Embed, world
<1>3. /\ bulk.pc = "embed"
      /\ \E S \in SUBSET bulk.batch : row' = Marked(S)
      /\ \E T \in SUBSET bulk.batch, b \in BOOLEAN, c \in {"report", "write"} :
            writer' = [writer EXCEPT !["bulk"].todo = T, !["bulk"].ok = b, !["bulk"].pc = c]
  BY <1>1, EmbedFacts DEF bulk
<1>4. PICK S \in SUBSET bulk.batch : row' = Marked(S)
  BY <1>3
<1>5. PICK T \in SUBSET bulk.batch, b \in BOOLEAN, c \in {"report", "write"} :
        writer' = [writer EXCEPT !["bulk"].todo = T, !["bulk"].ok = b, !["bulk"].pc = c]
  BY <1>3
<1>6. bulk'.pc = c /\ bulk'.loaded = bulk.loaded
  <2>1. writer \in [Writers -> WriterType]
    BY <1>1, TypeFacts
  <2>2. writer'["bulk"].pc = c /\ writer'["bulk"].loaded = writer["bulk"].loaded
    BY <1>1, <1>5, <2>1 DEF WriterType
  <2>3. QED
    BY <2>2 DEF bulk
<1>7. \A i \in Ids : row[i].clip => i \notin S
  BY <1>3, <1>4 DEF RInv, IInv, Agreement, BatchIsFresh
<1>8. KeepsHits
  <2>1. \A i \in Ids : i \notin S => row'[i] = row[i]
    BY <1>1, <1>4, MarkedFacts
  <2>2. QED
    BY <1>2, <1>7, <2>1 DEF KeepsHits, Hit
<1>9. IdsFresh'
  <2>1. \A i \in Ids : row[i] = NoRow => row'[i] = NoRow
    BY <1>4 DEF Marked, Live
  <2>2. QED
    BY <1>1, <1>2, <2>1 DEF IdsFresh
<1>10. Blank' /\ Emptied' /\ CopyHasFound'
  BY <1>1, <1>2, <1>3, <1>5, <1>6 DEF RInv, Blank, Emptied, CopyHasFound, bulk
<1>11. RInv'
  BY <1>9, <1>10 DEF RInv
<1>12. QED
  BY <1>2, <1>8, <1>11, PublishStep

\* The file that replaces the old one has every vector of it; it also replaces a
\* file that was damaged meanwhile.
LEMMA WriteStep ==
    ASSUME BulkAlone, RInv, IInv', Write("bulk")
    PROVE  RInv' /\ CatalogStep
<1>1. TypeOK /\ IdsFresh /\ Blank
  BY DEF RInv, IInv
<1>2. bulk'.pc \notin {"recover", "embed", "write"}
  BY <1>1, PlainPcs
<1>3. UNCHANGED <<row, nextId>> /\ Deleted' = Deleted
  BY DeletedSame DEF Write, world
<1>4. bulk.pc = "write" /\ index'.state = "ok"
  BY DEF Write, bulk
<1>5. \A i \in Ids : bulk.loaded[i] > 0 => index'.vec[i] > 0
  <2>1. bulk.loaded \in [Ids -> 0..MaxCopies] /\ MaxCopies \in Nat
    BY <1>1, TypeFacts, FolderAssumption DEF WriterType, Vectors
  <2>2. index'.vec = [i \in Ids |-> bulk.loaded[i] + (IF i \in bulk.todo THEN 1 ELSE 0)]
    BY DEF Write, bulk
  <2>3. QED
    BY <2>1, <2>2
<1>6. KeepsHits
  BY <1>3, <1>4, <1>5 DEF RInv, CopyHasFound, KeepsHits, Hit
<1>7. RInv'
  BY <1>1, <1>2, <1>3, <1>4, OutsideBatch DEF RInv, Blank, IdsFresh
<1>8. CASE index.state = "corrupt"
  <2>1. Searchable' \in SUBSET Paths
    BY DEF Searchable
  <2>2. Catalog!Repair(Searchable')
    BY <1>3, <1>4, <1>8 DEF Catalog!Repair
  <2>3. QED
    BY <1>7, <2>1, <2>2 DEF CatalogStep, Catalog!Next
<1>9. CASE index.state # "corrupt"
  BY <1>3, <1>4, <1>6, <1>7, <1>9, PublishStep
<1>10. QED
  BY <1>8, <1>9

\* A row that is marked keeps its path.
LEMMA CommitStep ==
    ASSUME BulkAlone, RInv, IInv', Commit("bulk")
    PROVE  RInv' /\ CatalogStep
<1>1. TypeOK /\ IdsFresh /\ Blank
  BY DEF RInv, IInv
<1>2. bulk'.pc \notin {"recover", "embed", "write"}
  BY <1>1, PlainPcs
<1>3. UNCHANGED <<nextId, index>> /\ Deleted' = Deleted
  BY DeletedSame DEF Commit, world
<1>4. CASE writer["bulk"].todo = {}
  BY <1>2, <1>3, <1>4, PlainStep DEF Commit
<1>5. CASE writer["bulk"].todo # {}
  <2>1. PICK i \in writer["bulk"].todo :
           row' = IF Live(i)
                  THEN [row EXCEPT ![i] = [path |-> row[i].path, status |-> 1, clip |-> TRUE]]
                  ELSE row
    BY <1>5 DEF Commit
  <2>2. row \in [Ids -> RowType]
    BY <1>1, TypeFacts
  <2>3. \A j \in Ids : \/ row'[j] = row[j]
                       \/ row[j] # NoRow /\ row'[j] = [path |-> row[j].path, status |-> 1, clip |-> TRUE]
    BY <2>1, <2>2 DEF Live
  <2>4. \A j \in Ids : row'[j] = row[j] \/ (/\ row'[j] # NoRow /\ row'[j].path = row[j].path
                                            /\ row'[j].status = 1 /\ row'[j].clip)
    <3> DEFINE new(j) == [path |-> row[j].path, status |-> 1, clip |-> TRUE]
    <3>1. \A j : new(j).path = row[j].path /\ new(j).status = 1 /\ new(j).clip
      OBVIOUS
    <3>2. \A j : new(j) # NoRow
      BY <3>1 DEF NoRow
    <3>3. \A j \in Ids : row'[j] = row[j] \/ row'[j] = new(j)
      BY <2>3
    <3> HIDE DEF new
    <3>4. QED
      BY <3>1, <3>2, <3>3
  <2>5. KeepsHits
    BY <1>3, <2>4 DEF KeepsHits, Hit
  <2>6. IdsFresh'
    BY <1>1, <1>3, <2>3 DEF IdsFresh
  <2>7. RInv'
    BY <1>1, <1>2, <1>3, <2>6, OutsideBatch DEF RInv, Blank
  <2>8. QED
    BY <1>3, <2>5, <2>7, PublishStep
<1>6. QED
  BY <1>4, <1>5

\* The other steps of the worker change only where it is.
LEMMA QuietWriterStep ==
    ASSUME BulkAlone, RInv, IInv',
           BulkStart \/ Pick("bulk") \/ WriteFails("bulk") \/ Report("bulk")
    PROVE  RInv' /\ CatalogStep
<1>1. TypeOK
  BY DEF RInv, IInv
<1>2. bulk'.pc \notin {"recover", "embed", "write"}
  BY <1>1, PlainPcs
<1>3. UNCHANGED <<row, nextId, index, events>>
  BY DEF BulkStart, Pick, WriteFails, Report, store, world
<1>4. QED
  BY <1>2, <1>3, DeletedSame, PlainStep

\* A worker starts only where nothing changes; every step of the bulk worker.
LEMMA WorkerStep ==
    ASSUME BulkAlone, RInv, IInv', BulkStart \/ WriterStep("bulk")
    PROVE  RInv' /\ CatalogStep
  BY ScanStep, CreateStep, LoadStep, RecoverStep, EmbedStep, WriteStep, CommitStep, QuietWriterStep
     DEF WriterStep

\* A file that is deleted is reported, one that is created is not.
LEMMA ChangeStep ==
    ASSUME BulkAlone, RInv, IInv', NEW p \in Paths, CreateFile(p) \/ DeleteFile(p)
    PROVE  RInv' /\ CatalogStep
<1>1. events \in [Paths -> SUBSET {"created", "deleted"}]
  BY DEF RInv, IInv, TypeOK
<1>2. UNCHANGED <<row, nextId, index, writer>>
  BY DEF CreateFile, DeleteFile, Change, store
<1>3. RInv'
  BY <1>2 DEF RInv, Blank, IdsFresh, Emptied, CopyHasFound, bulk
<1>4. CASE CreateFile(p)
  <2>1. Deleted' = Deleted
    BY <1>1, <1>4 DEF CreateFile, Change, Deleted
  <2>2. QED
    BY <1>2, <1>3, <2>1, SameKeeps, PublishStep
<1>5. CASE DeleteFile(p)
  <2>1. Deleted' = Deleted \cup {p}
    BY <1>1, <1>5 DEF DeleteFile, Change, Deleted
  <2>2. Searchable' = Searchable
    BY <1>2 DEF Searchable, RowsOf, Live
  <2>3. Catalog!ReportDeletion(p)
    BY <1>2, <2>1, <2>2 DEF Catalog!ReportDeletion
  <2>4. QED
    BY <1>3, <2>3 DEF CatalogStep, Catalog!Next
<1>6. QED
  BY <1>4, <1>5

\* _on_deleted takes the image away, and no other.
LEMMA FileDeletedStep ==
    ASSUME BulkAlone, RInv, IInv', NEW p \in Paths, FileDeleted(p)
    PROVE  RInv' /\ CatalogStep
<1>1. events \in [Paths -> SUBSET {"created", "deleted"}]
  BY DEF RInv, IInv, TypeOK
<1>2. UNCHANGED <<nextId, index, writer>>
  BY DEF FileDeleted
<1>3. row' = [i \in Ids |-> IF i \in RowsOf(p) THEN NoRow ELSE row[i]]
  BY DEF FileDeleted
<1>4. RInv'
  <2>1. \A i \in Ids : row[i] = NoRow => row'[i] = NoRow
    BY <1>3
  <2>2. IdsFresh'
    BY <1>2, <2>1 DEF RInv, IdsFresh
  <2>3. QED
    BY <1>2, <2>2 DEF RInv, Blank, Emptied, CopyHasFound, bulk
<1>5. Deleted' = Deleted \ {p} /\ p \in Deleted
  BY <1>1 DEF FileDeleted, Deleted
<1>6. Searchable' = Searchable \ {p}
  <2>1. \A i \in Ids : row'[i] = IF row[i] # NoRow /\ row[i].path = p THEN NoRow ELSE row[i]
    BY <1>3 DEF RowsOf, Live
  <2>2. ASSUME NEW q \in Paths
        PROVE  q \in Searchable' <=> q \in Searchable /\ q # p
    BY <1>2, <2>1 DEF Searchable, RowsOf, Live
  <2>3. Searchable \subseteq Paths /\ Searchable' \subseteq Paths
    BY DEF Searchable
  <2>4. QED
    BY <2>2, <2>3
<1>7. Catalog!Withdraw(p)
  BY <1>2, <1>5, <1>6 DEF Catalog!Withdraw
<1>8. QED
  BY <1>4, <1>7 DEF CatalogStep, Catalog!Next

\* The damage takes every hit away.
LEMMA CorruptStep ==
    ASSUME BulkAlone, RInv, IInv', CorruptIndex
    PROVE  RInv' /\ CatalogStep
<1>1. /\ UNCHANGED <<row, nextId, writer>> /\ Deleted' = Deleted
      /\ index.state = "ok" /\ index' = [state |-> "corrupt", vec |-> NoVectors]
  BY DeletedSame DEF CorruptIndex, world
<1>2. \A i \in Ids : index'.vec[i] = 0
  BY <1>1 DEF NoVectors
<1>3. RInv'
  BY <1>1, <1>2 DEF RInv, Blank, IdsFresh, Emptied, CopyHasFound, bulk
<1>4. Searchable' = {}
  BY <1>2 DEF Searchable, RowsOf
<1>5. Catalog!Damage
  BY <1>1, <1>4 DEF Catalog!Damage
<1>6. QED
  BY <1>3, <1>5 DEF CatalogStep, Catalog!Next

\* A crash loses the reports, and nothing that a search finds.
LEMMA CrashStep ==
    ASSUME BulkAlone, RInv, IInv', Crash
    PROVE  RInv' /\ CatalogStep
<1>1. TypeOK
  BY DEF RInv, IInv
<1>2. UNCHANGED <<row, nextId, index>> /\ Deleted' = {}
  BY DEF Crash, store, Deleted
<1>3. RInv'
  BY <1>1, <1>2, PlainPcs, OutsideBatch DEF RInv, Blank, IdsFresh
<1>4. Searchable' = Searchable
  BY <1>2 DEF Searchable, RowsOf, Live
<1>5. Catalog!LoseReports
  BY <1>2, <1>4 DEF Catalog!LoseReports
<1>6. QED
  BY <1>3, <1>5 DEF CatalogStep, Catalog!Next

\* Every step of the folder is a step of the catalogue or a stutter.
LEMMA CatalogNext == BulkAlone /\ RInv /\ [Next]_vars => RInv' /\ CatalogStep
<1> SUFFICES ASSUME BulkAlone, RInv, [Next]_vars PROVE RInv' /\ CatalogStep
  OBVIOUS
<1>1. IInv'
  BY NextInv DEF RInv
<1>2. CASE UNCHANGED <<row, nextId, index, writer, events>>
  BY <1>1, <1>2, DeletedSame, PlainStep DEF bulk
<1>3. CASE BulkStart \/ \E w \in Writers : WriterStep(w)
  BY <1>1, <1>3, WorkerStep DEF BulkAlone
<1>4. CASE \E P \in SUBSET Paths : AppendStart(P)
  BY <1>4 DEF AppendStart, BulkAlone
<1>5. CASE \E p \in Paths : CreateFile(p) \/ DeleteFile(p) \/ FileDeleted(p)
  BY <1>1, <1>5, ChangeStep, FileDeletedStep
<1>6. CASE CorruptIndex \/ Crash
  BY <1>1, <1>6, CorruptStep, CrashStep
<1>7. UNCHANGED vars \/ Reindex => UNCHANGED <<row, nextId, index, writer, events>>
  BY DEF vars, Reindex, world
<1>8. QED
  BY <1>2, <1>3, <1>4, <1>5, <1>6, <1>7 DEF Next

\* The folder starts with nothing to be found.
LEMMA CatalogInit == BulkAlone /\ Init => RInv /\ Catalog!Init
<1> SUFFICES ASSUME BulkAlone, Init PROVE RInv /\ Catalog!Init
  OBVIOUS
<1>1. IInv
  BY InitInv
<1>2. bulk.pc = "idle"
  BY DEF Init, bulk, NoWriter, BulkAlone
<1>3. \A i \in Ids : row[i] = NoRow /\ index.vec[i] = 0
  BY DEF Init, NoVectors
<1>4. RInv
  BY <1>1, <1>2, <1>3 DEF RInv, Blank, IdsFresh, Emptied, CopyHasFound
<1>5. Searchable = {} /\ Deleted = {} /\ index.state = "missing"
  BY <1>3 DEF Init, Searchable, Deleted, RowsOf
<1>6. QED
  BY <1>4, <1>5 DEF Catalog!Init

\* A folder whose only indexing thread is the IndexWorker keeps the promise of
\* ImageCatalog: an image that a search finds stays findable, for any images and
\* batch sizes and through any scans, skipped batches, re-indexing, recoveries and
\* crashes, until its deletion is reported and handled or the FAISS file is damaged.
THEOREM BulkImplementsCatalog == BulkAlone => (Spec => ImplementsCatalog)
<1> SUFFICES ASSUME BulkAlone PROVE Spec => ImplementsCatalog
  OBVIOUS
<1>1. Init => RInv /\ Catalog!Init
  BY CatalogInit
<1>2. RInv /\ [Next]_vars => RInv'
  BY CatalogNext
<1>3. RInv /\ [Next]_vars => [Catalog!Next]_<<Searchable, Deleted, index.state = "corrupt">>
  BY CatalogNext DEF CatalogStep
<1>4. QED
  BY <1>1, <1>2, <1>3, PTL DEF Spec, ImplementsCatalog, Catalog!Spec

-----------------------------------------------------------------------------
(* The first rows of a batch. *)

\* A set of ids that is not empty has a first member.
LEMMA FirstMember ==
    ASSUME NEW S \in SUBSET Nat, S # {}
    PROVE  \E i \in S : \A j \in S : i <= j
<1> DEFINE R == OpToRel(<, Nat)
<1>1. \A i, j \in Nat : <<j, i>> \in R <=> j < i
  BY DEF OpToRel
<1>2. IsWellFoundedOn(R, Nat)
  BY NatLessThanWellFounded
<1> HIDE DEF R
<1>3. \E i \in S : \A j \in S : <<j, i>> \notin R
  BY <1>2, WFMin
<1>4. PICK i \in S : \A j \in S : <<j, i>> \notin R
  BY <1>3
<1>5. \A j \in S : i <= j
  <2> SUFFICES ASSUME NEW j \in S PROVE i <= j
    OBVIOUS
  <2>1. i \in Nat /\ j \in Nat
    OBVIOUS
  <2>2. ~(j < i)
    BY <1>1, <1>4, <2>1
  <2>3. QED
    BY <2>1, <2>2
<1>6. QED
  BY <1>5

LEMMA FirstIdsFacts ==
    ASSUME NEW S \in SUBSET Ids, S # {}
    PROVE  FirstIds(S, BatchLimit) # {}
<1>1. PICK i \in S : \A j \in S : i <= j
  BY FirstMember DEF Ids
<1>2. {j \in S : j <= i} = {i}
  <2>1. \A j \in S : j \in Nat /\ i \in Nat /\ i <= j
    BY <1>1 DEF Ids
  <2>2. \A j \in S : j <= i <=> j = i
    BY <2>1
  <2>3. QED
    BY <1>1, <2>2
<1>3. Cardinality({i}) = 1
  BY FS_Singleton
<1>4. QED
  BY <1>1, <1>2, <1>3, FolderAssumption DEF FirstIds

-----------------------------------------------------------------------------
(* Both writers: types. *)

\* A step of a writer replaces its record and leaves that of the other alone.
LEMMA Replaced ==
    ASSUME TypeOK, NEW w \in Writers, NEW r \in WriterType, writer' = [writer EXCEPT ![w] = r]
    PROVE  /\ writer' \in [Writers -> WriterType]
           /\ writer'[w] = r
           /\ \A v \in Writers : v # w => writer'[v] = writer[v]
  BY DEF TypeOK, WriterType

\* The types of rows and writers, whoever writes.
LEMMA RowsAndWriters ==
    ASSUME TypeOK
    PROVE  /\ row \in [Ids -> RowType]
           /\ \A w \in Writers : writer[w] \in WriterType
  BY DEF TypeOK, RowType, WriterType

\* What changes when one writer takes a step.
LEMMA TypedStep ==
    ASSUME TypeOK, writer' \in [Writers -> WriterType], row' \in [Ids -> RowType],
           nextId' \in 1..(MaxId + 1), status' \in 0..3,
           index' \in [state : {"missing", "corrupt", "ok"}, vec : Vectors],
           wanted' \in BOOLEAN, torn' \in BOOLEAN,
           events' \in [Paths -> SUBSET {"created", "deleted"}],
           UNCHANGED <<disk, changes, crashes>>
    PROVE  TypeOK'
  BY DEF TypeOK, RowType, WriterType

\* The bulk worker lists the folder.
LEMMA BulkStartMoves ==
    ASSUME TypeOK, BulkStart
    PROVE  /\ TypeOK' /\ "bulk" \in Writers
           /\ \E r \in WriterType :
                 /\ writer' = [writer EXCEPT !["bulk"] = r]
                 /\ r.pc = "scan" /\ r.scan = disk /\ r.files = {} /\ r.ok
           /\ UNCHANGED <<row, nextId, index, world>>
<1> DEFINE r == [[NoWriter EXCEPT !.pc = "scan"] EXCEPT !.scan = disk]
<1>1. disk \subseteq Paths /\ "bulk" \in Writers
  BY DEF BulkStart, TypeOK
<1>2. r \in WriterType /\ r.pc = "scan" /\ r.scan = disk /\ r.files = {} /\ r.ok
  BY <1>1, EmptyFacts DEF WriterType, PCs, NoWriter
<1>3. writer' = [writer EXCEPT !["bulk"] = r]
  BY DEF BulkStart, NoWriter
<1> HIDE DEF r
<1>4. writer' \in [Writers -> WriterType]
  BY <1>1, <1>2, <1>3, Replaced
<1>5. UNCHANGED <<row, nextId, index, world>> /\ status' = 0 /\ wanted' = FALSE
  BY DEF BulkStart
<1>6. TypeOK'
  <2>1. status' \in 0..3
    BY <1>5
  <2> wanted' \in BOOLEAN
    BY <1>5, Zenon
  <2>2. UNCHANGED <<row, nextId, index, disk, events, torn, changes, crashes>>
    BY <1>5 DEF world
  <2>3. QED
    BY <1>4, <2>1, <2>2, TypedStep DEF TypeOK, RowType
<1>7. QED
  BY <1>1, <1>2, <1>3, <1>5, <1>6

\* The incremental worker takes the files of its events.
LEMMA AppendStartMoves ==
    ASSUME TypeOK, NEW P \in SUBSET Paths, AppendStart(P)
    PROVE  /\ TypeOK' /\ "append" \in Writers /\ writer["append"].pc = "idle"
           /\ \E r \in WriterType :
                 /\ writer' = [writer EXCEPT !["append"] = r]
                 /\ r.pc = "scan" /\ r.scan = P /\ r.files = P /\ r.ok
           /\ \A p \in P : "created" \in events[p]
           /\ \A p \in Paths : events'[p] \subseteq events[p]
           /\ UNCHANGED <<row, nextId, index, wanted, disk, torn, changes, crashes>>
<1> DEFINE r == [[[NoWriter EXCEPT !.pc = "scan"] EXCEPT !.scan = P] EXCEPT !.files = P]
<1>1. /\ "append" \in Writers /\ writer["append"].pc = "idle"
      /\ \A p \in P : "created" \in events[p]
      /\ UNCHANGED <<row, nextId, index, wanted, disk, torn, changes, crashes>>
      /\ status' = 3
  BY DEF AppendStart
<1>2. r \in WriterType /\ r.pc = "scan" /\ r.scan = P /\ r.files = P /\ r.ok
  BY EmptyFacts DEF WriterType, PCs, NoWriter
<1>3. writer' = [writer EXCEPT !["append"] = r]
  BY DEF AppendStart, NoWriter
<1> HIDE DEF r
<1>4. writer' \in [Writers -> WriterType]
  BY <1>1, <1>2, <1>3, Replaced
<1>5. /\ events' \in [Paths -> SUBSET {"created", "deleted"}]
      /\ \A p \in Paths : events'[p] \subseteq events[p]
  BY DEF AppendStart, TypeOK
<1>6. TypeOK'
  BY <1>1, <1>4, <1>5, TypedStep DEF TypeOK, RowType
<1>7. QED
  BY <1>1, <1>2, <1>3, <1>5, <1>6

\* Files are inserted one by one.
LEMMA ScanMoves ==
    ASSUME TypeOK, NEW w \in Writers, Scan(w)
    PROVE  /\ TypeOK'
           /\ writer[w].pc = "scan"
           /\ UNCHANGED <<index, wanted, world>>
           /\ \E r \in WriterType :
                 /\ writer' = [writer EXCEPT ![w] = r]
                 /\ r.scan \subseteq writer[w].scan /\ r.files = writer[w].files
                 /\ r.ok = writer[w].ok
                 /\ \/ r.pc = "create" /\ UNCHANGED <<row, nextId>>
                    \/ r.pc = "scan" /\ \E p \in writer[w].scan : InsertFile(p)
<1>1. writer[w].pc = "scan" /\ UNCHANGED <<index, wanted, world>>
  BY DEF Scan
<1>2. writer[w] \in WriterType /\ row \in [Ids -> RowType]
  BY RowsAndWriters
<1>3. CASE writer[w].scan = {}
  <2> DEFINE r == [writer[w] EXCEPT !.pc = "create"]
  <2>1. /\ r \in WriterType /\ r.pc = "create" /\ r.scan = writer[w].scan
        /\ r.files = writer[w].files /\ r.ok = writer[w].ok
    BY <1>2 DEF WriterType, PCs
  <2>2. writer' = [writer EXCEPT ![w] = r] /\ UNCHANGED <<row, nextId>> /\ status' \in {1, status}
    BY <1>3 DEF Scan, To
  <2> HIDE DEF r
  <2>3. writer' \in [Writers -> WriterType]
    BY <2>1, <2>2, Replaced
  <2>4. TypeOK'
    BY <1>1, <1>2, <2>2, <2>3, TypedStep DEF TypeOK, world
  <2>5. QED
    BY <1>1, <2>1, <2>2, <2>4
<1>4. CASE writer[w].scan # {}
  <2>1. PICK p \in writer[w].scan :
          /\ InsertFile(p) /\ writer' = [writer EXCEPT ![w].scan = @ \ {p}] /\ UNCHANGED status
    BY <1>4 DEF Scan
  <2> DEFINE r == [writer[w] EXCEPT !.scan = @ \ {p}]
  <2>2. /\ r \in WriterType /\ r.pc = "scan" /\ r.scan \subseteq writer[w].scan
        /\ r.files = writer[w].files /\ r.ok = writer[w].ok
    BY <1>1, <1>2 DEF WriterType
  <2>3. writer' = [writer EXCEPT ![w] = r]
    BY <2>1
  <2> HIDE DEF r
  <2>4. writer' \in [Writers -> WriterType]
    BY <2>2, <2>3, Replaced
  <2>5. p \in Paths
    BY <1>2, <2>1 DEF WriterType
  <2>6. row' \in [Ids -> RowType] /\ nextId' \in 1..(MaxId + 1)
    BY <2>1, <2>5, InsertFileFacts
  <2>7. TypeOK'
    BY <1>1, <2>1, <2>4, <2>6, TypedStep DEF TypeOK, world
  <2>8. QED
    BY <1>1, <2>1, <2>2, <2>3, <2>7
<1>5. QED
  BY <1>3, <1>4

\* The FAISS file is there when a writer looks for rows.
LEMMA CreateMoves ==
    ASSUME TypeOK, NEW w \in Writers, Create(w)
    PROVE  /\ TypeOK'
           /\ writer[w].pc = "create"
           /\ UNCHANGED <<row, nextId, wanted, world>>
           /\ index'.state = IF index.state = "missing" THEN "ok" ELSE index.state
           /\ \E r \in WriterType :
                 /\ writer' = [writer EXCEPT ![w] = r]
                 /\ r.pc = "pick" /\ r.scan = writer[w].scan /\ r.files = writer[w].files
                 /\ r.ok = writer[w].ok
<1> DEFINE r == [writer[w] EXCEPT !.pc = "pick"]
<1>1. writer[w].pc = "create" /\ UNCHANGED <<row, nextId, status, wanted, world>>
  BY DEF Create
<1>2. /\ r \in WriterType /\ r.pc = "pick" /\ r.scan = writer[w].scan
      /\ r.files = writer[w].files /\ r.ok = writer[w].ok
  BY RowsAndWriters DEF WriterType, PCs
<1>3. writer' = [writer EXCEPT ![w] = r]
  BY DEF Create, To
<1> HIDE DEF r
<1>4. writer' \in [Writers -> WriterType]
  BY <1>2, <1>3, Replaced
<1>5. /\ index' \in [state : {"missing", "corrupt", "ok"}, vec : Vectors]
      /\ index'.state = IF index.state = "missing" THEN "ok" ELSE index.state
  BY EmptyFacts DEF Create, TypeOK
<1>6. TypeOK'
  BY <1>1, <1>4, <1>5, TypedStep DEF TypeOK, RowType, world
<1>7. QED
  BY <1>1, <1>2, <1>3, <1>5, <1>6

\* The bulk worker stops when nothing is pending, the incremental one when none of
\* its files is.
LEMMA PickMoves ==
    ASSUME TypeOK, NEW w \in Writers, Pick(w)
    PROVE  /\ TypeOK'
           /\ writer[w].pc = "pick"
           /\ UNCHANGED <<store, wanted, world>>
           /\ \E r \in WriterType :
                 /\ writer' = [writer EXCEPT ![w] = r]
                 /\ r.scan = writer[w].scan /\ r.files = writer[w].files /\ r.ok = writer[w].ok
                 /\ r.batch \subseteq Pending
                 /\ w = "append" =>
                       \A i \in Pending : row[i].path \in writer[w].files => i \in r.batch
                 /\ \/ r.pc = "load" /\ r.batch # {}
                    \/ r.pc = "report" /\ r.batch = {} /\ (w = "bulk" => Pending = {})
<1> DEFINE found == IF w = "bulk" THEN FirstIds(Pending, BatchLimit)
                    ELSE {i \in Pending : row[i].path \in writer[w].files}
           batch == {i \in found : w = "bulk" => ~row[i].clip}
           c == IF found = {} THEN "report" ELSE "load"
           r == [[writer[w] EXCEPT !.batch = batch] EXCEPT !.pc = c]
<1>1. /\ writer[w].pc = "pick" /\ UNCHANGED <<store, wanted, world>>
      /\ found = {} \/ batch # {}
      /\ writer' = [writer EXCEPT ![w].batch = batch, ![w].pc = c]
  BY DEF Pick
<1>2. Pending \subseteq Ids /\ found \subseteq Pending /\ batch \subseteq found
  BY DEF Pending, FirstIds
<1>3. w = "append" => \A i \in Pending : row[i].path \in writer[w].files => i \in batch
  OBVIOUS
<1>4. w = "bulk" /\ found = {} => Pending = {}
  BY <1>2, FirstIdsFacts
<1>5. c \in {"report", "load"} /\ (c = "report" => found = {}) /\ (c = "load" => found # {})
  OBVIOUS
<1> HIDE DEF found, batch, c
<1>6. /\ r \in WriterType /\ r.pc = c /\ r.batch = batch /\ r.scan = writer[w].scan
      /\ r.files = writer[w].files /\ r.ok = writer[w].ok
      /\ writer' = [writer EXCEPT ![w] = r]
  <2>1. batch \subseteq Ids /\ c \in PCs /\ writer[w] \in WriterType
    BY <1>2, <1>5, RowsAndWriters DEF PCs
  <2>2. QED
    BY <1>1, <2>1 DEF WriterType
<1> HIDE DEF r
<1>7. writer' \in [Writers -> WriterType]
  BY <1>6, Replaced
<1>8. TypeOK'
  BY <1>1, <1>7, TypedStep DEF TypeOK, RowType, store, world
<1>9. QED
  BY <1>1, <1>2, <1>3, <1>4, <1>5, <1>6, <1>8

\* The FAISS file is read; an unreadable one is replaced by an empty one.
LEMMA LoadMoves ==
    ASSUME TypeOK, NEW w \in Writers, Load(w)
    PROVE  /\ TypeOK'
           /\ writer[w].pc = "load"
           /\ UNCHANGED <<row, nextId, wanted, world>>
           /\ index.state = "ok" =>
                 /\ index' = index
                 /\ \E r \in WriterType :
                       /\ writer' = [writer EXCEPT ![w] = r]
                       /\ r.pc = "embed" /\ r.scan = writer[w].scan /\ r.files = writer[w].files
                       /\ r.batch = writer[w].batch /\ r.ok
<1> DEFINE l == IF index.state = "ok" THEN index.vec ELSE NoVectors
           b == index.state = "ok"
           c == CASE index.state = "ok" -> "embed"
                  [] index.state = "corrupt" -> "recover"
                  [] index.state = "missing" -> "report"
           r == [[[writer[w] EXCEPT !.loaded = l] EXCEPT !.ok = b] EXCEPT !.pc = c]
<1>1. /\ writer[w].pc = "load" /\ UNCHANGED <<row, nextId, status, wanted, world>>
      /\ writer' = [writer EXCEPT ![w].loaded = l, ![w].ok = b, ![w].pc = c]
  BY DEF Load
<1>2. index.state \in {"missing", "corrupt", "ok"} /\ index.vec \in Vectors
  BY DEF TypeOK
<1>3. l \in Vectors /\ b \in BOOLEAN
  BY <1>2, EmptyFacts
<1>4. c \in {"embed", "recover", "report"} /\ (index.state = "ok" => c = "embed" /\ b)
  BY <1>2
<1>5. /\ index' \in [state : {"missing", "corrupt", "ok"}, vec : Vectors]
      /\ index.state = "ok" => index' = index
  <2>1. index' = IF index.state = "corrupt" THEN [state |-> "ok", vec |-> NoVectors] ELSE index
    BY DEF Load
  <2>2. QED
    BY <2>1, EmptyFacts DEF TypeOK
<1> HIDE DEF l, b, c
<1>6. /\ r \in WriterType /\ r.pc = c /\ r.batch = writer[w].batch /\ r.scan = writer[w].scan
      /\ r.files = writer[w].files /\ r.ok = b
      /\ writer' = [writer EXCEPT ![w] = r]
  <2>1. c \in PCs /\ writer[w] \in WriterType
    BY <1>4, RowsAndWriters DEF PCs
  <2>2. QED
    BY <1>1, <1>3, <2>1 DEF WriterType
<1> HIDE DEF r
<1>7. writer' \in [Writers -> WriterType]
  BY <1>6, Replaced
<1>8. TypeOK'
  BY <1>1, <1>5, <1>7, TypedStep DEF TypeOK, RowType, world
<1>9. QED
  BY <1>1, <1>4, <1>5, <1>6, <1>8

\* The second half of a recovery.
LEMMA RecoverTypes == ASSUME TypeOK, NEW w \in Writers, Recover(w) PROVE TypeOK'
<1> DEFINE r == [writer[w] EXCEPT !.pc = "report"]
<1>1. r \in WriterType
  BY RowsAndWriters DEF WriterType, PCs
<1>2. writer' = [writer EXCEPT ![w] = r]
  BY DEF Recover, To
<1> HIDE DEF r
<1>3. writer' \in [Writers -> WriterType]
  BY <1>1, <1>2, Replaced
<1>4. row' \in [Ids -> RowType]
  <2>1. row' = [i \in Ids |-> IF Live(i) /\ row[i].status # 2
                               THEN [path |-> row[i].path, status |-> 0, clip |-> FALSE]
                               ELSE row[i]]
    BY DEF Recover
  <2>2. \A i \in Ids : Live(i) => row[i] \in [path : Paths, status : 0..2, clip : BOOLEAN]
    BY RowsAndWriters DEF Live, RowType
  <2>3. \A x \in [path : Paths, status : 0..2, clip : BOOLEAN] :
           [path |-> x.path, status |-> 0, clip |-> FALSE] \in RowType
    BY DEF RowType
  <2>4. QED
    BY <2>1, <2>2, <2>3, RowsAndWriters
<1>5. UNCHANGED <<nextId, index, wanted, disk, events, changes, crashes>> /\ status' = 1
  BY DEF Recover
<1>6. torn' \in BOOLEAN
  BY DEF Recover
<1>7. QED
  BY <1>3, <1>4, <1>5, <1>6, TypedStep DEF TypeOK

\* The images of a batch are decoded; rows of the batch may be marked as removed.
LEMMA EmbedTypes == ASSUME TypeOK, NEW w \in Writers, Embed(w) PROVE TypeOK'
<1>1. /\ \E S \in SUBSET writer[w].batch : row' = Marked(S)
      /\ \E T \in SUBSET writer[w].batch, b \in BOOLEAN, c \in {"report", "write"} :
            writer' = [writer EXCEPT ![w].todo = T, ![w].ok = b, ![w].pc = c]
  BY EmbedFacts
<1>2. UNCHANGED <<nextId, status, index, wanted, world>>
  BY DEF Embed
<1>3. row' \in [Ids -> RowType]
  BY <1>1, MarkedFacts
<1>4. PICK T \in SUBSET writer[w].batch, b \in BOOLEAN, c \in {"report", "write"} :
        writer' = [writer EXCEPT ![w].todo = T, ![w].ok = b, ![w].pc = c]
  BY <1>1
<1> DEFINE r == [[[writer[w] EXCEPT !.todo = T] EXCEPT !.ok = b] EXCEPT !.pc = c]
<1>5. r \in WriterType /\ writer' = [writer EXCEPT ![w] = r]
  <2>1. T \subseteq Ids /\ c \in PCs /\ writer[w] \in WriterType
    BY <1>4, RowsAndWriters DEF PCs, WriterType
  <2>2. QED
    BY <1>4, <2>1 DEF WriterType
<1> HIDE DEF r
<1>6. writer' \in [Writers -> WriterType]
  BY <1>5, Replaced
<1>7. QED
  BY <1>2, <1>3, <1>6, TypedStep DEF TypeOK, world

\* The FAISS file is replaced.
LEMMA WriteMoves ==
    ASSUME TypeOK, NEW w \in Writers, Write(w)
    PROVE  /\ TypeOK'
           /\ writer[w].pc = "write"
           /\ UNCHANGED <<row, nextId, wanted, world>>
           /\ index'.state = "ok"
           /\ \E r \in WriterType :
                 /\ writer' = [writer EXCEPT ![w] = r]
                 /\ r.pc = "commit" /\ r.scan = writer[w].scan /\ r.files = writer[w].files
                 /\ r.todo = writer[w].todo /\ r.ok = writer[w].ok
<1> DEFINE m == writer[w]
           r == [m EXCEPT !.pc = "commit"]
           v == [i \in Ids |-> m.loaded[i] + (IF i \in m.todo THEN 1 ELSE 0)]
<1>1. /\ writer[w].pc = "write" /\ UNCHANGED <<row, nextId, status, wanted, world>>
      /\ writer' = [writer EXCEPT ![w] = r]
      /\ index' = [state |-> "ok", vec |-> v]
      /\ \A i \in m.todo : m.loaded[i] < MaxCopies
  BY DEF Write, To
<1>2. m \in WriterType
  BY RowsAndWriters
<1>3. v \in Vectors
  <2>1. m.loaded \in [Ids -> 0..MaxCopies] /\ MaxCopies \in Nat
    BY <1>2, FolderAssumption DEF WriterType, Vectors
  <2>2. \A i \in Ids : v[i] \in 0..MaxCopies
    BY <1>1, <2>1
  <2>3. QED
    BY <2>2 DEF Vectors
<1>4. /\ r \in WriterType /\ r.pc = "commit" /\ r.scan = m.scan /\ r.files = m.files
      /\ r.todo = m.todo /\ r.ok = m.ok
  BY <1>2 DEF WriterType, PCs
<1> HIDE DEF r, v
<1>5. writer' \in [Writers -> WriterType]
  BY <1>1, <1>4, Replaced
<1>6. index'.state = "ok" /\ index' \in [state : {"missing", "corrupt", "ok"}, vec : Vectors]
  BY <1>1, <1>3
<1>7. TypeOK'
  BY <1>1, <1>5, <1>6, TypedStep DEF TypeOK, RowType, world
<1>8. QED
  BY <1>1, <1>4, <1>6, <1>7

\* The replacement of the file fails.
LEMMA WriteFailsTypes == ASSUME TypeOK, NEW w \in Writers, WriteFails(w) PROVE TypeOK'
<1> DEFINE r == [[writer[w] EXCEPT !.ok = FALSE] EXCEPT !.pc = "report"]
<1>1. writer' = [writer EXCEPT ![w].ok = FALSE, ![w].pc = "report"] /\ UNCHANGED <<store, wanted, world>>
  BY DEF WriteFails
<1>2. r \in WriterType /\ writer' = [writer EXCEPT ![w] = r]
  BY <1>1, RowsAndWriters DEF WriterType, PCs
<1> HIDE DEF r
<1>3. writer' \in [Writers -> WriterType]
  BY <1>2, Replaced
<1>4. QED
  BY <1>1, <1>3, TypedStep DEF TypeOK, RowType, store, world

\* A row is marked indexed, or the batch is done.
LEMMA CommitMoves ==
    ASSUME TypeOK, NEW w \in Writers, Commit(w)
    PROVE  /\ TypeOK'
           /\ writer[w].pc = "commit"
           /\ UNCHANGED <<nextId, index, wanted, world>>
           /\ \E r \in WriterType :
                 /\ writer' = [writer EXCEPT ![w] = r]
                 /\ r.scan = writer[w].scan /\ r.files = writer[w].files /\ r.ok = writer[w].ok
                 /\ \/ /\ writer[w].todo = {} /\ row' = row
                       /\ r.pc = IF w = "bulk" /\ writer[w].ok THEN "pick" ELSE "report"
                    \/ \E i \in writer[w].todo :
                          /\ r.pc = "commit" /\ r.todo = writer[w].todo \ {i}
                          /\ Live(i) => row'[i].status = 1 /\ row'[i].path = row[i].path /\ row'[i].clip
                          /\ ~Live(i) => row'[i] = row[i]
                          /\ \A j \in Ids : j # i => row'[j] = row[j]
<1>1. writer[w].pc = "commit" /\ UNCHANGED <<nextId, status, index, wanted, world>>
  BY DEF Commit
<1>2. writer[w] \in WriterType /\ row \in [Ids -> RowType]
  BY RowsAndWriters
<1>3. CASE writer[w].todo = {}
  <2> DEFINE c == IF w = "bulk" /\ writer[w].ok THEN "pick" ELSE "report"
             r == [writer[w] EXCEPT !.pc = c]
  <2>1. writer' = [writer EXCEPT ![w] = r] /\ row' = row
    BY <1>3 DEF Commit, To
  <2>2. c \in PCs
    BY DEF PCs
  <2>3. /\ r \in WriterType /\ r.pc = c /\ r.scan = writer[w].scan
        /\ r.files = writer[w].files /\ r.ok = writer[w].ok
    BY <1>2, <2>2 DEF WriterType
  <2> HIDE DEF r
  <2>4. writer' \in [Writers -> WriterType]
    BY <2>1, <2>3, Replaced
  <2>5. TypeOK'
    BY <1>1, <1>2, <2>1, <2>4, TypedStep DEF TypeOK, world
  <2>6. QED
    BY <1>1, <1>3, <2>1, <2>3, <2>5
<1>4. CASE writer[w].todo # {}
  <2>1. PICK i \in writer[w].todo :
          /\ row' = IF Live(i)
                    THEN [row EXCEPT ![i] = [path |-> row[i].path, status |-> 1, clip |-> TRUE]]
                    ELSE row
          /\ writer' = [writer EXCEPT ![w].todo = @ \ {i}]
    BY <1>4 DEF Commit
  <2> DEFINE new == [path |-> row[i].path, status |-> 1, clip |-> TRUE]
             r == [writer[w] EXCEPT !.todo = @ \ {i}]
  <2>2. i \in Ids
    BY <1>2, <2>1 DEF WriterType
  <2>3. /\ Live(i) => new \in RowType
        /\ new.status = 1 /\ new.path = row[i].path /\ new.clip
    BY <1>2, <2>2 DEF Live, RowType
  <2>4. row' = IF Live(i) THEN [row EXCEPT ![i] = new] ELSE row
    BY <2>1
  <2> HIDE DEF new
  <2>5. /\ row' \in [Ids -> RowType]
        /\ Live(i) => row'[i] = new
        /\ ~Live(i) => row'[i] = row[i]
        /\ \A j \in Ids : j # i => row'[j] = row[j]
    BY <1>2, <2>2, <2>3, <2>4
  <2>6. /\ r \in WriterType /\ r.pc = "commit" /\ r.todo = writer[w].todo \ {i}
        /\ r.scan = writer[w].scan /\ r.files = writer[w].files /\ r.ok = writer[w].ok
        /\ writer' = [writer EXCEPT ![w] = r]
    BY <1>1, <1>2, <2>1 DEF WriterType
  <2> HIDE DEF r
  <2>7. writer' \in [Writers -> WriterType]
    BY <2>6, Replaced
  <2>8. TypeOK'
    BY <1>1, <2>5, <2>7, TypedStep DEF TypeOK, world
  <2>9. \E j \in writer[w].todo :
           /\ r.pc = "commit" /\ r.todo = writer[w].todo \ {j}
           /\ Live(j) => row'[j].status = 1 /\ row'[j].path = row[j].path /\ row'[j].clip
           /\ ~Live(j) => row'[j] = row[j]
           /\ \A k \in Ids : k # j => row'[k] = row[k]
    BY <2>1, <2>3, <2>5, <2>6
  <2>10. QED
    BY <1>1, <2>6, <2>8, <2>9
<1>5. QED
  BY <1>3, <1>4

\* A writer ends.
LEMMA ReportMoves ==
    ASSUME TypeOK, NEW w \in Writers, Report(w)
    PROVE  /\ TypeOK'
           /\ writer[w].pc = "report"
           /\ UNCHANGED <<row, nextId, index, world>>
           /\ wanted => wanted'
           /\ writer' = [writer EXCEPT ![w] = NoWriter]
<1>1. /\ writer[w].pc = "report" /\ UNCHANGED <<row, nextId, index, world>>
      /\ writer' = [writer EXCEPT ![w] = NoWriter] /\ (wanted => wanted')
  BY DEF Report
<1>2. wanted' \in BOOLEAN /\ status' \in 0..3
  BY DEF Report
<1>3. writer' \in [Writers -> WriterType]
  BY <1>1, EmptyFacts, Replaced
<1>4. TypeOK'
  BY <1>1, <1>2, <1>3, TypedStep DEF TypeOK, RowType, world
<1>5. QED
  BY <1>1, <1>4

\* Users, events, damage and crashes.
LEMMA WorldTypes ==
    ASSUME TypeOK,
           \/ \E p \in Paths : CreateFile(p) \/ DeleteFile(p) \/ FileDeleted(p)
           \/ Reindex \/ CorruptIndex \/ Crash
    PROVE  TypeOK'
<1>1. ASSUME NEW p \in Paths, CreateFile(p) \/ DeleteFile(p) PROVE TypeOK'
  <2>1. PICK new \in SUBSET {"created", "deleted"} : Change(p, new)
    <3>1. events[p] \cup {"created"} \in SUBSET {"created", "deleted"}
      BY DEF TypeOK
    <3>2. {"deleted"} \in SUBSET {"created", "deleted"}
      OBVIOUS
    <3>3. QED
      BY <1>1, <3>1, <3>2 DEF CreateFile, DeleteFile
  <2>2. changes' \in 0..MaxChanges /\ events' \in [Paths -> SUBSET {"created", "deleted"}]
    BY <2>1, FolderAssumption DEF Change, TypeOK
  <2>3. disk' \subseteq Paths
    BY <1>1 DEF CreateFile, DeleteFile, TypeOK
  <2>4. UNCHANGED <<row, nextId, status, index, wanted, writer, torn, crashes>>
    BY <2>1 DEF Change, store
  <2>5. QED
    BY <2>2, <2>3, <2>4 DEF TypeOK
<1>2. ASSUME NEW p \in Paths, FileDeleted(p) PROVE TypeOK'
  <2>1. row' = [i \in Ids |-> IF i \in RowsOf(p) THEN NoRow ELSE row[i]]
    BY <1>2 DEF FileDeleted
  <2>2. row' \in [Ids -> RowType]
    BY <2>1, RowsAndWriters, EmptyFacts
  <2>3. events' \in [Paths -> SUBSET {"created", "deleted"}]
    BY <1>2 DEF FileDeleted, TypeOK
  <2>4. UNCHANGED <<nextId, status, index, wanted, writer, disk, torn, changes, crashes>>
    BY <1>2 DEF FileDeleted
  <2>5. QED
    BY <2>2, <2>3, <2>4 DEF TypeOK, RowType
<1>3. CASE Reindex
  <2>1. wanted' \in BOOLEAN
    BY <1>3 DEF Reindex
  <2>2. status' \in 0..3 /\ UNCHANGED <<row, nextId, index, writer, disk, events, torn, changes, crashes>>
    BY <1>3 DEF Reindex, world
  <2>3. QED
    BY <2>1, <2>2 DEF TypeOK
<1>4. CASE CorruptIndex
  <2>1. /\ index' \in [state : {"missing", "corrupt", "ok"}, vec : Vectors]
        /\ UNCHANGED <<row, nextId, status, wanted, writer, disk, events, torn, changes, crashes>>
    BY <1>4, EmptyFacts DEF CorruptIndex, world
  <2>2. QED
    BY <2>1 DEF TypeOK
<1>5. CASE Crash
  <2>1. UNCHANGED <<row, nextId, status, index, disk, changes>> /\ crashes' \in 0..MaxCrashes
    BY <1>5, FolderAssumption DEF Crash, store, TypeOK
  <2>2. wanted' \in BOOLEAN
    BY <1>5 DEF Crash
  <2>3. torn' \in BOOLEAN
    BY <1>5 DEF Crash
  <2>4. events' \in [Paths -> SUBSET {"created", "deleted"}] /\ writer' \in [Writers -> WriterType]
    BY <1>5, EmptyFacts DEF Crash
  <2>5. QED
    BY <2>1, <2>2, <2>3, <2>4 DEF TypeOK, WriterType
<1>6. QED
  BY <1>1, <1>2, <1>3, <1>4, <1>5

LEMMA InitTypes == Init => TypeOK
<1> SUFFICES ASSUME Init PROVE TypeOK
  OBVIOUS
<1>1. row \in [Ids -> RowType] /\ writer \in [Writers -> WriterType]
  BY EmptyFacts DEF Init
<1>2. index \in [state : {"missing", "corrupt", "ok"}, vec : Vectors]
  BY EmptyFacts DEF Init
<1>3. nextId \in 1..(MaxId + 1) /\ changes \in 0..MaxChanges /\ crashes \in 0..MaxCrashes
  BY FolderAssumption DEF Init
<1>4. status \in 0..3 /\ disk \subseteq Paths /\ events \in [Paths -> SUBSET {"created", "deleted"}]
  BY DEF Init
<1>5. wanted \in BOOLEAN /\ torn \in BOOLEAN
  BY DEF Init
<1>6. QED
  BY <1>1, <1>2, <1>3, <1>4, <1>5 DEF TypeOK, RowType, WriterType

LEMMA NextTypes == TypeOK /\ [Next]_vars => TypeOK'
<1> SUFFICES ASSUME TypeOK, [Next]_vars PROVE TypeOK'
  OBVIOUS
<1>1. CASE UNCHANGED vars
  BY <1>1 DEF vars, TypeOK
<1>2. CASE BulkStart
  BY <1>2, BulkStartMoves
<1>3. ASSUME NEW P \in SUBSET Paths, AppendStart(P) PROVE TypeOK'
  BY <1>3, AppendStartMoves
<1>4. ASSUME NEW w \in Writers, WriterStep(w) PROVE TypeOK'
  BY <1>4, ScanMoves, CreateMoves, PickMoves, LoadMoves, RecoverTypes, EmbedTypes, WriteMoves,
     WriteFailsTypes, CommitMoves, ReportMoves DEF WriterStep
<1>5. CASE \/ \E p \in Paths : CreateFile(p) \/ DeleteFile(p) \/ FileDeleted(p)
           \/ Reindex \/ CorruptIndex \/ Crash
  BY <1>5, WorldTypes
<1>6. QED
  BY <1>1, <1>2, <1>3, <1>4, <1>5 DEF Next

\* Every variable keeps its type whoever writes, with both writers and all faults;
\* in particular the copy of a FAISS file never has more vectors of an id than the
\* file may have, and a batch has ids of rows only.
THEOREM TypeCorrect == Spec => []TypeOK
<1>1. QED
  BY InitTypes, NextTypes, PTL DEF Spec

-----------------------------------------------------------------------------
(* Both writers: nothing is left pending. *)

\* What "reported means done" needs: no image disappears or fails to decode, the
\* FAISS file stays readable and can be written.  Crashes and re-index requests
\* may come at any time.
Faultless == Ops \subseteq {"reindex"}

\* The images of all rows and of all reported creations exist, and the FAISS file
\* is readable.
Undamaged ==
    /\ \A i \in Ids : Live(i) => row[i].path \in disk
    /\ \A p \in Paths : "deleted" \notin events[p] /\ ("created" \in events[p] => p \in disk)
    /\ index.state # "corrupt"

\* Writer w with record m has no failure to report; st is the state of the file,
\* and D are the images in the folder.
OnCourse(w, m, st, D) ==
    /\ m.ok /\ m.pc # "recover"
    /\ m.pc \in {"pick", "load", "embed", "write", "commit"} => st = "ok"
    /\ m.scan \subseteq D /\ m.files \subseteq D
    /\ w = "append" => m.scan \subseteq m.files
    /\ m.pc \in {"load", "embed"} => m.batch # {}

\* It will still look at the pending row i of path p, or has it in its batch: the
\* bulk worker looks for pending rows of any path until there is none.
Indexes(w, m, i, p) ==
    \/ m.pc \in {"scan", "create", "pick"} /\ (w = "append" => p \in m.files)
    \/ m.pc \in {"load", "embed"} /\ (w = "append" => i \in m.batch)
    \/ m.pc \in {"write", "commit"} /\ (w = "append" => i \in m.todo)

AllOnCourse == \A w \in Writers : OnCourse(w, writer[w], index.state, disk)
BatchesLive ==
    \A w \in Writers : writer[w].pc \in {"load", "embed"} => \A i \in writer[w].batch : Live(i)

\* Each pending row has somebody who will index it: the bulk worker that the
\* scheduler will start, or one of the writers.
Covered == \A i \in Pending : wanted \/ \E w \in Writers : Indexes(w, writer[w], i, row[i].path)

\* The invariant behind ReportedMeansDone.
DoneInv == TypeOK /\ IdsFresh /\ Undamaged /\ AllOnCourse /\ BatchesLive /\ Covered

\* A step of writer w keeps the others on course and their rows covered, when it
\* stays on course itself, and any row that it makes pending, or no longer looks
\* at, is no loss.
LEMMA Carried ==
    ASSUME DoneInv, NEW w \in Writers, NEW r \in WriterType, writer' = [writer EXCEPT ![w] = r],
           OnCourse(w, r, index'.state, disk),
           disk' = disk, index.state = "ok" => index'.state = "ok",
           r.pc \in {"load", "embed"} => \A i \in r.batch : Live(i),
           \A i \in Ids : Live(i) => Live(i)',
           \A i \in Pending' :
              \/ Indexes(w, r, i, row'[i].path)
              \/ /\ i \in Pending /\ row'[i].path = row[i].path /\ (wanted => wanted')
                 /\ ~Indexes(w, writer[w], i, row[i].path)
    PROVE  AllOnCourse' /\ BatchesLive' /\ Covered'
<1>1. TypeOK /\ AllOnCourse /\ BatchesLive /\ Covered
  BY DEF DoneInv
<1>2. writer'[w] = r /\ \A v \in Writers : v # w => writer'[v] = writer[v]
  BY <1>1, Replaced
<1>3. AllOnCourse'
  <2>1. \A v \in Writers : v # w => OnCourse(v, writer[v], index'.state, disk)
    BY <1>1 DEF AllOnCourse, OnCourse
  <2>2. \A v \in Writers : OnCourse(v, writer'[v], index'.state, disk')
    BY <1>2, <2>1
  <2>3. QED
    BY <2>2 DEF AllOnCourse
<1>4. BatchesLive'
  <2>1. \A v \in Writers : \A i \in writer'[v].batch : i \in Ids
    BY <1>1, <1>2, RowsAndWriters DEF WriterType
  <2>2. QED
    BY <1>1, <1>2, <2>1 DEF BatchesLive
<1>5. Covered'
  <2>1. SUFFICES ASSUME NEW i \in Pending'
                 PROVE  wanted' \/ \E v \in Writers : Indexes(v, writer'[v], i, row'[i].path)
    BY DEF Covered
  <2>2. CASE Indexes(w, r, i, row'[i].path)
    BY <1>2, <2>2
  <2>3. CASE /\ i \in Pending /\ row'[i].path = row[i].path /\ (wanted => wanted')
             /\ ~Indexes(w, writer[w], i, row[i].path)
    <3>1. wanted \/ \E v \in Writers : v # w /\ Indexes(v, writer[v], i, row[i].path)
      BY <1>1, <2>3 DEF Covered
    <3>2. QED
      BY <1>2, <2>3, <3>1
  <2>4. QED
    BY <2>2, <2>3
<1>6. QED
  BY <1>3, <1>4, <1>5

\* While the rows stay, so do the facts about them.
LEMMA SameRows ==
    ASSUME UNCHANGED row
    PROVE  Pending' = Pending /\ \A i \in Ids : Live(i)' = Live(i)
  BY DEF Pending, Live

\* The bulk worker starts: it will look at every pending row.
LEMMA BulkStartDone == ASSUME DoneInv, BulkStart PROVE DoneInv'
<1>1. TypeOK /\ IdsFresh /\ Undamaged
  BY DEF DoneInv
<1>2. /\ TypeOK' /\ "bulk" \in Writers
      /\ UNCHANGED <<row, nextId, index, disk, events>>
  BY <1>1, BulkStartMoves DEF world
<1>3. PICK r \in WriterType :
        /\ writer' = [writer EXCEPT !["bulk"] = r]
        /\ r.pc = "scan" /\ r.scan = disk /\ r.files = {} /\ r.ok
  BY <1>1, BulkStartMoves
<1>4. OnCourse("bulk", r, index'.state, disk)
  BY <1>3 DEF OnCourse
<1>5. \A i \in Pending' : Indexes("bulk", r, i, row'[i].path)
  BY <1>3 DEF Indexes
<1>6. AllOnCourse' /\ BatchesLive' /\ Covered'
  BY <1>2, <1>3, <1>4, <1>5, SameRows, Carried
<1>7. IdsFresh' /\ Undamaged'
  BY <1>1, <1>2 DEF IdsFresh, Undamaged, Live
<1>8. QED
  BY <1>2, <1>6, <1>7 DEF DoneInv

\* The incremental worker starts.
LEMMA AppendStartDone == ASSUME DoneInv, NEW P \in SUBSET Paths, AppendStart(P) PROVE DoneInv'
<1>1. TypeOK /\ IdsFresh /\ Undamaged
  BY DEF DoneInv
<1>2. /\ TypeOK' /\ "append" \in Writers /\ writer["append"].pc = "idle"
      /\ \A p \in P : p \in disk
      /\ \A p \in Paths : events'[p] \subseteq events[p]
      /\ UNCHANGED <<row, nextId, index, wanted, disk>>
  BY <1>1, AppendStartMoves DEF Undamaged
<1>3. PICK r \in WriterType :
        /\ writer' = [writer EXCEPT !["append"] = r]
        /\ r.pc = "scan" /\ r.scan = P /\ r.files = P /\ r.ok
  BY <1>1, AppendStartMoves
<1>4. OnCourse("append", r, index'.state, disk)
  BY <1>2, <1>3 DEF OnCourse
<1>5. \A i \in Pending : ~Indexes("append", writer["append"], i, row[i].path)
  BY <1>2 DEF Indexes
<1>6. AllOnCourse' /\ BatchesLive' /\ Covered'
  BY <1>2, <1>3, <1>4, <1>5, SameRows, Carried
<1>7. IdsFresh' /\ Undamaged'
  BY <1>1, <1>2 DEF IdsFresh, Undamaged, Live
<1>8. QED
  BY <1>2, <1>6, <1>7 DEF DoneInv

\* A row is inserted: the writer that scans will look for it later.
LEMMA ScanDone == ASSUME DoneInv, NEW w \in Writers, Scan(w) PROVE DoneInv'
<1>1. TypeOK /\ IdsFresh /\ Undamaged /\ OnCourse(w, writer[w], index.state, disk)
  BY DEF DoneInv, AllOnCourse
<1>2. /\ TypeOK' /\ writer[w].pc = "scan" /\ UNCHANGED <<index, wanted, disk, events>>
  BY <1>1, ScanMoves DEF world
<1>3. PICK r \in WriterType :
        /\ writer' = [writer EXCEPT ![w] = r]
        /\ r.scan \subseteq writer[w].scan /\ r.files = writer[w].files
        /\ r.ok = writer[w].ok
        /\ \/ r.pc = "create" /\ UNCHANGED <<row, nextId>>
           \/ r.pc = "scan" /\ \E p \in writer[w].scan : InsertFile(p)
  BY <1>1, ScanMoves
<1>4. OnCourse(w, r, index'.state, disk)
  BY <1>1, <1>2, <1>3 DEF OnCourse
<1>5. CASE r.pc = "create" /\ UNCHANGED <<row, nextId>>
  <2>1. \A i \in Pending : Indexes(w, writer[w], i, row[i].path) => Indexes(w, r, i, row[i].path)
    BY <1>2, <1>3, <1>5 DEF Indexes
  <2>2. AllOnCourse' /\ BatchesLive' /\ Covered'
    BY <1>2, <1>3, <1>4, <1>5, <2>1, SameRows, Carried
  <2>3. IdsFresh' /\ Undamaged'
    BY <1>1, <1>2, <1>5 DEF IdsFresh, Undamaged, Live
  <2>4. QED
    BY <1>2, <2>2, <2>3 DEF DoneInv
<1>6. CASE r.pc = "scan" /\ \E p \in writer[w].scan : InsertFile(p)
  <2>1. PICK p \in writer[w].scan : InsertFile(p)
    BY <1>6
  <2>2. p \in Paths /\ p \in disk /\ (w = "append" => p \in r.files)
    BY <1>1, <1>3, <2>1, RowsAndWriters DEF OnCourse, WriterType
  <2>3. IdsFresh'
    BY <1>1, <2>1, <2>2, InsertFileKeeps
  <2>4. \A i \in Ids : \/ row'[i] = row[i]
                       \/ row'[i].path = p /\ Live(i)'
    <3>1. row \in [Ids -> RowType]
      BY <1>1, RowsAndWriters
    <3>2. CASE RowsOf(p) = {}
      <4> DEFINE new == [path |-> p, status |-> 0, clip |-> FALSE]
      <4>1. row' = [row EXCEPT ![nextId] = new]
        BY <2>1, <3>2 DEF InsertFile
      <4>2. new.path = p /\ new # NoRow
        BY DEF NoRow
      <4> HIDE DEF new
      <4>3. QED
        BY <3>1, <4>1, <4>2 DEF Live
    <3>3. CASE RowsOf(p) # {}
      <4>1. row' = [i \in Ids |-> IF i \in RowsOf(p) /\ row[i].status = 2
                                  THEN [row[i] EXCEPT !.status = 0] ELSE row[i]]
        BY <2>1, <3>3 DEF InsertFile
      <4>2. \A i \in RowsOf(p) :
               /\ row[i] \in [path : Paths, status : 0..2, clip : BOOLEAN]
               /\ row[i].path = p
        BY <3>1 DEF RowsOf, Live, RowType
      <4>3. \A x \in [path : Paths, status : 0..2, clip : BOOLEAN] :
               [x EXCEPT !.status = 0].path = x.path /\ [x EXCEPT !.status = 0].status = 0
        OBVIOUS
      <4>4. NoRow.status = 2
        BY DEF NoRow
      <4>5. QED
        BY <4>1, <4>2, <4>3, <4>4 DEF Live
    <3>4. QED
      BY <3>2, <3>3
  <2>5. \A i \in Ids : Live(i) => Live(i)'
    BY <2>4 DEF Live
  <2>6. \A i \in Pending' : \/ Indexes(w, r, i, row'[i].path)
                            \/ /\ i \in Pending /\ row'[i].path = row[i].path
                               /\ ~Indexes(w, writer[w], i, row[i].path)
    <3>1. SUFFICES ASSUME NEW i \in Pending', ~Indexes(w, r, i, row'[i].path)
                   PROVE  /\ i \in Pending /\ row'[i].path = row[i].path
                          /\ ~Indexes(w, writer[w], i, row[i].path)
      OBVIOUS
    <3>2. i \in Ids /\ row'[i] = row[i]
      BY <1>6, <2>2, <2>4, <3>1 DEF Indexes, Pending
    <3>3. QED
      BY <1>2, <1>3, <1>6, <3>1, <3>2 DEF Indexes, Pending, Live
  <2>7. AllOnCourse' /\ BatchesLive' /\ Covered'
    BY <1>2, <1>3, <1>4, <1>6, <2>5, <2>6, Carried
  <2>8. Undamaged'
    BY <1>1, <1>2, <2>2, <2>4 DEF Undamaged, Live
  <2>9. QED
    BY <1>2, <2>3, <2>7, <2>8 DEF DoneInv
<1>7. QED
  BY <1>3, <1>5, <1>6

\* The FAISS file is made.
LEMMA CreateDone == ASSUME DoneInv, NEW w \in Writers, Create(w) PROVE DoneInv'
<1>1. TypeOK /\ IdsFresh /\ Undamaged /\ OnCourse(w, writer[w], index.state, disk)
  BY DEF DoneInv, AllOnCourse
<1>2. /\ TypeOK' /\ writer[w].pc = "create" /\ UNCHANGED <<row, nextId, wanted, disk, events>>
      /\ index'.state = IF index.state = "missing" THEN "ok" ELSE index.state
  BY <1>1, CreateMoves DEF world
<1>3. PICK r \in WriterType :
        /\ writer' = [writer EXCEPT ![w] = r]
        /\ r.pc = "pick" /\ r.scan = writer[w].scan /\ r.files = writer[w].files
        /\ r.ok = writer[w].ok
  BY <1>1, CreateMoves
<1>4. index'.state = "ok"
  BY <1>1, <1>2 DEF TypeOK, Undamaged
<1>5. OnCourse(w, r, index'.state, disk)
  BY <1>1, <1>3, <1>4 DEF OnCourse
<1>6. \A i \in Pending : Indexes(w, writer[w], i, row[i].path) => Indexes(w, r, i, row[i].path)
  BY <1>2, <1>3 DEF Indexes
<1>7. AllOnCourse' /\ BatchesLive' /\ Covered'
  BY <1>2, <1>3, <1>4, <1>5, <1>6, SameRows, Carried
<1>8. IdsFresh' /\ Undamaged'
  BY <1>1, <1>2, <1>4 DEF IdsFresh, Undamaged, Live
<1>9. QED
  BY <1>2, <1>7, <1>8 DEF DoneInv

\* A batch is picked, or nothing is left that the writer is to index.
LEMMA PickDone == ASSUME DoneInv, NEW w \in Writers, Pick(w) PROVE DoneInv'
<1>1. TypeOK /\ IdsFresh /\ Undamaged /\ OnCourse(w, writer[w], index.state, disk)
  BY DEF DoneInv, AllOnCourse
<1>2. /\ TypeOK' /\ writer[w].pc = "pick"
      /\ UNCHANGED <<row, nextId, index, wanted, disk, events>>
  BY <1>1, PickMoves DEF store, world
<1>3. PICK r \in WriterType :
        /\ writer' = [writer EXCEPT ![w] = r]
        /\ r.scan = writer[w].scan /\ r.files = writer[w].files /\ r.ok = writer[w].ok
        /\ r.batch \subseteq Pending
        /\ w = "append" => \A i \in Pending : row[i].path \in writer[w].files => i \in r.batch
        /\ \/ r.pc = "load" /\ r.batch # {}
           \/ r.pc = "report" /\ r.batch = {} /\ (w = "bulk" => Pending = {})
  BY <1>1, PickMoves
<1>4. OnCourse(w, r, index'.state, disk)
  BY <1>1, <1>2, <1>3 DEF OnCourse
<1>5. w = "bulk" \/ w = "append"
  BY FolderAssumption
<1>6. \A i \in Pending : Indexes(w, writer[w], i, row[i].path) => Indexes(w, r, i, row[i].path)
  BY <1>2, <1>3, <1>5 DEF Indexes
<1>7. \A i \in r.batch : Live(i)
  BY <1>3 DEF Pending
<1>8. AllOnCourse' /\ BatchesLive' /\ Covered'
  BY <1>2, <1>3, <1>4, <1>6, <1>7, SameRows, Carried
<1>9. IdsFresh' /\ Undamaged'
  BY <1>1, <1>2 DEF IdsFresh, Undamaged, Live
<1>10. QED
  BY <1>2, <1>8, <1>9 DEF DoneInv

\* The file can be read.
LEMMA LoadDone == ASSUME DoneInv, NEW w \in Writers, Load(w) PROVE DoneInv'
<1>1. TypeOK /\ IdsFresh /\ Undamaged /\ OnCourse(w, writer[w], index.state, disk) /\ BatchesLive
  BY DEF DoneInv, AllOnCourse
<1>2. /\ TypeOK' /\ writer[w].pc = "load" /\ UNCHANGED <<row, nextId, wanted, disk, events>>
  BY <1>1, LoadMoves DEF world
<1>3. index.state = "ok"
  BY <1>1, <1>2 DEF OnCourse
<1>4. index' = index
  BY <1>1, <1>3, LoadMoves
<1>5. PICK r \in WriterType :
        /\ writer' = [writer EXCEPT ![w] = r]
        /\ r.pc = "embed" /\ r.scan = writer[w].scan /\ r.files = writer[w].files
        /\ r.batch = writer[w].batch /\ r.ok
  BY <1>1, <1>3, LoadMoves
<1>6. OnCourse(w, r, index'.state, disk)
  BY <1>1, <1>2, <1>3, <1>4, <1>5 DEF OnCourse
<1>7. \A i \in Pending : Indexes(w, writer[w], i, row[i].path) => Indexes(w, r, i, row[i].path)
  BY <1>2, <1>5 DEF Indexes
<1>8. \A i \in r.batch : Live(i)
  BY <1>1, <1>2, <1>5 DEF BatchesLive
<1>9. AllOnCourse' /\ BatchesLive' /\ Covered'
  BY <1>2, <1>4, <1>5, <1>6, <1>7, <1>8, SameRows, Carried
<1>10. IdsFresh' /\ Undamaged'
  BY <1>1, <1>2, <1>4 DEF IdsFresh, Undamaged, Live
<1>11. QED
  BY <1>2, <1>9, <1>10 DEF DoneInv

\* All images of a batch exist and are decoded.
LEMMA EmbedDone == ASSUME Faultless, DoneInv, NEW w \in Writers, Embed(w) PROVE DoneInv'
<1>1. TypeOK /\ IdsFresh /\ Undamaged /\ OnCourse(w, writer[w], index.state, disk) /\ BatchesLive
  BY DEF DoneInv, AllOnCourse
<1>2. /\ TypeOK' /\ writer[w].pc = "embed"
      /\ UNCHANGED <<nextId, index, wanted, disk, events>>
  BY <1>1, EmbedTypes DEF Embed, world
<1>3. writer[w] \in WriterType
  BY <1>1, RowsAndWriters
<1> DEFINE batch == writer[w].batch
           r == [[[writer[w] EXCEPT !.todo = batch] EXCEPT !.ok = TRUE] EXCEPT !.pc = "write"]
<1>4. batch \subseteq Ids /\ batch # {} /\ \A i \in batch : row[i].path \in disk
  BY <1>1, <1>2, <1>3 DEF WriterType, OnCourse, BatchesLive, Undamaged
<1>5. row' = row /\ writer' = [writer EXCEPT ![w].todo = batch, ![w].ok = TRUE, ![w].pc = "write"]
  <2> DEFINE Job(i) == (Cardinality({j \in batch : j < i})) \div SubBatch
             absent == {i \in batch : row[i].path \notin disk}
  <2>1. PICK bad \in SUBSET batch, broken \in SUBSET {Job(i) : i \in batch} :
          LET good == batch \ (bad \cup absent)
              done == {Job(i) : i \in good} \ broken
              valid == {i \in good : Job(i) \in done}
              skipped == IF valid = {} THEN batch
                         ELSE {i \in batch \ good : Job(i) \in done}
          IN  /\ bad # {} => "undecodable" \in Ops
              /\ broken # {} => "fail" \in Ops
              /\ row' = Marked(skipped)
              /\ writer' = [writer EXCEPT ![w].todo = valid,
                                          ![w].ok = valid # {} /\ broken = {},
                                          ![w].pc = IF valid = {} THEN "report" ELSE "write"]
    BY DEF Embed
  <2> HIDE DEF Job
  <2>2. bad = {} /\ broken = {} /\ absent = {}
    BY <1>4, <2>1 DEF Faultless
  <2> DEFINE good == batch \ (bad \cup absent)
             done == {Job(i) : i \in good} \ broken
             valid == {i \in good : Job(i) \in done}
             skipped == IF valid = {} THEN batch ELSE {i \in batch \ good : Job(i) \in done}
  <2>3. good = batch
    BY <2>2
  <2>4. valid = batch
    BY <2>2, <2>3
  <2>5. skipped = {}
    BY <1>4, <2>3, <2>4
  <2>6. /\ row' = Marked(skipped)
        /\ writer' = [writer EXCEPT ![w].todo = valid,
                                    ![w].ok = valid # {} /\ broken = {},
                                    ![w].pc = IF valid = {} THEN "report" ELSE "write"]
    BY <2>1
  <2> HIDE DEF good, done, valid, skipped
  <2>7. Marked({}) = row
    <3>1. row \in [Ids -> RowType]
      BY <1>1, RowsAndWriters
    <3>2. QED
      BY <3>1 DEF Marked
  <2>8. (valid # {} /\ broken = {}) = TRUE
    BY <1>4, <2>2, <2>4
  <2>9. QED
    BY <1>4, <2>2, <2>4, <2>5, <2>6, <2>7, <2>8
<1>6. /\ r \in WriterType /\ r.pc = "write" /\ r.scan = writer[w].scan
      /\ r.files = writer[w].files /\ r.todo = writer[w].batch /\ r.ok
      /\ writer' = [writer EXCEPT ![w] = r]
  BY <1>3, <1>4, <1>5 DEF WriterType, PCs
<1> HIDE DEF r, batch
<1>7. OnCourse(w, r, index'.state, disk)
  BY <1>1, <1>2, <1>6 DEF OnCourse
<1>8. \A i \in Pending : Indexes(w, writer[w], i, row[i].path) => Indexes(w, r, i, row[i].path)
  BY <1>2, <1>6 DEF Indexes
<1>9. AllOnCourse' /\ BatchesLive' /\ Covered'
  BY <1>2, <1>5, <1>6, <1>7, <1>8, SameRows, Carried
<1>10. IdsFresh' /\ Undamaged'
  BY <1>1, <1>2, <1>5 DEF IdsFresh, Undamaged, Live
<1>11. QED
  BY <1>2, <1>9, <1>10 DEF DoneInv

\* The file is replaced.
LEMMA WriteDone == ASSUME DoneInv, NEW w \in Writers, Write(w) PROVE DoneInv'
<1>1. TypeOK /\ IdsFresh /\ Undamaged /\ OnCourse(w, writer[w], index.state, disk)
  BY DEF DoneInv, AllOnCourse
<1>2. /\ TypeOK' /\ writer[w].pc = "write" /\ UNCHANGED <<row, nextId, wanted, disk, events>>
      /\ index'.state = "ok"
  BY <1>1, WriteMoves DEF world
<1>3. PICK r \in WriterType :
        /\ writer' = [writer EXCEPT ![w] = r]
        /\ r.pc = "commit" /\ r.scan = writer[w].scan /\ r.files = writer[w].files
        /\ r.todo = writer[w].todo /\ r.ok = writer[w].ok
  BY <1>1, WriteMoves
<1>4. OnCourse(w, r, index'.state, disk)
  BY <1>1, <1>2, <1>3 DEF OnCourse
<1>5. \A i \in Pending : Indexes(w, writer[w], i, row[i].path) => Indexes(w, r, i, row[i].path)
  BY <1>2, <1>3 DEF Indexes
<1>6. AllOnCourse' /\ BatchesLive' /\ Covered'
  BY <1>2, <1>3, <1>4, <1>5, SameRows, Carried
<1>7. IdsFresh' /\ Undamaged'
  BY <1>1, <1>2 DEF IdsFresh, Undamaged, Live
<1>8. QED
  BY <1>2, <1>6, <1>7 DEF DoneInv

\* A row is marked indexed, or the batch is done and the bulk worker looks again.
LEMMA CommitDone == ASSUME DoneInv, NEW w \in Writers, Commit(w) PROVE DoneInv'
<1>1. TypeOK /\ IdsFresh /\ Undamaged /\ OnCourse(w, writer[w], index.state, disk)
  BY DEF DoneInv, AllOnCourse
<1>2. /\ TypeOK' /\ writer[w].pc = "commit"
      /\ UNCHANGED <<nextId, index, wanted, disk, events>>
  BY <1>1, CommitMoves DEF world
<1>3. PICK r \in WriterType :
        /\ writer' = [writer EXCEPT ![w] = r]
        /\ r.scan = writer[w].scan /\ r.files = writer[w].files /\ r.ok = writer[w].ok
        /\ \/ /\ writer[w].todo = {} /\ row' = row
              /\ r.pc = IF w = "bulk" /\ writer[w].ok THEN "pick" ELSE "report"
           \/ \E i \in writer[w].todo :
                 /\ r.pc = "commit" /\ r.todo = writer[w].todo \ {i}
                 /\ Live(i) => row'[i].status = 1 /\ row'[i].path = row[i].path /\ row'[i].clip
                 /\ ~Live(i) => row'[i] = row[i]
                 /\ \A j \in Ids : j # i => row'[j] = row[j]
  BY <1>1, CommitMoves
<1>4. OnCourse(w, r, index'.state, disk)
  BY <1>1, <1>2, <1>3 DEF OnCourse
<1>5. w = "bulk" \/ w = "append"
  BY FolderAssumption
<1>6. CASE /\ writer[w].todo = {} /\ row' = row
           /\ r.pc = IF w = "bulk" /\ writer[w].ok THEN "pick" ELSE "report"
  <2>1. \A i \in Pending : Indexes(w, writer[w], i, row[i].path) => Indexes(w, r, i, row[i].path)
    BY <1>1, <1>2, <1>3, <1>5, <1>6 DEF Indexes, OnCourse
  <2>2. r.pc \notin {"load", "embed"}
    BY <1>6
  <2>3. AllOnCourse' /\ BatchesLive' /\ Covered'
    BY <1>2, <1>3, <1>4, <1>6, <2>1, <2>2, SameRows, Carried
  <2>4. IdsFresh' /\ Undamaged'
    BY <1>1, <1>2, <1>6 DEF IdsFresh, Undamaged, Live
  <2>5. QED
    BY <1>2, <2>3, <2>4 DEF DoneInv
<1>7. ASSUME NEW i \in writer[w].todo,
             r.pc = "commit" /\ r.todo = writer[w].todo \ {i},
             Live(i) => row'[i].status = 1 /\ row'[i].path = row[i].path /\ row'[i].clip,
             ~Live(i) => row'[i] = row[i],
             \A j \in Ids : j # i => row'[j] = row[j]
      PROVE  DoneInv'
  <2>1. i \in Ids
    BY <1>1, RowsAndWriters DEF WriterType
  <2>2. \A j \in Ids : row'[j].path = row[j].path /\ (Live(j)' <=> Live(j))
    <3>1. Live(i) => row'[i] # NoRow
      BY <1>7 DEF NoRow
    <3>2. QED
      BY <1>7, <3>1 DEF Live
  <2>3. \A j \in Pending' : j # i /\ j \in Pending /\ row'[j].path = row[j].path
    BY <1>7, <2>2 DEF Pending, Live
  <2>4. \A j \in Pending' : Indexes(w, writer[w], j, row[j].path) => Indexes(w, r, j, row'[j].path)
    BY <1>2, <1>7, <2>3 DEF Indexes
  <2>5. AllOnCourse' /\ BatchesLive' /\ Covered'
    BY <1>2, <1>3, <1>4, <1>7, <2>2, <2>3, <2>4, Carried
  <2>6. IdsFresh' /\ Undamaged'
    BY <1>1, <1>2, <2>2 DEF IdsFresh, Undamaged, Live
  <2>7. QED
    BY <1>2, <2>5, <2>6 DEF DoneInv
<1>8. QED
  BY <1>3, <1>6, <1>7

\* A writer ends: it had nothing left to index.
LEMMA ReportDone == ASSUME DoneInv, NEW w \in Writers, Report(w) PROVE DoneInv'
<1>1. TypeOK /\ IdsFresh /\ Undamaged
  BY DEF DoneInv
<1>2. /\ TypeOK' /\ writer[w].pc = "report" /\ UNCHANGED <<row, nextId, index, disk, events>>
      /\ wanted => wanted'
      /\ writer' = [writer EXCEPT ![w] = NoWriter]
  BY <1>1, ReportMoves DEF world
<1>3. OnCourse(w, NoWriter, index'.state, disk) /\ NoWriter \in WriterType
      /\ NoWriter.pc \notin {"load", "embed"}
  BY EmptyFacts DEF OnCourse, NoWriter
<1>4. \A i \in Pending : ~Indexes(w, writer[w], i, row[i].path)
  BY <1>2 DEF Indexes
<1>5. AllOnCourse' /\ BatchesLive' /\ Covered'
  BY <1>2, <1>3, <1>4, SameRows, Carried
<1>6. IdsFresh' /\ Undamaged'
  BY <1>1, <1>2 DEF IdsFresh, Undamaged, Live
<1>7. QED
  BY <1>2, <1>5, <1>6 DEF DoneInv

\* Recoveries and failed writes do not happen.
LEMMA NoFailure == ASSUME Faultless, DoneInv, NEW w \in Writers PROVE ~Recover(w) /\ ~WriteFails(w)
  BY DEF DoneInv, AllOnCourse, OnCourse, Recover, WriteFails, Faultless

\* Every step of a writer.
LEMMA WriterStepDone == ASSUME Faultless, DoneInv, NEW w \in Writers, WriterStep(w) PROVE DoneInv'
  BY ScanDone, CreateDone, PickDone, LoadDone, EmbedDone, WriteDone, CommitDone, ReportDone, NoFailure
     DEF WriterStep

\* Files appear, users ask for a re-index, the process is restarted.
LEMMA WorldDone ==
    ASSUME Faultless, DoneInv,
           \/ \E p \in Paths : CreateFile(p) \/ DeleteFile(p) \/ FileDeleted(p)
           \/ Reindex \/ CorruptIndex \/ Crash
    PROVE  DoneInv'
<1>1. TypeOK /\ IdsFresh /\ Undamaged /\ AllOnCourse /\ BatchesLive /\ Covered /\ TypeOK'
  BY WorldTypes DEF DoneInv
<1>2. ~CorruptIndex /\ \A p \in Paths : ~DeleteFile(p) /\ ~FileDeleted(p)
  BY <1>1 DEF Faultless, CorruptIndex, DeleteFile, FileDeleted, Undamaged
<1>3. ASSUME NEW p \in Paths, CreateFile(p) PROVE DoneInv'
  <2>1. /\ UNCHANGED <<row, nextId, index, wanted, writer>> /\ disk \subseteq disk'
        /\ p \in disk' /\ \A q \in Paths : q # p => events'[q] = events[q]
        /\ events'[p] = events[p] \cup {"created"}
    BY <1>1, <1>3 DEF CreateFile, Change, store, TypeOK
  <2>2. IdsFresh' /\ BatchesLive' /\ Covered'
    BY <1>1, <2>1 DEF IdsFresh, BatchesLive, Covered, Pending, Live
  <2>3. AllOnCourse'
    <3>1. \A w \in Writers : OnCourse(w, writer[w], index.state, disk')
      BY <1>1, <2>1 DEF AllOnCourse, OnCourse
    <3>2. QED
      BY <2>1, <3>1 DEF AllOnCourse
  <2>4. Undamaged'
    BY <1>1, <2>1 DEF Undamaged, Live
  <2>5. QED
    BY <1>1, <2>2, <2>3, <2>4 DEF DoneInv
<1>4. CASE Reindex
  <2>1. UNCHANGED <<row, nextId, index, writer, disk, events>> /\ (wanted => wanted')
    BY <1>4 DEF Reindex, world
  <2>2. IdsFresh' /\ BatchesLive' /\ Undamaged' /\ AllOnCourse'
    BY <1>1, <2>1 DEF IdsFresh, BatchesLive, Undamaged, AllOnCourse, Live
  <2>3. Covered'
    BY <1>1, <2>1 DEF Covered, Pending, Live
  <2>4. QED
    BY <1>1, <2>2, <2>3 DEF DoneInv
<1>5. CASE Crash
  <2>1. /\ UNCHANGED <<row, nextId, index, disk>> /\ wanted'
        /\ \A w \in Writers : writer'[w] = NoWriter
        /\ \A p \in Paths : events'[p] = {}
    BY <1>5 DEF Crash, store
  <2>2. IdsFresh' /\ Covered' /\ Undamaged'
    BY <1>1, <2>1 DEF IdsFresh, Covered, Undamaged, Live
  <2>3. AllOnCourse' /\ BatchesLive'
    <3>1. \A w \in Writers : OnCourse(w, NoWriter, index.state, disk)
      BY DEF OnCourse, NoWriter
    <3>2. NoWriter.pc = "idle"
      BY DEF NoWriter
    <3>3. QED
      BY <2>1, <3>1, <3>2 DEF AllOnCourse, BatchesLive
  <2>4. QED
    BY <1>1, <2>2, <2>3 DEF DoneInv
<1>6. QED
  BY <1>2, <1>3, <1>4, <1>5

\* At first nothing is in the database and the scheduler starts a worker.
LEMMA InitDone == Init => DoneInv
<1> SUFFICES ASSUME Init PROVE DoneInv
  OBVIOUS
<1>1. /\ TypeOK /\ wanted /\ index.state = "missing"
      /\ \A i \in Ids : row[i] = NoRow
      /\ \A w \in Writers : writer[w] = NoWriter
      /\ \A p \in Paths : events[p] = {}
  BY InitTypes DEF Init
<1>2. \A w \in Writers : OnCourse(w, NoWriter, index.state, disk)
  BY DEF OnCourse, NoWriter
<1>3. NoWriter.pc = "idle"
  BY DEF NoWriter
<1>4. QED
  BY <1>1, <1>2, <1>3 DEF DoneInv, IdsFresh, Undamaged, Live, AllOnCourse, BatchesLive, Covered

LEMMA NextDone == Faultless /\ DoneInv /\ [Next]_vars => DoneInv'
<1> SUFFICES ASSUME Faultless, DoneInv, [Next]_vars PROVE DoneInv'
  OBVIOUS
<1>1. CASE UNCHANGED vars
  BY <1>1 DEF vars, DoneInv, TypeOK, IdsFresh, Undamaged, AllOnCourse, BatchesLive, Covered, Pending, Live
<1>2. CASE BulkStart
  BY <1>2, BulkStartDone
<1>3. ASSUME NEW P \in SUBSET Paths, AppendStart(P) PROVE DoneInv'
  BY <1>3, AppendStartDone
<1>4. ASSUME NEW w \in Writers, WriterStep(w) PROVE DoneInv'
  BY <1>4, WriterStepDone
<1>5. CASE \/ \E p \in Paths : CreateFile(p) \/ DeleteFile(p) \/ FileDeleted(p)
           \/ Reindex \/ CorruptIndex \/ Crash
  BY <1>5, WorldDone
<1>6. QED
  BY <1>1, <1>2, <1>3, <1>4, <1>5 DEF Next

\* A folder that is reported as indexed has no pending row once its threads have
\* ended, with the bulk and the incremental writer side by side, for any images,
\* batch sizes, creations, re-index requests and crashes: rows that one writer
\* inserts behind the other's back are indexed by one of them.
THEOREM ReportedMeansDoneHolds == Faultless => (Spec => []ReportedMeansDone)
<1> SUFFICES ASSUME Faultless PROVE Spec => []ReportedMeansDone
  OBVIOUS
<1>1. Init => DoneInv
  BY InitDone
<1>2. DoneInv /\ [Next]_vars => DoneInv'
  BY NextDone
<1>3. DoneInv => ReportedMeansDone
  <2>1. SUFFICES ASSUME DoneInv, ~wanted, \A w \in Writers : ~Running(w) PROVE Pending = {}
    BY DEF ReportedMeansDone
  <2>2. \A w \in Writers : writer[w].pc = "idle"
    BY <2>1 DEF Running
  <2>3. \A w \in Writers : \A i \in Ids : ~Indexes(w, writer[w], i, row[i].path)
    BY <2>2 DEF Indexes
  <2>4. Pending \subseteq Ids
    BY DEF Pending
  <2>5. QED
    BY <2>1, <2>3, <2>4 DEF DoneInv, Covered
<1>4. QED
  BY <1>1, <1>2, <1>3, PTL DEF Spec

=============================================================================
