----------------------------- MODULE Memory_proofs -----------------------------
(***************************************************************************)
(* What the memories guarantee for any threads, documents, notes, cap and  *)
(* number of rows:                                                         *)
(*   TypeCorrect         the type invariant                                *)
(*   NothingIsSilent     a row that is gone is in the audit log, or a call *)
(*                       that was cut off is to blame                      *)
(*   DecaySparesPinned   a trim takes no pinned row that it listed         *)
(*   TheCapHolds         trims that overlap leave no more rows than the    *)
(*                       cap                                               *)
(*   NoDuplicates        a document of one piece is remembered once        *)
(***************************************************************************)
EXTENDS Memory, FiniteSetTheorems, SequenceTheorems, TLAPS

Rows == [kind : Kinds, hash : Hashes \union {"other"}, pinned : BOOLEAN, ingested : BOOLEAN]
AnyHash == Hashes \union {"other"}
WorkType == [list : Seq(Docs), piece : Nat, known : SUBSET AnyHash, row : {NoRow} \union Rows,
             victims : SUBSET Nat, gone : Nat, late : SUBSET Nat]

MemTypes ==
    /\ mem \in Seq({NoRow} \union Rows)
    /\ Len(mem) <= MaxRows
    /\ logged \subseteq Ids
    /\ pc \in [Threads -> Labels]
    /\ work \in [Threads -> WorkType]
    /\ past \in [cut : SUBSET Nat, loose : BOOLEAN, together : BOOLEAN]

\* A call of remember inside an ingestion keeps the place in the document; the list of
\* a trim names rows that are there or were, and those that are pinned now were
\* pinned since.
ThreadInv(t) ==
    LET w == work[t] IN
    /\ pc[t] = "idle" => w = NoWork
    /\ pc[t] \in {"doc", "piece", "chunk"} => w.list # <<>>
    /\ w.list # <<>> /\ pc[t] # "doc" => w.piece \in 1..Len(Pieces[Head(w.list)])
    /\ pc[t] = "insert" => w.row \in Rows
    /\ w.victims \subseteq Ids
    /\ pc[t] \in {"logDecay", "logForget"} => w.gone \in Ids
    /\ pc[t] \notin {"delete", "logDecay"} => w.victims = {}
    /\ \A i \in w.victims : mem[i].pinned => i \in w.late

\* Once nobody is about to list the rows, those that no list names are within the cap,
\* or none of them may be deleted.
Doomed == UNION {work[t].victims : t \in Threads}
Kept == ShortTerm \ Doomed
Free == Unpinned \ Doomed
CapInv ==
    ~past.loose /\ (\A t \in Threads : pc[t] # "trim")
        => Cardinality(Kept) <= SHORT_TERM_CAP \/ Free = {}

MemInv == MemTypes /\ DeletedIsLogged /\ CapInv /\ \A t \in Threads : ThreadInv(t)

\* What a step of one thread leaves alone.
Others(t) == \A u \in Threads \ {t} : pc'[u] = pc[u] /\ work'[u] = work[u]

LEMMA MemInvInit == Init => MemInv
<1> SUFFICES ASSUME Init PROVE MemInv
  OBVIOUS
<1>1. Ids = {} /\ Len(mem) = 0
  BY DEF Init, Ids
<1>2. NoWork \in WorkType /\ NoWork.victims = {} /\ NoWork.list = <<>>
  BY DEF NoWork, WorkType, Rows
<1>3. MemTypes
  BY <1>1, <1>2, MemoryAssumption DEF Init, MemTypes, Labels, NoPast
<1>4. \A t \in Threads : ThreadInv(t)
  BY <1>2 DEF Init, ThreadInv
<1>5. CapInv
  <2>1. Free = {}
    BY <1>1 DEF Free, Unpinned, ShortTerm
  <2> QED BY <2>1 DEF CapInv
<1> QED BY <1>1, <1>3, <1>4, <1>5 DEF MemInv, DeletedIsLogged

\* What is known of a thread stays when another one steps: rows stay in their places,
\* and none is pinned.
LEMMA Elsewhere ==
    ASSUME MemTypes, NEW u \in Threads, ThreadInv(u), pc'[u] = pc[u], work'[u] = work[u],
           Ids \subseteq Ids', \A i \in Ids : mem'[i].pinned => mem[i].pinned
    PROVE  ThreadInv(u)'
  BY DEF ThreadInv

\* The cap holds after a step that adds no row and unpins none.
LEMMA CapStays ==
    ASSUME MemTypes, CapInv, past.loose => past'.loose, Kept' \subseteq Kept, Free' \subseteq Free,
           \/ past'.loose
           \/ (\A u \in Threads : pc'[u] # "trim") => \A u \in Threads : pc[u] # "trim"
    PROVE  CapInv'
<1>1. IsFiniteSet(Kept)
  <2>1. Len(mem) \in Nat
    BY DEF MemTypes
  <2>2. IsFiniteSet(Ids)
    BY <2>1, FS_Interval DEF Ids
  <2>3. Kept \subseteq Ids
    BY DEF Kept, ShortTerm
  <2> QED BY <2>2, <2>3, FS_Subset
<1>2. /\ Cardinality(Kept') <= Cardinality(Kept)
      /\ Cardinality(Kept) \in Nat /\ Cardinality(Kept') \in Nat
  BY <1>1, FS_Subset, FS_CardinalityType
<1>3. SHORT_TERM_CAP \in Nat
  BY MemoryAssumption
<1> QED BY <1>2, <1>3 DEF CapInv

LEMMA SameRows ==
    ASSUME mem' = mem, \A u \in Threads : work'[u].victims = work[u].victims
    PROVE  Kept' = Kept /\ Free' = Free /\ Ids' = Ids
<1>1. Doomed' = Doomed
  BY DEF Doomed
<1> QED BY <1>1 DEF Kept, Free, ShortTerm, Unpinned, Ids

\* A step that leaves the rows and the lists of the trims as they are.
LEMMA MemQuiet ==
    ASSUME MemInv, NEW t \in Threads, mem' = mem, Others(t), MemTypes', ThreadInv(t)',
           logged \subseteq logged', past.cut \subseteq past'.cut,
           work'[t].victims = work[t].victims, past'.loose = past.loose, pc[t] # "trim",
           pc[t] \in {"logDecay", "logForget"} => work[t].gone \in logged' \union past'.cut
    PROVE  MemInv'
<1>1. \A u \in Threads : work'[u].victims = work[u].victims
  BY DEF Others
<1>2. Kept' = Kept /\ Free' = Free /\ Ids' = Ids
  BY <1>1, SameRows
<1>3. \A u \in Threads : ThreadInv(u)'
  <2> SUFFICES ASSUME NEW u \in Threads, u # t PROVE ThreadInv(u)'
    OBVIOUS
  <2> QED BY <1>2, Elsewhere DEF MemInv, Others
<1>4. DeletedIsLogged'
  BY <1>2 DEF MemInv, DeletedIsLogged, Others
<1>5. CapInv'
  BY <1>2, CapStays DEF MemInv, Others
<1> QED BY <1>3, <1>4, <1>5 DEF MemInv

\* Every local of a thread has its type.
LEMMA WorkTypes ==
    ASSUME MemTypes, NEW t \in Threads
    PROVE  /\ work[t] \in WorkType /\ NoWork \in WorkType
           /\ NoWork.victims = {} /\ NoWork.list = <<>> /\ NoWork.late = {}
  BY DEF MemTypes, NoWork, WorkType

LEMMA MemRemember ==
    ASSUME MemInv, NEW t \in Threads, NEW note \in Notes, Remember(t, note)
    PROVE  MemInv'
<1> DEFINE row == Row(note.kind, note.hash, note.pinned, FALSE)
           w == [NoWork EXCEPT !.row = row]
<1>1. row \in Rows
  BY MemoryAssumption DEF Row, Rows, Kinds
<1>2. w \in WorkType /\ w.row = row /\ w.list = <<>> /\ w.victims = {}
  <2> HIDE DEF row
  <2>1. NoWork \in WorkType /\ NoWork.list = <<>> /\ NoWork.victims = {}
    BY WorkTypes DEF MemInv
  <2> QED BY <1>1, <2>1 DEF WorkType
<1>3. Go(t, "idle", "insert", w) /\ UNCHANGED <<mem, logged, past>>
  BY DEF Remember
<1> HIDE DEF w, row
<1>4. /\ pc' \in [Threads -> Labels] /\ work' \in [Threads -> WorkType]
      /\ Others(t) /\ pc[t] = "idle" /\ pc'[t] = "insert" /\ work'[t] = w
  BY <1>2, <1>3, WorkTypes DEF Go, Others, MemInv, MemTypes, Labels
<1>5. MemTypes'
  BY <1>3, <1>4 DEF MemInv, MemTypes, Ids
<1>6. ThreadInv(t)'
  BY <1>1, <1>2, <1>4 DEF ThreadInv
<1>7. work[t] = NoWork
  BY <1>4 DEF MemInv, ThreadInv
<1> QED BY <1>2, <1>3, <1>4, <1>5, <1>6, <1>7, MemQuiet, WorkTypes DEF MemInv

LEMMA MemIngest ==
    ASSUME MemInv, NEW t \in Threads, NEW list \in Lists, Ingest(t, list)
    PROVE  MemInv'
<1> DEFINE w == [NoWork EXCEPT !.list = list, !.known = Stored]
<1>1. list \in Seq(Docs) /\ list # <<>>
  BY MemoryAssumption
<1>2. Stored \subseteq AnyHash
  BY DEF Stored, Ids, MemInv, MemTypes, Rows, NoRow, AnyHash
<1>3. w \in WorkType /\ w.list = list /\ w.victims = {}
  BY <1>1, <1>2 DEF NoWork, WorkType
<1>4. /\ Go(t, "idle", "doc", w) /\ UNCHANGED <<mem, logged>>
      /\ past'.cut = past.cut /\ past'.loose = past.loose
      /\ past' \in [cut : SUBSET Nat, loose : BOOLEAN, together : BOOLEAN]
  BY DEF Ingest, MemInv, MemTypes
<1> HIDE DEF w
<1>5. /\ pc' \in [Threads -> Labels] /\ work' \in [Threads -> WorkType]
      /\ Others(t) /\ pc[t] = "idle" /\ pc'[t] = "doc" /\ work'[t] = w
  BY <1>3, <1>4, WorkTypes DEF Go, Others, MemInv, MemTypes, Labels
<1>6. MemTypes'
  BY <1>4, <1>5 DEF MemInv, MemTypes, Ids
<1>7. ThreadInv(t)'
  BY <1>1, <1>3, <1>5 DEF ThreadInv
<1>8. work[t] = NoWork
  BY <1>5 DEF MemInv, ThreadInv
<1> QED BY <1>3, <1>4, <1>5, <1>6, <1>7, <1>8, MemQuiet, WorkTypes DEF MemInv

\* The places of an ingestion: a document is next, and pieces of it are left.
LEMMA Places ==
    ASSUME MemInv, NEW t \in Threads, work[t].list # <<>>
    PROVE  /\ Head(work[t].list) \in Docs /\ Tail(work[t].list) \in Seq(Docs)
           /\ Pieces[Head(work[t].list)] \in Seq(Hashes)
           /\ Len(Pieces[Head(work[t].list)]) \in Nat \ {0}
<1>1. work[t].list \in Seq(Docs)
  BY DEF MemInv, MemTypes, WorkType
<1>2. Head(work[t].list) \in Docs /\ Tail(work[t].list) \in Seq(Docs)
  BY <1>1, HeadTailProperties
<1>3. \A d \in Docs : Pieces[d] \in Seq(Hashes) /\ Pieces[d] # <<>>
  BY MemoryAssumption
<1>4. \A q \in Seq(Hashes) : q # <<>> => Len(q) \in Nat \ {0}
  BY EmptySeq, LenProperties
<1> QED BY <1>2, <1>3, <1>4

LEMMA MemDoc == ASSUME MemInv, NEW t \in Threads, Doc(t) PROVE MemInv'
<1> DEFINE next == NextDoc(t, work[t].known)
           first == [work[t] EXCEPT !.piece = 1]
<1>0. pc[t] = "doc" /\ UNCHANGED <<mem, logged, past>>
  BY DEF Doc
<1>1. work[t].list # <<>> /\ work[t] \in WorkType /\ work[t].victims = {}
  BY <1>0 DEF MemInv, ThreadInv, MemTypes
<1>2. next \in WorkType /\ next.victims = {}
  BY <1>1, Places DEF NextDoc, WorkType
<1>3. first \in WorkType /\ first.victims = {} /\ first.list = work[t].list /\ first.piece = 1
  BY <1>1 DEF WorkType
<1>4. \/ Go(t, "doc", "idle", next)
      \/ next.list # <<>> /\ Go(t, "doc", "doc", next)
      \/ Go(t, "doc", "piece", first)
  BY DEF Doc
<1> HIDE DEF next, first
<1>5. /\ pc' \in [Threads -> Labels] /\ work' \in [Threads -> WorkType] /\ Others(t)
      /\ \/ pc'[t] = "idle" /\ work'[t] = NoWork
         \/ pc'[t] = "doc" /\ work'[t] = next /\ next.list # <<>>
         \/ pc'[t] = "piece" /\ work'[t] = first
  BY <1>2, <1>3, <1>4, WorkTypes DEF Go, Others, MemInv, MemTypes, Labels
<1>6. MemTypes'
  BY <1>0, <1>5 DEF MemInv, MemTypes, Ids
<1>7. ThreadInv(t)'
  BY <1>1, <1>2, <1>3, <1>5, Places, WorkTypes DEF ThreadInv, MemInv
<1> QED BY <1>0, <1>1, <1>2, <1>3, <1>5, <1>6, <1>7, MemQuiet, WorkTypes DEF MemInv

LEMMA MemPiece == ASSUME MemInv, NEW t \in Threads, Piece(t) PROVE MemInv'
<1> DEFINE row == Row("semantic", Pieces[Head(work[t].list)][work[t].piece], FALSE, TRUE)
           w == [work[t] EXCEPT !.row = row]
<1>0. pc[t] = "piece" /\ UNCHANGED <<mem, logged, past>>
  BY DEF Piece
<1>1. /\ work[t].list # <<>> /\ work[t] \in WorkType /\ work[t].victims = {}
      /\ work[t].piece \in 1..Len(Pieces[Head(work[t].list)])
  BY <1>0 DEF MemInv, ThreadInv, MemTypes
<1>2. row \in Rows
  <2>1. Pieces[Head(work[t].list)][work[t].piece] \in Hashes
    BY <1>1, Places, ElementOfSeq
  <2> QED BY <2>1 DEF Row, Rows, Kinds
<1>3. /\ w \in WorkType /\ w.victims = {} /\ w.row = row
      /\ w.list = work[t].list /\ w.piece = work[t].piece
  BY <1>1, <1>2 DEF WorkType
<1>4. Go(t, "piece", "insert", w) \/ Go(t, "piece", "chunk", work[t])
  BY DEF Piece
<1> HIDE DEF row, w
<1>5. /\ pc' \in [Threads -> Labels] /\ work' \in [Threads -> WorkType] /\ Others(t)
      /\ \/ pc'[t] = "insert" /\ work'[t] = w
         \/ pc'[t] = "chunk" /\ work'[t] = work[t]
  BY <1>1, <1>3, <1>4, WorkTypes DEF Go, Others, MemInv, MemTypes, Labels
<1>6. MemTypes'
  BY <1>0, <1>5 DEF MemInv, MemTypes, Ids
<1>7. ThreadInv(t)'
  BY <1>1, <1>2, <1>3, <1>5 DEF ThreadInv
<1> QED BY <1>0, <1>1, <1>3, <1>5, <1>6, <1>7, MemQuiet DEF MemInv

LEMMA MemChunk == ASSUME MemInv, NEW t \in Threads, Chunk(t) PROVE MemInv'
<1> DEFINE next == NextDoc(t, Met(work[t]))
           on == [work[t] EXCEPT !.piece = @ + 1]
<1>0. pc[t] = "chunk" /\ UNCHANGED <<mem, logged, past>>
  BY DEF Chunk
<1>1. /\ work[t].list # <<>> /\ work[t] \in WorkType /\ work[t].victims = {}
      /\ work[t].piece \in 1..Len(Pieces[Head(work[t].list)])
  BY <1>0 DEF MemInv, ThreadInv, MemTypes
<1>2. next \in WorkType /\ next.victims = {}
  <2>1. Met(work[t]) \subseteq AnyHash
    BY <1>1, Places, MemoryAssumption DEF Met, WorkType, AnyHash
  <2> QED BY <1>1, <2>1, Places DEF NextDoc, WorkType
<1>3. /\ on \in WorkType /\ on.victims = {} /\ on.list = work[t].list
      /\ on.piece = work[t].piece + 1
  BY <1>1 DEF WorkType
<1>4. \/ Go(t, "chunk", "idle", next)
      \/ next.list # <<>> /\ Go(t, "chunk", "doc", next)
      \/ work[t].piece < Len(Pieces[Head(work[t].list)]) /\ Go(t, "chunk", "piece", on)
  BY DEF Chunk, More
<1> HIDE DEF next, on
<1>5. /\ pc' \in [Threads -> Labels] /\ work' \in [Threads -> WorkType] /\ Others(t)
      /\ \/ pc'[t] = "idle" /\ work'[t] = NoWork
         \/ pc'[t] = "doc" /\ work'[t] = next /\ next.list # <<>>
         \/ /\ pc'[t] = "piece" /\ work'[t] = on
            /\ work[t].piece < Len(Pieces[Head(work[t].list)])
  BY <1>2, <1>3, <1>4, WorkTypes DEF Go, Others, MemInv, MemTypes, Labels
<1>6. MemTypes'
  BY <1>0, <1>5 DEF MemInv, MemTypes, Ids
<1>7. ThreadInv(t)'
  BY <1>1, <1>2, <1>3, <1>5, Places, WorkTypes DEF ThreadInv, MemInv
<1> QED BY <1>0, <1>1, <1>2, <1>3, <1>5, <1>6, <1>7, MemQuiet, WorkTypes DEF MemInv

LEMMA MemLog ==
    ASSUME MemInv, NEW t \in Threads, LogDecay(t) \/ LogForget(t)
    PROVE  MemInv'
<1>0. /\ pc[t] \in {"logDecay", "logForget"} /\ UNCHANGED <<mem, past>>
      /\ logged' = logged \union {work[t].gone}
  BY DEF LogDecay, LogForget, Go
<1>1. /\ work[t] \in WorkType /\ work[t].gone \in Ids
      /\ work[t].list # <<>> => work[t].piece \in 1..Len(Pieces[Head(work[t].list)])
  BY <1>0 DEF MemInv, ThreadInv, MemTypes
<1>2. /\ Written(t) \in WorkType /\ Written(t).victims = work[t].victims
      /\ Written(t).list = work[t].list /\ Written(t).piece = work[t].piece
      /\ Written(t).late = work[t].late \intersect work[t].victims
  BY <1>1 DEF Written, WorkType
<1>3. /\ pc' \in [Threads -> Labels] /\ work' \in [Threads -> WorkType] /\ Others(t)
      /\ \/ pc'[t] = "idle" /\ work'[t] = NoWork /\ work[t].victims = {}
         \/ /\ pc'[t] = "chunk" /\ work'[t] = Written(t)
            /\ work[t].victims = {} /\ work[t].list # <<>>
         \/ pc'[t] = "delete" /\ work'[t] = Written(t)
  <2>1. pc[t] = "logForget" => work[t].victims = {}
    BY DEF MemInv, ThreadInv
  <2> QED BY <1>0, <1>2, <2>1, WorkTypes
          DEF LogDecay, LogForget, Go, Caller, Others, MemInv, MemTypes, Labels, Trimming
<1>4. MemTypes'
  BY <1>0, <1>1, <1>3 DEF MemInv, MemTypes, Ids
<1>5. ThreadInv(t)'
  BY <1>0, <1>1, <1>2, <1>3, WorkTypes DEF ThreadInv, MemInv, Ids
<1> QED BY <1>0, <1>1, <1>2, <1>3, <1>4, <1>5, MemQuiet, WorkTypes DEF MemInv

-----------------------------------------------------------------------------
(* The steps that write rows or lists of rows.                             *)

LEMMA MemInsert == ASSUME MemInv, NEW t \in Threads, Insert(t) PROVE MemInv'
<1> DEFINE w == [work[t] EXCEPT !.row = NoRow]
           row == work[t].row
<1>0. /\ pc[t] = "insert" /\ Len(mem) < MaxRows /\ UNCHANGED <<logged, past>>
      /\ mem' = Append(mem, row) /\ Go(t, "insert", "trim", w)
  BY DEF Insert, Go
<1>1. /\ work[t] \in WorkType /\ row \in Rows /\ work[t].victims = {}
      /\ work[t].list # <<>> => work[t].piece \in 1..Len(Pieces[Head(work[t].list)])
  BY <1>0 DEF MemInv, ThreadInv, MemTypes
<1>2. /\ w \in WorkType /\ w.victims = {} /\ w.list = work[t].list
      /\ w.piece = work[t].piece
  BY <1>1 DEF WorkType
<1>3. mem \in Seq({NoRow} \union Rows) /\ Len(mem) \in Nat
  BY DEF MemInv, MemTypes
<1> HIDE DEF w, row
<1>4. /\ mem' \in Seq({NoRow} \union Rows) /\ Len(mem') = Len(mem) + 1
      /\ \A i \in 1..Len(mem) : mem'[i] = mem[i]
      /\ mem'[Len(mem) + 1] = row
  BY <1>0, <1>1, <1>3, AppendProperties
<1>5. Ids \subseteq Ids' /\ Ids' = Ids \union {Len(mem) + 1}
  BY <1>3, <1>4 DEF Ids
<1>6. /\ pc' \in [Threads -> Labels] /\ work' \in [Threads -> WorkType] /\ Others(t)
      /\ pc'[t] = "trim" /\ work'[t] = w
  BY <1>0, <1>2, WorkTypes DEF Go, Others, MemInv, MemTypes, Labels, Trimming
<1>7. MemTypes'
  BY <1>0, <1>3, <1>4, <1>5, <1>6, MemoryAssumption DEF MemInv, MemTypes
<1>8. \A u \in Threads : ThreadInv(u)'
  <2>1. ThreadInv(t)'
    BY <1>1, <1>2, <1>6 DEF ThreadInv
  <2>2. ASSUME NEW u \in Threads, u # t PROVE ThreadInv(u)'
    BY <1>4, <1>5, <1>6, <2>2, Elsewhere DEF MemInv, Others, Ids
  <2> QED BY <2>1, <2>2
<1>9. DeletedIsLogged'
  <2>1. mem'[Len(mem) + 1] # NoRow
    BY <1>1, <1>4 DEF Rows, NoRow, Kinds
  <2> QED BY <1>0, <1>4, <1>5, <1>6, <2>1 DEF MemInv, DeletedIsLogged, Others, Ids
<1>10. CapInv'
  BY <1>6 DEF CapInv
<1> QED BY <1>7, <1>8, <1>9, <1>10 DEF MemInv

\* One statement takes row i: by a trim that has listed it, or as it is forgotten.
LEMMA RowIsGone ==
    ASSUME MemTypes, NEW i \in Ids, mem' = [mem EXCEPT ![i] = NoRow]
    PROVE  /\ mem' \in Seq({NoRow} \union Rows) /\ Len(mem') = Len(mem) /\ Ids' = Ids
           /\ \A j \in Ids : j # i => mem'[j] = mem[j]
           /\ mem'[i] = NoRow
           /\ ShortTerm' = ShortTerm \ {i} /\ Unpinned' = Unpinned \ {i}
<1>1. mem \in Seq({NoRow} \union Rows) /\ NoRow \in {NoRow} \union Rows
  BY DEF MemTypes
<1>2. mem' \in Seq({NoRow} \union Rows) /\ Len(mem') = Len(mem)
  BY <1>1, ExceptSeq DEF Ids
<1>3. Ids' = Ids /\ mem'[i] = NoRow /\ \A j \in Ids : j # i => mem'[j] = mem[j]
  BY <1>1, <1>2 DEF Ids
<1>4. NoRow.kind # "short_term"
  BY DEF NoRow
<1>5. ShortTerm' = ShortTerm \ {i}
  BY <1>3, <1>4 DEF ShortTerm
<1> QED BY <1>2, <1>3, <1>5 DEF Unpinned

LEMMA MemForget ==
    ASSUME MemInv, NEW t \in Threads, NEW i \in Ids, Forget(t, i)
    PROVE  MemInv'
<1> DEFINE w == [NoWork EXCEPT !.gone = i]
<1>0. /\ pc[t] = "idle" /\ UNCHANGED <<logged, past>> /\ Go(t, "idle", "logForget", w)
      /\ mem' = [mem EXCEPT ![i] = NoRow]
  BY DEF Forget, Go
<1>1. i \in Nat
  BY DEF MemInv, MemTypes, Ids
<1>2. w \in WorkType /\ w.victims = {} /\ w.list = <<>> /\ w.gone = i
  <2>1. NoWork \in WorkType /\ NoWork.list = <<>> /\ NoWork.victims = {}
    BY WorkTypes DEF MemInv
  <2> QED BY <1>1, <2>1 DEF WorkType
<1> HIDE DEF w
<1>3. /\ pc' \in [Threads -> Labels] /\ work' \in [Threads -> WorkType] /\ Others(t)
      /\ pc'[t] = "logForget" /\ work'[t] = w
  BY <1>0, <1>2, WorkTypes DEF Go, Others, MemInv, MemTypes, Labels
<1>4. /\ mem' \in Seq({NoRow} \union Rows) /\ Len(mem') = Len(mem) /\ Ids' = Ids
      /\ \A j \in Ids : j # i => mem'[j] = mem[j]
      /\ mem'[i] = NoRow
      /\ ShortTerm' = ShortTerm \ {i} /\ Unpinned' = Unpinned \ {i}
  BY <1>0, RowIsGone DEF MemInv
<1>5. MemTypes'
  BY <1>0, <1>3, <1>4 DEF MemInv, MemTypes
<1>6. \A u \in Threads : ThreadInv(u)'
  <2>1. ThreadInv(t)'
    BY <1>2, <1>3, <1>4 DEF ThreadInv
  <2>2. \A j \in Ids : mem'[j].pinned => mem[j].pinned
    BY <1>4 DEF NoRow
  <2>3. ASSUME NEW u \in Threads, u # t PROVE ThreadInv(u)'
    BY <1>3, <1>4, <2>2, <2>3, Elsewhere DEF MemInv, Others
  <2> QED BY <2>1, <2>3
<1>7. DeletedIsLogged'
  BY <1>0, <1>2, <1>3, <1>4 DEF MemInv, DeletedIsLogged, Others
<1>8. CapInv'
  <2>1. work[t].victims = {}
    BY <1>0 DEF MemInv, ThreadInv
  <2>2. Doomed' = Doomed
    BY <1>2, <1>3, <2>1 DEF Doomed, Others
  <2>3. Kept' \subseteq Kept /\ Free' \subseteq Free
    BY <1>4, <2>2 DEF Kept, Free
  <2> QED BY <1>0, <1>3, <2>3, CapStays DEF MemInv, Others
<1> QED BY <1>5, <1>6, <1>7, <1>8 DEF MemInv

LEMMA MemDelete == ASSUME MemInv, NEW t \in Threads, Delete(t) PROVE MemInv'
<1>0. PICK i \in work[t].victims :
        /\ Go(t, "delete", "logDecay", [work[t] EXCEPT !.gone = i, !.victims = @ \ {i}])
        /\ mem' = [mem EXCEPT ![i] = NoRow]
  BY DEF Delete
<1> DEFINE w == [work[t] EXCEPT !.gone = i, !.victims = @ \ {i}]
<1>1. pc[t] = "delete" /\ Go(t, "delete", "logDecay", w) /\ UNCHANGED <<logged, past>>
  BY <1>0 DEF Delete, Go
<1>2. /\ work[t] \in WorkType /\ work[t].victims \subseteq Ids /\ i \in Ids /\ i \in Nat
      /\ work[t].list # <<>> => work[t].piece \in 1..Len(Pieces[Head(work[t].list)])
  BY <1>1 DEF MemInv, ThreadInv, MemTypes, Ids
<1>3. /\ w \in WorkType /\ w.victims = work[t].victims \ {i} /\ w.list = work[t].list
      /\ w.gone = i /\ w.piece = work[t].piece /\ w.late = work[t].late
  BY <1>2 DEF WorkType
<1> HIDE DEF w
<1>4. /\ pc' \in [Threads -> Labels] /\ work' \in [Threads -> WorkType] /\ Others(t)
      /\ pc'[t] = "logDecay" /\ work'[t] = w
  BY <1>1, <1>3, WorkTypes DEF Go, Others, MemInv, MemTypes, Labels, Trimming
<1>5. /\ mem' \in Seq({NoRow} \union Rows) /\ Len(mem') = Len(mem) /\ Ids' = Ids
      /\ \A j \in Ids : j # i => mem'[j] = mem[j]
      /\ mem'[i] = NoRow
      /\ ShortTerm' = ShortTerm \ {i} /\ Unpinned' = Unpinned \ {i}
  BY <1>0, <1>2, RowIsGone DEF MemInv
<1>6. MemTypes'
  BY <1>1, <1>4, <1>5 DEF MemInv, MemTypes
<1>7. \A j \in Ids : mem'[j].pinned => mem[j].pinned
  BY <1>5 DEF NoRow
<1>8. \A u \in Threads : ThreadInv(u)'
  <2>1. ThreadInv(t)'
    BY <1>1, <1>2, <1>3, <1>4, <1>5, <1>7 DEF ThreadInv, MemInv
  <2>2. ASSUME NEW u \in Threads, u # t PROVE ThreadInv(u)'
    BY <1>4, <1>5, <1>7, <2>2, Elsewhere DEF MemInv, Others
  <2> QED BY <2>1, <2>2
<1>9. DeletedIsLogged'
  BY <1>1, <1>3, <1>4, <1>5 DEF MemInv, DeletedIsLogged, Others
<1>10. CapInv'
  <2>1. Doomed \ {i} \subseteq Doomed'
    BY <1>3, <1>4 DEF Doomed, Others
  <2>2. Kept' \subseteq Kept /\ Free' \subseteq Free
    BY <1>5, <2>1 DEF Kept, Free
  <2> QED BY <1>1, <1>4, <2>2, CapStays DEF MemInv, Others
<1> QED BY <1>6, <1>8, <1>9, <1>10 DEF MemInv

\* A list that is read now leaves no more rows than the cap, or none that may go.
LEMMA ListFits ==
    ASSUME MemInv, NEW V \in SUBSET Candidates,
           IF Excess <= 0 THEN V = {}
           ELSE Cardinality(V) = Excess \/ (V = Candidates /\ Cardinality(V) < Excess)
    PROVE  /\ Cardinality(ShortTerm \ V) <= SHORT_TERM_CAP \/ Unpinned \subseteq V
           /\ IsFiniteSet(ShortTerm \ V)
<1>1. IsFiniteSet(ShortTerm)
  <2>1. Len(mem) \in Nat
    BY DEF MemInv, MemTypes
  <2>2. IsFiniteSet(Ids)
    BY <2>1, FS_Interval DEF Ids
  <2>3. ShortTerm \subseteq Ids
    BY DEF ShortTerm
  <2> QED BY <2>2, <2>3, FS_Subset
<1>2. V \subseteq ShortTerm
  BY DEF Candidates, Unpinned
<1>3. IsFiniteSet(V) /\ IsFiniteSet(ShortTerm \ V)
  BY <1>1, <1>2, FS_Subset, FS_Difference
<1>4. Cardinality(ShortTerm \ V) = Cardinality(ShortTerm) - Cardinality(V)
  <2>1. ShortTerm \cap V = V
    BY <1>2
  <2>2. Cardinality(ShortTerm \ V) = Cardinality(ShortTerm) - Cardinality(ShortTerm \cap V)
    BY <1>1, FS_Difference
  <2> QED BY <2>1, <2>2
<1>5. /\ Cardinality(ShortTerm) \in Nat /\ Cardinality(V) \in Nat
      /\ SHORT_TERM_CAP \in Nat
  BY <1>1, <1>3, FS_CardinalityType, MemoryAssumption
<1>6. CASE Excess <= 0
  BY <1>3, <1>4, <1>5, <1>6, FS_EmptySet DEF Excess
<1>7. CASE ~(Excess <= 0) /\ Cardinality(V) = Excess
  BY <1>3, <1>4, <1>5, <1>7 DEF Excess
<1>8. CASE ~(Excess <= 0) /\ V = Candidates
  BY <1>3, <1>8 DEF Candidates
<1> QED BY <1>6, <1>7, <1>8

LEMMA MemTrim == ASSUME MemInv, NEW t \in Threads, Trim(t) PROVE MemInv'
<1>0. PICK V \in SUBSET Candidates :
        /\ pc[t] = "trim"
        /\ IF Excess <= 0 THEN V = {}
           ELSE Cardinality(V) = Excess \/ (V = Candidates /\ Cardinality(V) < Excess)
        /\ Go(t, "trim", IF V = {} THEN Caller(t) ELSE "delete", [work[t] EXCEPT !.victims = V])
        /\ past' = [past EXCEPT !.loose = FALSE]
        /\ UNCHANGED <<mem, logged>>
  BY DEF Trim
<1> DEFINE w == [work[t] EXCEPT !.victims = V]
<1>1. /\ V \subseteq Unpinned /\ V \subseteq Ids /\ V \in SUBSET Nat
      /\ \A i \in V : ~mem[i].pinned
  BY DEF Candidates, Unpinned, ShortTerm, Ids, MemInv, MemTypes
<1>2. /\ work[t] \in WorkType /\ work[t].victims = {}
      /\ work[t].list # <<>> => work[t].piece \in 1..Len(Pieces[Head(work[t].list)])
  BY <1>0 DEF MemInv, ThreadInv, MemTypes
<1>3. w \in WorkType /\ w.victims = V /\ w.list = work[t].list /\ w.piece = work[t].piece
  BY <1>1, <1>2 DEF WorkType
<1>4. Go(t, "trim", IF V = {} THEN Caller(t) ELSE "delete", w)
  BY <1>0
<1> HIDE DEF w
<1>5. /\ pc' \in [Threads -> Labels] /\ work' \in [Threads -> WorkType] /\ Others(t)
      /\ \/ pc'[t] = "idle" /\ work'[t] = NoWork /\ V = {}
         \/ pc'[t] = "chunk" /\ work'[t] = w /\ V = {} /\ w.list # <<>>
         \/ pc'[t] = "delete" /\ work'[t] = w
  BY <1>3, <1>4, WorkTypes DEF Go, Caller, Others, MemInv, MemTypes, Labels, Trimming
<1>6. /\ past' \in [cut : SUBSET Nat, loose : BOOLEAN, together : BOOLEAN]
      /\ past'.cut = past.cut
  BY <1>0 DEF MemInv, MemTypes
<1>7. mem' = mem /\ logged' = logged /\ Ids' = Ids
  BY <1>0 DEF Ids
<1>8. MemTypes'
  BY <1>5, <1>6, <1>7 DEF MemInv, MemTypes
<1>9. \A u \in Threads : ThreadInv(u)'
  <2>1. ThreadInv(t)'
    BY <1>1, <1>2, <1>3, <1>5, <1>7, WorkTypes DEF ThreadInv, MemInv
  <2>2. ASSUME NEW u \in Threads, u # t PROVE ThreadInv(u)'
    BY <1>5, <1>7, <2>2, Elsewhere DEF MemInv, Others
  <2> QED BY <2>1, <2>2
<1>10. DeletedIsLogged'
  BY <1>0, <1>5, <1>6, <1>7 DEF MemInv, DeletedIsLogged, Others
<1>11. CapInv'
  <2>1. V \subseteq work'[t].victims
    BY <1>3, <1>5
  <2>2. ShortTerm' = ShortTerm /\ Unpinned' = Unpinned
    BY <1>7 DEF ShortTerm, Unpinned
  <2>3. Kept' \subseteq ShortTerm \ V /\ Free' \subseteq Unpinned \ V
    BY <2>1, <2>2 DEF Kept, Free, Doomed
  <2>4. IsFiniteSet(ShortTerm \ V)
    BY <1>0, ListFits
  <2>5. Cardinality(ShortTerm \ V) <= SHORT_TERM_CAP \/ Unpinned \subseteq V
    BY <1>0, ListFits
  <2>6. /\ Cardinality(Kept') <= Cardinality(ShortTerm \ V)
        /\ Cardinality(Kept') \in Nat /\ Cardinality(ShortTerm \ V) \in Nat
    BY <2>3, <2>4, FS_Subset, FS_CardinalityType
  <2>7. CASE Unpinned \subseteq V
    BY <2>3, <2>7 DEF CapInv
  <2>8. CASE Cardinality(ShortTerm \ V) <= SHORT_TERM_CAP
    BY <2>6, <2>8, MemoryAssumption DEF CapInv
  <2> QED BY <2>5, <2>7, <2>8
<1> QED BY <1>8, <1>9, <1>10, <1>11 DEF MemInv

LEMMA MemPin ==
    ASSUME MemInv, NEW t \in Threads, NEW i \in Ids, NEW b \in BOOLEAN, Pin(t, i, b)
    PROVE  MemInv'
<1>0. /\ mem[i] # NoRow /\ mem' = [mem EXCEPT ![i].pinned = b] /\ UNCHANGED <<logged, pc>>
      /\ past' = [past EXCEPT !.loose = @ \/ ~b]
      /\ work' = [u \in Threads |->
            [work[u] EXCEPT !.late = IF b THEN @ \union ({i} \intersect work[u].victims) ELSE @]]
  BY DEF Pin
<1>1. mem \in Seq({NoRow} \union Rows) /\ Len(mem) \in Nat /\ mem[i] \in Rows /\ i \in 1..Len(mem)
  BY <1>0 DEF MemInv, MemTypes, Ids
<1>2. [mem[i] EXCEPT !.pinned = b] \in Rows /\ [mem[i] EXCEPT !.pinned = b].kind = mem[i].kind
      /\ [mem[i] EXCEPT !.pinned = b].pinned = b
  BY <1>1 DEF Rows
<1>3. /\ mem' \in Seq({NoRow} \union Rows) /\ Len(mem') = Len(mem)
      /\ mem'[i] = [mem[i] EXCEPT !.pinned = b]
      /\ \A j \in 1..Len(mem) : j # i => mem'[j] = mem[j]
  <2>1. mem' = [mem EXCEPT ![i] = [mem[i] EXCEPT !.pinned = b]]
    BY <1>0
  <2> QED BY <1>1, <1>2, <2>1, ExceptSeq
<1>4. /\ Ids' = Ids /\ ShortTerm' = ShortTerm
      /\ b => Unpinned' \subseteq Unpinned
  BY <1>1, <1>2, <1>3 DEF Ids, ShortTerm, Unpinned
<1>5. \A u \in Threads :
        /\ work[u] \in WorkType /\ work'[u] \in WorkType
        /\ work'[u].list = work[u].list /\ work'[u].piece = work[u].piece
        /\ work'[u].row = work[u].row /\ work'[u].gone = work[u].gone
        /\ work'[u].victims = work[u].victims
        /\ work'[u].late = IF b THEN work[u].late \union ({i} \intersect work[u].victims)
                           ELSE work[u].late
  BY <1>0 DEF MemInv, MemTypes, WorkType
<1>6. MemTypes'
  <2>1. work' \in [Threads -> WorkType]
    BY <1>0, <1>5
  <2>2. past' \in [cut : SUBSET Nat, loose : BOOLEAN, together : BOOLEAN]
    BY <1>0 DEF MemInv, MemTypes
  <2> QED BY <1>0, <1>3, <1>4, <2>1, <2>2 DEF MemInv, MemTypes
<1>7. ASSUME NEW u \in Threads PROVE ThreadInv(u)'
  <2>1. ThreadInv(u)
    BY DEF MemInv
  <2>2. pc[u] = "idle" => work'[u] = NoWork
    <3>1. ASSUME pc[u] = "idle" PROVE work'[u] = work[u]
      <4>1. work[u] = NoWork /\ work[u].victims = {}
        BY <2>1, <3>1, WorkTypes DEF ThreadInv, MemInv
      <4>2. (IF b THEN work[u].late \union ({i} \intersect work[u].victims) ELSE work[u].late)
                = work[u].late
        BY <4>1
      <4>3. work'[u] = [work[u] EXCEPT !.late = work[u].late]
        BY <1>0, <4>2
      <4> QED BY <1>5, <4>3 DEF WorkType
    <3> QED BY <2>1, <3>1 DEF ThreadInv
  <2>3. \A j \in work[u].victims : mem'[j].pinned => j \in work'[u].late
    <3>1. work[u].victims \subseteq 1..Len(mem)
      BY <2>1 DEF ThreadInv, Ids
    <3> QED BY <1>2, <1>3, <1>5, <2>1, <3>1 DEF ThreadInv
  <2>4. pc'[u] = pc[u]
    BY <1>0
  <2> QED BY <1>4, <1>5, <2>1, <2>2, <2>3, <2>4 DEF ThreadInv
<1>8. DeletedIsLogged'
  <2>1. mem'[i] # NoRow
    BY <1>1, <1>2, <1>3 DEF Rows, NoRow, Kinds
  <2>2. past'.cut = past.cut
    BY <1>0 DEF MemInv, MemTypes
  <2>3. \A j \in Ids : mem'[j] = NoRow => mem[j] = NoRow
    BY <1>3, <2>1 DEF Ids
  <2>4. /\ logged' = logged
        /\ \A u \in Threads : pc'[u] = pc[u] /\ work'[u].gone = work[u].gone
    BY <1>0, <1>5
  <2>5. DeletedIsLogged
    BY DEF MemInv
  <2> QED BY <1>4, <2>2, <2>3, <2>4, <2>5 DEF DeletedIsLogged
<1>9. CapInv'
  <2>1. past'.loose = (past.loose \/ ~b)
    BY <1>0 DEF MemInv, MemTypes
  <2>2. CASE ~b
    BY <2>1, <2>2 DEF CapInv
  <2>3. CASE b
    <3>1. Doomed' = Doomed
      BY <1>5 DEF Doomed
    <3>2. Kept' \subseteq Kept /\ Free' \subseteq Free
      BY <1>4, <2>3, <3>1 DEF Kept, Free
    <3> QED BY <1>0, <2>1, <3>2, CapStays DEF MemInv
  <2> QED BY <2>2, <2>3
<1> QED BY <1>6, <1>7, <1>8, <1>9 DEF MemInv

\* What a call that ends leaves to the history.
LEMMA CutTypes ==
    ASSUME MemInv, NEW S \in SUBSET Threads, CutOff(S)
    PROVE  /\ past' \in [cut : SUBSET Nat, loose : BOOLEAN, together : BOOLEAN]
           /\ past.cut \subseteq past'.cut
           /\ \A u \in S : pc[u] \in {"logDecay", "logForget"} => work[u].gone \in past'.cut
           /\ past.loose => past'.loose
           /\ \A u \in S : pc[u] \in Trimming => past'.loose
<1>1. past \in [cut : SUBSET Nat, loose : BOOLEAN, together : BOOLEAN]
  BY DEF MemInv, MemTypes
<1>2. \A u \in Threads : work[u].gone \in Nat
  BY DEF MemInv, MemTypes, WorkType
<1>3. {work[u].gone : u \in {x \in S : pc[x] \in {"logDecay", "logForget"}}} \subseteq Nat
  BY <1>2
<1> QED BY <1>1, <1>3 DEF CutOff

LEMMA MemRaise == ASSUME MemInv, NEW t \in Threads, Raise(t) PROVE MemInv'
<1>0. pc[t] # "idle" /\ Go(t, pc[t], "idle", NoWork) /\ CutOff({t}) /\ UNCHANGED <<mem, logged>>
  BY DEF Raise
<1>1. /\ past' \in [cut : SUBSET Nat, loose : BOOLEAN, together : BOOLEAN]
      /\ past.cut \subseteq past'.cut
      /\ pc[t] \in {"logDecay", "logForget"} => work[t].gone \in past'.cut
      /\ past.loose => past'.loose
      /\ pc[t] \in Trimming => past'.loose
  BY <1>0, CutTypes
<1>2. /\ pc' \in [Threads -> Labels] /\ work' \in [Threads -> WorkType] /\ Others(t)
      /\ pc'[t] = "idle" /\ work'[t] = NoWork /\ mem' = mem /\ logged' = logged /\ Ids' = Ids
  BY <1>0, WorkTypes DEF Go, Others, MemInv, MemTypes, Labels, Ids
<1>3. MemTypes'
  BY <1>1, <1>2 DEF MemInv, MemTypes
<1>4. \A u \in Threads : ThreadInv(u)'
  <2>1. ThreadInv(t)'
    BY <1>2, WorkTypes DEF ThreadInv, MemInv
  <2>2. ASSUME NEW u \in Threads, u # t PROVE ThreadInv(u)'
    BY <1>2, <2>2, Elsewhere DEF MemInv, Others
  <2> QED BY <2>1, <2>2
<1>5. DeletedIsLogged'
  BY <1>1, <1>2 DEF MemInv, DeletedIsLogged, Others
<1>6. CapInv'
  <2>1. CASE pc[t] \in Trimming
    BY <1>1, <2>1 DEF CapInv
  <2>2. CASE pc[t] \notin Trimming
    <3>1. work[t].victims = {}
      BY <2>2 DEF MemInv, ThreadInv, Trimming
    <3>2. \A u \in Threads : work'[u].victims = work[u].victims
      BY <1>2, <3>1, WorkTypes DEF Others, MemInv
    <3>3. Kept' = Kept /\ Free' = Free
      BY <1>2, <3>2, SameRows
    <3> QED BY <1>1, <1>2, <2>2, <3>3, CapStays DEF MemInv, Others, Trimming
  <2> QED BY <2>1, <2>2
<1> QED BY <1>3, <1>4, <1>5, <1>6 DEF MemInv

LEMMA MemCrash == ASSUME MemInv, Crash PROVE MemInv'
<1>0. /\ pc' = [t \in Threads |-> "idle"] /\ work' = [t \in Threads |-> NoWork]
      /\ CutOff(Threads) /\ mem' = mem /\ logged' = logged /\ Ids' = Ids
  BY DEF Crash, Ids
<1>1. /\ past' \in [cut : SUBSET Nat, loose : BOOLEAN, together : BOOLEAN]
      /\ past.cut \subseteq past'.cut
      /\ \A u \in Threads : pc[u] \in {"logDecay", "logForget"} => work[u].gone \in past'.cut
      /\ past.loose => past'.loose
      /\ \A u \in Threads : pc[u] \in Trimming => past'.loose
  BY <1>0, CutTypes
<1>2. NoWork \in WorkType /\ NoWork.victims = {} /\ NoWork.list = <<>>
  BY DEF NoWork, WorkType
<1>3. MemTypes'
  BY <1>0, <1>1, <1>2 DEF MemInv, MemTypes, Labels
<1>4. \A u \in Threads : ThreadInv(u)'
  BY <1>0, <1>2 DEF ThreadInv
<1>5. DeletedIsLogged'
  BY <1>0, <1>1 DEF MemInv, DeletedIsLogged
<1>6. CapInv'
  <2>1. CASE \E u \in Threads : pc[u] \in Trimming
    BY <1>1, <2>1 DEF CapInv
  <2>2. CASE \A u \in Threads : pc[u] \notin Trimming
    <3>1. \A u \in Threads : work'[u].victims = work[u].victims
      BY <1>0, <1>2, <2>2 DEF MemInv, ThreadInv, Trimming
    <3>2. Kept' = Kept /\ Free' = Free
      BY <1>0, <3>1, SameRows
    <3> QED BY <1>1, <2>2, <3>2, CapStays DEF MemInv, Trimming
  <2> QED BY <2>1, <2>2
<1> QED BY <1>3, <1>4, <1>5, <1>6 DEF MemInv

LEMMA MemInvNext == MemInv /\ [Next]_vars => MemInv'
<1> SUFFICES ASSUME MemInv, [Next]_vars PROVE MemInv'
  OBVIOUS
<1>1. CASE UNCHANGED vars
  BY <1>1 DEF vars, MemInv, MemTypes, Ids, DeletedIsLogged, CapInv, Kept, Free, Doomed,
     ShortTerm, Unpinned, ThreadInv
<1>2. CASE Crash
  BY <1>2, MemCrash
<1>3. CASE \E t \in Threads :
             \/ \E note \in Notes : Remember(t, note)
             \/ \E list \in Lists : Ingest(t, list)
             \/ \E i \in Ids : Forget(t, i) \/ \E b \in BOOLEAN : Pin(t, i, b)
  BY <1>3, MemRemember, MemIngest, MemForget, MemPin
<1>4. ASSUME NEW t \in Threads,
             \/ Insert(t) \/ Trim(t) \/ Delete(t) \/ LogDecay(t) \/ LogForget(t)
             \/ Doc(t) \/ Piece(t) \/ Chunk(t) \/ Raise(t)
      PROVE  MemInv'
  BY <1>4, MemInsert, MemTrim, MemDelete, MemLog, MemDoc, MemPiece, MemChunk, MemRaise
<1> QED BY <1>1, <1>2, <1>3, <1>4 DEF Next

LEMMA MemInvHolds == Spec => []MemInv
  BY MemInvInit, MemInvNext, PTL DEF Spec

-----------------------------------------------------------------------------
(* One ingestion at a time: a document is in the rows that ingestions wrote only    *)
(* once it is among the hashes that the ingestion has met, or is the one that it    *)
(* is storing.                                                                      *)

Memorised == {mem[i].hash : i \in {k \in Ids : mem[k].ingested}}

\* Where an ingestion is in a document: a piece that it is about to insert is the next
\* one of the document, which it had not met.
IngestInv(t) ==
    LET w == work[t] IN
    /\ pc[t] = "insert" /\ w.row.ingested =>
         /\ w.row.kind = "semantic" /\ w.list # <<>>
         /\ w.row.hash = Pieces[Head(w.list)][w.piece]
    /\ ~past.together /\ w.list # <<>> => \A d \in Docs : OnlyItself(d) =>
         /\ d \in Memorised => d \in w.known
                               \/ (Head(w.list) = d /\ pc[t] \in Trimming \union {"chunk"})
         /\ pc[t] \in {"piece", "insert"} /\ Head(w.list) = d => d \notin w.known

\* What an ingestion wrote is what the next one reads.
KindInv == \A i \in Ids : mem[i].ingested => mem[i].kind = "semantic"

AloneInv ==
    ~past.together =>
        \A t, u \in Threads : t # u => work[t].list = <<>> \/ work[u].list = <<>>

DocsInv == KindInv /\ AloneInv /\ NoDocumentTwice /\ \A t \in Threads : IngestInv(t)

\* The rows stay, or some of them go.
Fewer ==
    /\ Ids' = Ids
    /\ \A i \in Ids :
        \/ mem'[i] = NoRow
        \/ /\ mem'[i].hash = mem[i].hash /\ mem'[i].kind = mem[i].kind
           /\ mem'[i].ingested = mem[i].ingested

LEMMA DocsInvInit == Init => DocsInv
<1> SUFFICES ASSUME Init PROVE DocsInv
  OBVIOUS
<1>1. Ids = {} /\ NoWork.list = <<>>
  BY DEF Init, Ids, NoWork
<1> QED BY <1>1 DEF Init, DocsInv, KindInv, AloneInv, NoDocumentTwice, IngestInv

LEMMA NoRowIsNotIngested == NoRow.ingested = FALSE
  BY DEF NoRow

\* What is memorised after the rows became fewer was memorised before.
LEMMA FewerIsMemorised ==
    ASSUME Fewer, NEW d \in Docs, d \in Memorised'
    PROVE  d \in Memorised
<1>1. PICK i \in Ids : mem'[i].ingested /\ mem'[i].hash = d
  BY DEF Memorised, Fewer
<1>2. mem'[i] # NoRow
  BY <1>1, NoRowIsNotIngested
<1> QED BY <1>1, <1>2 DEF Memorised, Fewer

\* A step that adds no row and starts no ingestion.
LEMMA DocsQuiet ==
    ASSUME DocsInv, NEW t \in Threads, Fewer, Others(t), IngestInv(t)',
           past'.together = past.together, work[t].list = <<>> => work'[t].list = <<>>
    PROVE  DocsInv'
<1>1. KindInv'
  BY NoRowIsNotIngested DEF DocsInv, KindInv, Fewer
<1>2. AloneInv'
  BY DEF DocsInv, AloneInv, Others
<1>3. NoDocumentTwice'
  <2> SUFFICES ASSUME ~past.together, NEW d \in Docs, OnlyItself(d), NEW i \in Ids, NEW j \in Ids,
                      mem'[i].ingested, mem'[j].ingested, mem'[i].hash = d, mem'[j].hash = d
               PROVE  i = j
    BY DEF NoDocumentTwice, OnlyItself, Fewer
  <2>1. mem'[i] # NoRow /\ mem'[j] # NoRow
    BY NoRowIsNotIngested
  <2> QED BY <2>1 DEF DocsInv, NoDocumentTwice, Fewer
<1>4. ASSUME NEW u \in Threads, u # t PROVE IngestInv(u)'
  <2>1. IngestInv(u) /\ pc'[u] = pc[u] /\ work'[u] = work[u]
    BY <1>4 DEF DocsInv, Others
  <2>2. \A d \in Docs : d \in Memorised' => d \in Memorised
    BY FewerIsMemorised
  <2> QED BY <2>1, <2>2 DEF IngestInv, OnlyItself
<1> QED BY <1>1, <1>2, <1>3, <1>4 DEF DocsInv

LEMMA SameIsFewer == ASSUME mem' = mem PROVE Fewer /\ Memorised' = Memorised
  BY DEF Fewer, Ids, Memorised

LEMMA DocsIdle ==
    ASSUME NEW t \in Threads, pc'[t] # "insert", work'[t].list = <<>>
    PROVE  IngestInv(t)'
  BY DEF IngestInv

LEMMA DocsRemember ==
    ASSUME MemInv, DocsInv, NEW t \in Threads, NEW note \in Notes, Remember(t, note)
    PROVE  DocsInv'
<1> DEFINE w == [NoWork EXCEPT !.row = Row(note.kind, note.hash, note.pinned, FALSE)]
<1>1. Go(t, "idle", "insert", w) /\ mem' = mem /\ past' = past
  BY DEF Remember
<1>2. w.row.ingested = FALSE /\ w.list = <<>>
  BY DEF NoWork, Row
<1> HIDE DEF w
<1>3. Others(t) /\ pc'[t] = "insert" /\ work'[t] = w
  BY <1>1 DEF Go, Others, MemInv, MemTypes
<1>4. IngestInv(t)'
  BY <1>2, <1>3, NoRowIsNotIngested DEF IngestInv
<1> QED BY <1>1, <1>2, <1>3, <1>4, DocsQuiet, SameIsFewer

LEMMA DocsIngest ==
    ASSUME MemInv, DocsInv, NEW t \in Threads, NEW list \in Lists, Ingest(t, list)
    PROVE  DocsInv'
<1> DEFINE w == [NoWork EXCEPT !.list = list, !.known = Stored]
<1>1. /\ Go(t, "idle", "doc", w) /\ mem' = mem
      /\ past' = [past EXCEPT !.together = @ \/ \E u \in Threads : work[u].list # <<>>]
  BY DEF Ingest
<1>2. w.list = list /\ w.known = Stored
  BY DEF NoWork
<1> HIDE DEF w
<1>3. Others(t) /\ pc'[t] = "doc" /\ work'[t] = w
  BY <1>1 DEF Go, Others, MemInv, MemTypes
<1>4. past'.together = (past.together \/ \E u \in Threads : work[u].list # <<>>)
  BY <1>1 DEF MemInv, MemTypes
<1>5. Fewer /\ Memorised' = Memorised
  BY <1>1, SameIsFewer
<1>6. \A d \in Docs : d \in Memorised => d \in Stored
  BY NoRowIsNotIngested DEF DocsInv, KindInv, Memorised, Stored
<1>7. IngestInv(t)'
  BY <1>2, <1>3, <1>5, <1>6 DEF IngestInv, OnlyItself
<1>8. ASSUME NEW u \in Threads, u # t PROVE IngestInv(u)'
  BY <1>3, <1>4, <1>5, <1>8 DEF DocsInv, IngestInv, OnlyItself, Others
<1>9. AloneInv'
  BY <1>3, <1>4 DEF AloneInv, Others
<1>10. KindInv'
  BY <1>1 DEF DocsInv, KindInv, Ids
<1>11. NoDocumentTwice'
  BY <1>1, <1>4 DEF DocsInv, NoDocumentTwice, OnlyItself, Ids
<1> QED BY <1>7, <1>8, <1>9, <1>10, <1>11 DEF DocsInv

LEMMA DocsDoc == ASSUME MemInv, DocsInv, NEW t \in Threads, Doc(t) PROVE DocsInv'
<1> DEFINE next == NextDoc(t, work[t].known)
           first == [work[t] EXCEPT !.piece = 1]
           d == Head(work[t].list)
<1>0. pc[t] = "doc" /\ mem' = mem /\ past' = past
  BY DEF Doc
<1>1. work[t].list # <<>> /\ work[t] \in WorkType
  BY <1>0 DEF MemInv, ThreadInv, MemTypes
<1>2. /\ next.known = work[t].known
      /\ first.list = work[t].list /\ first.known = work[t].known
  BY <1>1 DEF NextDoc, WorkType
<1>3. \/ Go(t, "doc", "idle", next)
      \/ Go(t, "doc", "doc", next)
      \/ d \notin work[t].known /\ Go(t, "doc", "piece", first)
  BY DEF Doc
<1> HIDE DEF next, first
<1>4. /\ Others(t)
      /\ \/ pc'[t] = "idle" /\ work'[t].list = <<>>
         \/ pc'[t] = "doc" /\ work'[t] = next
         \/ pc'[t] = "piece" /\ work'[t] = first /\ d \notin work[t].known
  BY <1>3, WorkTypes DEF Go, Others, MemInv, MemTypes
<1>5. Fewer /\ Memorised' = Memorised
  BY <1>0, SameIsFewer
<1>6. IngestInv(t)'
  <2>1. ~past.together => \A e \in Docs : OnlyItself(e) /\ e \in Memorised => e \in work[t].known
    BY <1>0, <1>1 DEF DocsInv, IngestInv, Trimming
  <2> QED BY <1>0, <1>1, <1>2, <1>4, <1>5, <2>1 DEF IngestInv, OnlyItself, Trimming
<1> QED BY <1>0, <1>1, <1>4, <1>5, <1>6, DocsQuiet

LEMMA DocsPiece == ASSUME MemInv, DocsInv, NEW t \in Threads, Piece(t) PROVE DocsInv'
<1> DEFINE row == Row("semantic", Pieces[Head(work[t].list)][work[t].piece], FALSE, TRUE)
           w == [work[t] EXCEPT !.row = row]
<1>0. pc[t] = "piece" /\ mem' = mem /\ past' = past
  BY DEF Piece
<1>1. work[t].list # <<>> /\ work[t] \in WorkType
  BY <1>0 DEF MemInv, ThreadInv, MemTypes
<1>2. /\ w.row = row /\ w.list = work[t].list /\ w.piece = work[t].piece
      /\ w.known = work[t].known
  BY <1>1 DEF WorkType
<1>3. row.kind = "semantic" /\ row.ingested /\ row.hash = Pieces[Head(work[t].list)][work[t].piece]
  BY DEF Row
<1>4. Go(t, "piece", "insert", w) \/ Go(t, "piece", "chunk", work[t])
  BY DEF Piece
<1> HIDE DEF row, w
<1>5. /\ Others(t)
      /\ \/ pc'[t] = "insert" /\ work'[t] = w
         \/ pc'[t] = "chunk" /\ work'[t] = work[t]
  BY <1>4 DEF Go, Others, MemInv, MemTypes
<1>6. Fewer /\ Memorised' = Memorised
  BY <1>0, SameIsFewer
<1>7. IngestInv(t)'
  <2>1. IngestInv(t)
    BY DEF DocsInv
  <2>2. ~past.together => \A e \in Docs : OnlyItself(e) =>
            /\ e \in Memorised => e \in work[t].known
            /\ Head(work[t].list) = e => e \notin work[t].known
    BY <1>0, <1>1, <2>1 DEF IngestInv, Trimming
  <2> QED BY <1>0, <1>1, <1>2, <1>3, <1>5, <1>6, <2>2 DEF IngestInv, OnlyItself
<1> QED BY <1>0, <1>1, <1>5, <1>6, <1>7, DocsQuiet

LEMMA DocsChunk == ASSUME MemInv, DocsInv, NEW t \in Threads, Chunk(t) PROVE DocsInv'
<1> DEFINE next == NextDoc(t, Met(work[t]))
           on == [work[t] EXCEPT !.piece = @ + 1]
           d == Head(work[t].list)
<1>0. pc[t] = "chunk" /\ mem' = mem /\ past' = past
  BY DEF Chunk
<1>1. /\ work[t].list # <<>> /\ work[t] \in WorkType
      /\ work[t].piece \in 1..Len(Pieces[d])
  BY <1>0 DEF MemInv, ThreadInv, MemTypes
<1>2. /\ next.known = work[t].known \union {d}
      /\ on.list = work[t].list /\ on.known = work[t].known
  BY <1>1 DEF NextDoc, Met, WorkType
<1>3. \/ Go(t, "chunk", "idle", next)
      \/ Go(t, "chunk", "doc", next)
      \/ work[t].piece < Len(Pieces[d]) /\ Go(t, "chunk", "piece", on)
  BY DEF Chunk, More
<1> HIDE DEF next, on
<1>4. /\ Others(t)
      /\ \/ pc'[t] = "idle" /\ work'[t].list = <<>>
         \/ pc'[t] = "doc" /\ work'[t] = next
         \/ pc'[t] = "piece" /\ work'[t] = on /\ ~OnlyItself(d)
  <2>1. work[t].piece < Len(Pieces[d]) => ~OnlyItself(d)
    <3> DEFINE n == Len(Pieces[d])
               k == work[t].piece
    <3>1. n \in Nat
      BY <1>1, Places
    <3>2. k \in Nat /\ k >= 1
      BY <1>1, <3>1
    <3>3. OnlyItself(d) => n = 1
      BY DEF OnlyItself
    <3> HIDE DEF n, k
    <3>4. n = 1 => ~(k < n)
      BY <3>1, <3>2
    <3>5. k < n => ~OnlyItself(d)
      BY <3>3, <3>4
    <3> QED BY <3>5 DEF n, k
  <2> QED BY <1>3, <2>1, WorkTypes DEF Go, Others, MemInv, MemTypes
<1>5. Fewer /\ Memorised' = Memorised
  BY <1>0, SameIsFewer
<1>6. IngestInv(t)'
  <2>1. ~past.together => \A e \in Docs : OnlyItself(e) /\ e \in Memorised =>
            e \in work[t].known \/ d = e
    BY <1>1 DEF DocsInv, IngestInv
  <2> QED BY <1>0, <1>1, <1>2, <1>4, <1>5, <2>1 DEF IngestInv, OnlyItself
<1> QED BY <1>0, <1>1, <1>4, <1>5, <1>6, DocsQuiet

\* The steps of a trim: the ingestion stays where it is.
LEMMA DocsTrimming ==
    ASSUME MemInv, DocsInv, NEW t \in Threads, pc[t] \in Trimming, Fewer, Others(t), past'.together = past.together,
           \/ pc'[t] = "idle" /\ work'[t] = NoWork
           \/ /\ pc'[t] \in Trimming \union {"chunk"}
              /\ work'[t].list = work[t].list /\ work'[t].known = work[t].known
    PROVE  DocsInv'
<1>1. CASE work'[t] = NoWork /\ pc'[t] = "idle"
  BY <1>1, WorkTypes, DocsIdle, DocsQuiet DEF MemInv
<1>2. CASE /\ pc'[t] \in Trimming \union {"chunk"}
           /\ work'[t].list = work[t].list /\ work'[t].known = work[t].known
  <2>1. IngestInv(t) /\ \A d \in Docs : d \in Memorised' => d \in Memorised
    BY FewerIsMemorised DEF DocsInv
  <2>2. IngestInv(t)'
    BY <1>2, <2>1 DEF IngestInv, OnlyItself, Trimming
  <2> QED BY <1>2, <2>2, DocsQuiet
<1> QED BY <1>1, <1>2

LEMMA DocsTrim ==
    ASSUME MemInv, DocsInv, NEW t \in Threads, Trim(t) \/ Delete(t) \/ LogDecay(t)
    PROVE  DocsInv'
<1>0. work[t] \in WorkType
  BY DEF MemInv, MemTypes
<1>1. CASE Trim(t)
  <2>1. PICK V \in SUBSET Candidates :
          /\ Go(t, "trim", IF V = {} THEN Caller(t) ELSE "delete", [work[t] EXCEPT !.victims = V])
          /\ past' = [past EXCEPT !.loose = FALSE] /\ mem' = mem
    BY <1>1 DEF Trim
  <2> DEFINE w == [work[t] EXCEPT !.victims = V]
  <2>2. w.list = work[t].list /\ w.known = work[t].known
    BY <1>0 DEF WorkType
  <2>3. Go(t, "trim", IF V = {} THEN Caller(t) ELSE "delete", w)
    BY <2>1
  <2> HIDE DEF w
  <2>4. /\ Others(t) /\ pc[t] \in Trimming
        /\ \/ pc'[t] = "idle" /\ work'[t] = NoWork
           \/ pc'[t] \in Trimming \union {"chunk"} /\ work'[t] = w
    BY <2>3 DEF Go, Caller, Others, MemInv, MemTypes, Trimming
  <2>5. past'.together = past.together
    BY <2>1 DEF MemInv, MemTypes
  <2> QED BY <2>1, <2>2, <2>4, <2>5, SameIsFewer, DocsTrimming
<1>2. CASE Delete(t)
  <2>1. PICK i \in work[t].victims :
          /\ Go(t, "delete", "logDecay", [work[t] EXCEPT !.gone = i, !.victims = @ \ {i}])
          /\ mem' = [mem EXCEPT ![i] = NoRow] /\ past' = past
    BY <1>2 DEF Delete
  <2> DEFINE w == [work[t] EXCEPT !.gone = i, !.victims = @ \ {i}]
  <2>2. w.list = work[t].list /\ w.known = work[t].known
    BY <1>0 DEF WorkType
  <2>3. Go(t, "delete", "logDecay", w)
    BY <2>1
  <2> HIDE DEF w
  <2>4. Others(t) /\ pc[t] \in Trimming /\ pc'[t] = "logDecay" /\ work'[t] = w
    BY <2>3 DEF Go, Others, MemInv, MemTypes, Trimming
  <2>5. Fewer
    <3>1. i \in Ids
      BY DEF MemInv, ThreadInv
    <3> QED BY <2>1, <3>1, RowIsGone DEF MemInv, Fewer
  <2>6. pc'[t] \in Trimming
    BY <2>4 DEF Trimming
  <2> QED BY <2>1, <2>2, <2>4, <2>5, <2>6, DocsTrimming
<1>3. CASE LogDecay(t)
  <2> DEFINE w == Written(t)
  <2>1. w.list = work[t].list /\ w.known = work[t].known
    BY <1>0 DEF Written, WorkType
  <2>2. /\ Go(t, "logDecay", IF work[t].victims = {} THEN Caller(t) ELSE "delete", w)
        /\ mem' = mem /\ past' = past
    BY <1>3 DEF LogDecay
  <2> HIDE DEF w
  <2>3. /\ Others(t) /\ pc[t] \in Trimming
        /\ \/ pc'[t] = "idle" /\ work'[t] = NoWork
           \/ pc'[t] \in Trimming \union {"chunk"} /\ work'[t] = w
    BY <2>2 DEF Go, Caller, Others, MemInv, MemTypes, Trimming
  <2> QED BY <2>1, <2>2, <2>3, SameIsFewer, DocsTrimming
<1> QED BY <1>1, <1>2, <1>3

\* The row of a document is new: it was not memorised, and only this ingestion runs.
LEMMA DocsInsert == ASSUME MemInv, DocsInv, NEW t \in Threads, Insert(t) PROVE DocsInv'
<1> DEFINE w == [work[t] EXCEPT !.row = NoRow]
           row == work[t].row
           n == Len(mem) + 1
<1>0. /\ pc[t] = "insert" /\ past' = past /\ mem' = Append(mem, row)
      /\ Go(t, "insert", "trim", w)
  BY DEF Insert, Go
<1>1. /\ work[t] \in WorkType /\ row \in Rows
      /\ work[t].list # <<>> => work[t].piece \in 1..Len(Pieces[Head(work[t].list)])
  BY <1>0 DEF MemInv, ThreadInv, MemTypes
<1>2. w.list = work[t].list /\ w.known = work[t].known
  BY <1>1 DEF WorkType
<1>3. mem \in Seq({NoRow} \union Rows) /\ Len(mem) \in Nat
  BY DEF MemInv, MemTypes
<1> HIDE DEF w, row
<1>4. /\ Len(mem') = n /\ mem'[n] = row
      /\ \A i \in 1..Len(mem) : mem'[i] = mem[i]
  BY <1>0, <1>1, <1>3, AppendProperties
<1>5. n \notin Ids /\ Ids' = Ids \union {n} /\ \A i \in Ids : mem'[i] = mem[i]
  BY <1>3, <1>4 DEF Ids
<1> HIDE DEF n
<1>6. Others(t) /\ pc'[t] = "trim" /\ work'[t] = w
  BY <1>0 DEF Go, Others, MemInv, MemTypes
<1>7. Memorised' = Memorised \union (IF row.ingested THEN {row.hash} ELSE {})
  BY <1>4, <1>5 DEF Memorised
<1>8. IngestInv(t) /\ (row.ingested => row.kind = "semantic" /\ work[t].list # <<>>)
  BY <1>0 DEF DocsInv, IngestInv, row
<1>9. ASSUME ~past.together, NEW d \in Docs, OnlyItself(d), row.ingested, row.hash = d
      PROVE  d \notin Memorised /\ Head(work[t].list) = d
  <2>1. /\ work[t].list # <<>>
        /\ d = Pieces[Head(work[t].list)][work[t].piece]
    BY <1>0, <1>9, NoRowIsNotIngested DEF DocsInv, IngestInv, row
  <2>2. work[t].piece \in DOMAIN Pieces[Head(work[t].list)] /\ Head(work[t].list) \in Docs
    BY <1>1, <2>1, Places
  <2>3. Head(work[t].list) = d
    BY <1>9, <2>1, <2>2 DEF OnlyItself
  <2> QED BY <1>0, <1>8, <1>9, <2>1, <2>3 DEF IngestInv, Trimming
<1>10. KindInv'
  BY <1>4, <1>5, <1>8 DEF DocsInv, KindInv
<1>11. AloneInv'
  BY <1>0, <1>2, <1>6 DEF DocsInv, AloneInv, Others
<1>12. NoDocumentTwice'
  <2> SUFFICES ASSUME ~past.together, NEW d \in Docs, OnlyItself(d),
                      NEW i \in Ids', NEW j \in Ids', mem'[i].ingested, mem'[j].ingested,
                      mem'[i].hash = d, mem'[j].hash = d
               PROVE  i = j
    BY <1>0 DEF NoDocumentTwice, OnlyItself
  <2>1. CASE i \in Ids /\ j \in Ids
    BY <1>5, <2>1 DEF DocsInv, NoDocumentTwice
  <2>2. CASE i = n /\ j \in Ids
    BY <1>4, <1>5, <1>9, <2>2 DEF Memorised
  <2>3. CASE j = n /\ i \in Ids
    BY <1>4, <1>5, <1>9, <2>3 DEF Memorised
  <2> QED BY <1>5, <2>1, <2>2, <2>3
<1>13. IngestInv(t)'
  <2>1. ~past.together /\ work[t].list # <<>> =>
            \A d \in Docs : OnlyItself(d) /\ d \in Memorised => d \in work[t].known
    BY <1>0, <1>8 DEF IngestInv, Trimming
  <2>2. pc'[t] \in Trimming
    BY <1>6 DEF Trimming
  <2> QED BY <1>0, <1>2, <1>6, <1>7, <1>9, <2>1, <2>2 DEF IngestInv, OnlyItself
<1>14. ASSUME NEW u \in Threads, u # t PROVE IngestInv(u)'
  <2>1. IngestInv(u) /\ pc'[u] = pc[u] /\ work'[u] = work[u]
    BY <1>6, <1>14 DEF DocsInv, Others
  <2>2. ASSUME ~past.together, work[u].list # <<>> PROVE ~row.ingested
    BY <1>8, <1>14, <2>2 DEF DocsInv, AloneInv
  <2> QED BY <1>0, <1>7, <2>1, <2>2, NoRowIsNotIngested DEF IngestInv, OnlyItself
<1> QED BY <1>10, <1>11, <1>12, <1>13, <1>14 DEF DocsInv

\* pin, forget and their audit entry: no ingestion runs in the thread.
LEMMA DocsOwner ==
    ASSUME MemInv, DocsInv, NEW t \in Threads,
           \/ \E i \in Ids : Forget(t, i) \/ \E b \in BOOLEAN : Pin(t, i, b)
           \/ LogForget(t)
    PROVE  DocsInv'
<1>1. ASSUME NEW i \in Ids, Forget(t, i) PROVE DocsInv'
  <2>1. /\ Go(t, "idle", "logForget", [NoWork EXCEPT !.gone = i])
        /\ mem' = [mem EXCEPT ![i] = NoRow] /\ past' = past
    BY <1>1 DEF Forget
  <2>2. Others(t) /\ pc'[t] = "logForget" /\ work'[t].list = <<>>
    BY <2>1 DEF Go, Others, MemInv, MemTypes, NoWork
  <2>3. Fewer
    BY <2>1, RowIsGone DEF MemInv, Fewer
  <2> QED BY <2>1, <2>2, <2>3, DocsIdle, DocsQuiet
<1>2. ASSUME NEW i \in Ids, NEW b \in BOOLEAN, Pin(t, i, b) PROVE DocsInv'
  <2>0. /\ mem[i] # NoRow /\ mem' = [mem EXCEPT ![i].pinned = b] /\ pc' = pc
        /\ past' = [past EXCEPT !.loose = @ \/ ~b]
        /\ work' = [u \in Threads |->
              [work[u] EXCEPT !.late = IF b THEN @ \union ({i} \intersect work[u].victims) ELSE @]]
    BY <1>2 DEF Pin
  <2>1. mem \in Seq({NoRow} \union Rows) /\ mem[i] \in Rows
    BY <2>0 DEF MemInv, MemTypes, Ids
  <2>2. Fewer
    <3>1. mem' = [mem EXCEPT ![i] = [mem[i] EXCEPT !.pinned = b]] /\ Ids' = Ids
      BY <2>0, <2>1 DEF Ids
    <3>2. /\ [mem[i] EXCEPT !.pinned = b].hash = mem[i].hash
          /\ [mem[i] EXCEPT !.pinned = b].kind = mem[i].kind
          /\ [mem[i] EXCEPT !.pinned = b].ingested = mem[i].ingested
      BY <2>1 DEF Rows
    <3> QED BY <2>1, <3>1, <3>2 DEF Fewer, Ids
  <2>3. \A u \in Threads :
          /\ work'[u].list = work[u].list /\ work'[u].known = work[u].known
          /\ work'[u].row = work[u].row /\ work'[u].piece = work[u].piece
    BY <2>0 DEF MemInv, MemTypes, WorkType
  <2>4. past'.together = past.together
    BY <2>0 DEF MemInv, MemTypes
  <2>5. KindInv'
    BY <2>2, NoRowIsNotIngested DEF DocsInv, KindInv, Fewer
  <2>6. AloneInv'
    BY <2>3, <2>4 DEF DocsInv, AloneInv
  <2>7. NoDocumentTwice'
    <3> SUFFICES ASSUME ~past.together, NEW d \in Docs, OnlyItself(d), NEW j \in Ids, NEW k \in Ids,
                        mem'[j].ingested, mem'[k].ingested, mem'[j].hash = d, mem'[k].hash = d
                 PROVE  j = k
      BY <2>2, <2>4 DEF NoDocumentTwice, OnlyItself, Fewer
    <3>1. mem'[j] # NoRow /\ mem'[k] # NoRow
      BY NoRowIsNotIngested
    <3> QED BY <2>2, <3>1 DEF DocsInv, NoDocumentTwice, Fewer
  <2>8. ASSUME NEW u \in Threads PROVE IngestInv(u)'
    <3>1. IngestInv(u) /\ pc'[u] = pc[u]
      BY <2>0 DEF DocsInv
    <3>2. \A d \in Docs : d \in Memorised' => d \in Memorised
      BY <2>2, FewerIsMemorised
    <3> QED BY <2>3, <2>4, <3>1, <3>2 DEF IngestInv, OnlyItself
  <2> QED BY <2>5, <2>6, <2>7, <2>8 DEF DocsInv
<1>3. CASE LogForget(t)
  <2>1. Go(t, "logForget", "idle", NoWork) /\ mem' = mem /\ past' = past
    BY <1>3 DEF LogForget
  <2>2. Others(t) /\ pc'[t] = "idle" /\ work'[t].list = <<>>
    BY <2>1 DEF Go, Others, MemInv, MemTypes, NoWork
  <2> QED BY <2>1, <2>2, DocsIdle, DocsQuiet, SameIsFewer
<1> QED BY <1>1, <1>2, <1>3

LEMMA DocsCutOff ==
    ASSUME MemInv, DocsInv, Crash \/ \E t \in Threads : Raise(t)
    PROVE  DocsInv'
<1>0. NoWork.list = <<>>
  BY DEF NoWork
<1>1. ASSUME NEW t \in Threads, Raise(t) PROVE DocsInv'
  <2>1. Go(t, pc[t], "idle", NoWork) /\ mem' = mem /\ past'.together = past.together
    BY <1>1 DEF Raise, CutOff, MemInv, MemTypes
  <2>2. Others(t) /\ pc'[t] = "idle" /\ work'[t].list = <<>>
    BY <1>0, <2>1 DEF Go, Others, MemInv, MemTypes
  <2> QED BY <2>1, <2>2, DocsIdle, DocsQuiet, SameIsFewer
<1>2. CASE Crash
  <2>1. /\ \A u \in Threads : pc'[u] = "idle" /\ work'[u].list = <<>>
        /\ mem' = mem /\ past'.together = past.together /\ Ids' = Ids
    BY <1>0, <1>2 DEF Crash, CutOff, MemInv, MemTypes, Ids
  <2> QED BY <2>1 DEF DocsInv, KindInv, AloneInv, NoDocumentTwice, OnlyItself, IngestInv
<1> QED BY <1>1, <1>2

LEMMA DocsInvNext == MemInv /\ DocsInv /\ [Next]_vars => DocsInv'
<1> SUFFICES ASSUME MemInv, DocsInv, [Next]_vars PROVE DocsInv'
  OBVIOUS
<1>1. CASE UNCHANGED vars
  BY <1>1 DEF vars, DocsInv, KindInv, AloneInv, NoDocumentTwice, OnlyItself, IngestInv, Memorised, Ids
<1>2. CASE Crash \/ \E t \in Threads : Raise(t)
  BY <1>2, DocsCutOff
<1>3. CASE \E t \in Threads :
             \/ \E note \in Notes : Remember(t, note)
             \/ \E list \in Lists : Ingest(t, list)
  BY <1>3, DocsRemember, DocsIngest
<1>4. ASSUME NEW t \in Threads,
             \/ Insert(t) \/ Trim(t) \/ Delete(t) \/ LogDecay(t)
             \/ Doc(t) \/ Piece(t) \/ Chunk(t)
             \/ \E i \in Ids : Forget(t, i) \/ \E b \in BOOLEAN : Pin(t, i, b)
             \/ LogForget(t)
      PROVE  DocsInv'
  BY <1>4, DocsInsert, DocsTrim, DocsDoc, DocsPiece, DocsChunk, DocsOwner
<1> QED BY <1>1, <1>2, <1>3, <1>4 DEF Next

-----------------------------------------------------------------------------

\* The type invariant of the memories: whatever a thread holds of a document or of a
\* list of rows names a piece and rows that there are.
THEOREM TypeCorrect == Spec => []TypeOK
<1>1. MemInv => TypeOK
  <2> SUFFICES ASSUME MemInv PROVE TypeOK
    OBVIOUS
  <2>1. \A t \in Threads : work[t].list \in Seq(Docs)
    BY DEF MemInv, MemTypes, WorkType
  <2> QED BY <2>1 DEF MemInv, MemTypes, ThreadInv, TypeOK, Rows
<1> QED BY <1>1, MemInvHolds, PTL

\* Every row that is gone is in the audit log, about to be, or was deleted by a call
\* that was cut off just then: for any threads and any number of rows.
THEOREM NothingIsSilent == Spec => []DeletedIsLogged
<1>1. MemInv => DeletedIsLogged
  BY DEF MemInv
<1> QED BY <1>1, MemInvHolds, PTL

\* However many trims overlap, once they are over there are no more short-term rows
\* than the cap, or pinned ones only: for every cap and any number of threads.
THEOREM TheCapHolds == Spec => []CapHolds
<1>1. MemInv => CapHolds
  <2> SUFFICES ASSUME MemInv, ~past.loose, \A t \in Threads : pc[t] \notin Trimming
               PROVE  Cardinality(ShortTerm) <= SHORT_TERM_CAP \/ Unpinned = {}
    BY DEF CapHolds
  <2>1. Doomed = {}
    BY DEF MemInv, ThreadInv, Trimming, Doomed
  <2>2. Kept = ShortTerm /\ Free = Unpinned
    BY <2>1 DEF Kept, Free
  <2> QED BY <2>2 DEF MemInv, CapInv, Trimming
<1> QED BY <1>1, MemInvHolds, PTL

\* A trim takes no row that was pinned when it listed it, nor one that was pinned before
\* that: for any number of trims, pins and deletions at once.
THEOREM DecaySparesPinned == Spec => PinnedSurvive
<1>1. MemInv /\ [Next]_vars =>
          [\A i \in Ids : mem[i].pinned /\ mem'[i] = NoRow =>
             \E t \in Threads :
                /\ work'[t].gone = i
                /\ i \in work[t].late \/ pc'[t] = "logForget"]_vars
  <2> SUFFICES ASSUME MemInv, Next, NEW i \in Ids, mem[i].pinned, mem'[i] = NoRow
               PROVE  \E t \in Threads :
                        /\ work'[t].gone = i
                        /\ i \in work[t].late \/ pc'[t] = "logForget"
    BY DEF vars
  <2>0. ~NoRow.pinned /\ mem[i] # NoRow
    BY DEF NoRow
  <2>1. mem' # mem
    BY <2>0
  <2>2. ASSUME NEW t \in Threads, Insert(t) PROVE FALSE
    <3>1. mem \in Seq({NoRow} \union Rows) /\ work[t].row \in Rows
      BY <2>2 DEF Insert, Go, MemInv, MemTypes, ThreadInv
    <3>2. mem'[i] = mem[i]
      BY <2>2, <3>1, AppendProperties DEF Insert, Ids
    <3> QED BY <2>0, <3>2
  <2>3. ASSUME NEW t \in Threads, Delete(t)
        PROVE  work'[t].gone = i /\ i \in work[t].late
    <3>1. PICK j \in work[t].victims :
            /\ Go(t, "delete", "logDecay", [work[t] EXCEPT !.gone = j, !.victims = @ \ {j}])
            /\ mem' = [mem EXCEPT ![j] = NoRow]
      BY <2>3 DEF Delete
    <3>2. i = j
      BY <2>0, <3>1 DEF MemInv, MemTypes, Ids
    <3>3. work'[t] = [work[t] EXCEPT !.gone = j, !.victims = @ \ {j}] /\ work[t] \in WorkType
      BY <3>1 DEF Go, MemInv, MemTypes
    <3>4. work'[t].gone = j
      BY <3>3 DEF WorkType
    <3>5. i \in work[t].late
      BY <3>2 DEF MemInv, ThreadInv
    <3> QED BY <3>2, <3>4, <3>5
  <2>4. ASSUME NEW t \in Threads, NEW j \in Ids, Forget(t, j)
        PROVE  work'[t].gone = i /\ pc'[t] = "logForget"
    <3>1. Go(t, "idle", "logForget", [NoWork EXCEPT !.gone = j]) /\ mem' = [mem EXCEPT ![j] = NoRow]
      BY <2>4 DEF Forget
    <3>2. i = j
      BY <2>0, <3>1 DEF MemInv, MemTypes, Ids
    <3>3. work'[t] = [NoWork EXCEPT !.gone = j] /\ pc'[t] = "logForget"
      BY <3>1 DEF Go, MemInv, MemTypes
    <3> QED BY <3>2, <3>3 DEF NoWork
  <2>5. ASSUME NEW t \in Threads, NEW j \in Ids, NEW b \in BOOLEAN, Pin(t, j, b) PROVE FALSE
    <3>1. /\ mem[j] # NoRow /\ mem' = [mem EXCEPT ![j].pinned = b]
          /\ mem \in Seq({NoRow} \union Rows)
      BY <2>5 DEF Pin, MemInv, MemTypes
    <3>2. mem[j] \in Rows
      BY <3>1 DEF Ids
    <3>3. mem'[j].kind \in Kinds /\ \A k \in Ids : k # j => mem'[k] = mem[k]
      BY <3>1, <3>2 DEF Rows, Ids
    <3> QED BY <2>0, <3>3 DEF NoRow, Kinds
  <2> QED BY <2>1, <2>2, <2>3, <2>4, <2>5
          DEF Next, Crash, Remember, Trim, LogDecay, LogForget, Ingest, Doc, Piece, Chunk, Raise
<1> QED BY <1>1, MemInvHolds, PTL DEF Spec, PinnedSurvive

\* A document of one piece is remembered once, unless two ingestions ran at once:
\* for any documents, any lists of them and any number of threads.
THEOREM NoDuplicates == Spec => []NoDocumentTwice
<1>1. DocsInv => NoDocumentTwice
  BY DEF DocsInv
<1>2. Spec => []DocsInv
  BY MemInvHolds, DocsInvInit, DocsInvNext, PTL DEF Spec
<1> QED BY <1>1, <1>2, PTL
=============================================================================
