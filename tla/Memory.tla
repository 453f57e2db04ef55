-------------------------------- MODULE Memory --------------------------------
(***************************************************************************)
(* The memories and the ingestion of documents (memory/store.py,           *)
(* knowledge/base.py): remember inserts a row and then trims the short-    *)
(* term rows by a list that it reads first; ingest calls it for each piece *)
(* of each document that it has not met.  Importance and decay, which      *)
(* order the rows of a trim, are a free choice here, and so is whether the *)
(* owner has disabled learning when remember asks.                         *)
(***************************************************************************)
EXTENDS Integers, Sequences, FiniteSets

CONSTANTS
    Threads,            \* request threads
    Hashes,             \* hashes of texts
    Docs,               \* documents that pass the quality and privacy checks, by their hash
    Pieces,             \* the hashes of each document's pieces
    Lists,              \* the bodies of an ingest request
    Notes,              \* other memories that are put down: [kind, hash, pinned]
    SHORT_TERM_CAP,
    MaxRows             \* bound: rows inserted

Kinds == {"short_term", "semantic", "episodic"}

ASSUME MemoryAssumption ==
    /\ Docs \subseteq Hashes
    /\ {"other", "none"} \intersect Hashes = {}
    /\ Pieces \in [Docs -> Seq(Hashes) \ {<<>>}]
    /\ \A d \in Docs : Len(Pieces[d]) = 1 => Pieces[d] = <<d>>
    /\ Lists \subseteq Seq(Docs) \ {<<>>}
    /\ Notes \subseteq [kind : Kinds, hash : Hashes \union {"other"}, pinned : BOOLEAN]
    /\ SHORT_TERM_CAP \in Nat
    /\ MaxRows \in Nat

VARIABLES
    mem,        \* table memory: [kind, hash, pinned], or NoRow after the DELETE; and,
                \* as history, whether an ingestion wrote the row
    logged,     \* the deleted rows that the audit log names
    pc, work,   \* each thread's step and locals
    past        \* history, see below

vars == <<mem, logged, pc, work, past>>

NoRow == [kind |-> "none", hash |-> "none", pinned |-> FALSE, ingested |-> FALSE]

\* The locals: the documents left, the piece of the first one, the hashes met,
\* the row to insert, the rows to delete and the one that was deleted; and, as
\* history, those of the rows to delete that were pinned since they were listed.
NoWork == [list |-> <<>>, piece |-> 0, known |-> {}, row |-> NoRow,
           victims |-> {}, gone |-> 0, late |-> {}]

\* cut: deletions whose log entry a crash or an exception prevented; loose: a
\* row was unpinned or a trim cut off since the last list was read; together:
\* two ingestions at once.
NoPast == [cut |-> {}, loose |-> FALSE, together |-> FALSE]

Ids == 1..Len(mem)
ShortTerm == {i \in Ids : mem[i].kind = "short_term"}
Unpinned == {i \in ShortTerm : ~mem[i].pinned}

Trimming == {"trim", "delete", "logDecay"}
Labels == {"idle", "insert", "doc", "piece", "chunk", "logForget"} \union Trimming

Init ==
    /\ mem = <<>>
    /\ logged = {}
    /\ pc = [t \in Threads |-> "idle"]
    /\ work = [t \in Threads |-> NoWork]
    /\ past = NoPast

-----------------------------------------------------------------------------

\* A step of a thread that leaves its locals as w.
Go(t, from, to, w) ==
    /\ pc[t] = from
    /\ pc' = [pc EXCEPT ![t] = to]
    /\ work' = [work EXCEPT ![t] = IF to = "idle" THEN NoWork ELSE w]

\* Where remember returns to.
Caller(t) == IF work[t].list = <<>> THEN "idle" ELSE "chunk"

-----------------------------------------------------------------------------
(***************************************************************************)
(* remember: the control is read, the row inserted, the short-term rows    *)
(* listed, and those beyond the cap deleted one by one.                    *)
(***************************************************************************)

Row(kind, hash, pinned, ingested) ==
    [kind |-> kind, hash |-> hash, pinned |-> pinned, ingested |-> ingested]

\* POST /memory, and chat, which keeps each turn, where learning allows it.  The
\* text gets its hash, which may be that of a document: nobody asks for it.
Remember(t, note) ==
    /\ Go(t, "idle", "insert", [NoWork EXCEPT !.row = Row(note.kind, note.hash, note.pinned, FALSE)])
    /\ UNCHANGED <<mem, logged, past>>

Insert(t) ==
    /\ Len(mem) < MaxRows       \* bound
    /\ Go(t, "insert", "trim", [work[t] EXCEPT !.row = NoRow])
    /\ mem' = Append(mem, work[t].row)
    /\ UNCHANGED <<logged, past>>

\* Variant of Excess: a comparison off by one.
ExcessLate == Cardinality(ShortTerm) - SHORT_TERM_CAP - 1

Excess == Cardinality(ShortTerm) - SHORT_TERM_CAP

\* Variant of Candidates: pinned rows are no exception.
CandidatesAll == ShortTerm

\* The rows that a trim may delete; the sort puts them first.
Candidates == Unpinned

Trim(t) ==
    \E V \in SUBSET Candidates :
        /\ pc[t] = "trim"
        /\ IF Excess <= 0 THEN V = {}
           ELSE Cardinality(V) = Excess \/ (V = Candidates /\ Cardinality(V) < Excess)
        /\ Go(t, "trim", IF V = {} THEN Caller(t) ELSE "delete", [work[t] EXCEPT !.victims = V])
        /\ past' = [past EXCEPT !.loose = FALSE]
        /\ UNCHANGED <<mem, logged>>

\* The row may be gone by then; the log gets its entry all the same.
Delete(t) ==
    \E i \in work[t].victims :
        /\ Go(t, "delete", "logDecay", [work[t] EXCEPT !.gone = i, !.victims = @ \ {i}])
        /\ mem' = [mem EXCEPT ![i] = NoRow]
        /\ UNCHANGED <<logged, past>>

\* The locals once the entry is written.
Written(t) == [work[t] EXCEPT !.gone = 0, !.late = @ \intersect work[t].victims]

\* Variant of LogDecay: one entry for the trim, which names its last row.
LogLast(t) ==
    /\ Go(t, "logDecay", IF work[t].victims = {} THEN Caller(t) ELSE "delete", Written(t))
    /\ logged' = IF work[t].victims = {} THEN logged \union {work[t].gone} ELSE logged
    /\ UNCHANGED <<mem, past>>

LogDecay(t) ==
    /\ Go(t, "logDecay", IF work[t].victims = {} THEN Caller(t) ELSE "delete", Written(t))
    /\ logged' = logged \union {work[t].gone}
    /\ UNCHANGED <<mem, past>>

-----------------------------------------------------------------------------
(***************************************************************************)
(* pin and forget.                                                         *)
(***************************************************************************)

Pin(t, i, b) ==
    /\ pc[t] = "idle"
    /\ mem[i] \notin {NoRow, [mem[i] EXCEPT !.pinned = b]}
    /\ mem' = [mem EXCEPT ![i].pinned = b]
    /\ work' = [u \in Threads |->
                  [work[u] EXCEPT !.late = IF b THEN @ \union ({i} \intersect work[u].victims) ELSE @]]
    /\ past' = [past EXCEPT !.loose = @ \/ ~b]
    /\ UNCHANGED <<logged, pc>>

\* Of a row that is gone already, the log would get a second entry.
Forget(t, i) ==
    /\ Go(t, "idle", "logForget", [NoWork EXCEPT !.gone = i])
    /\ mem[i] # NoRow
    /\ mem' = [mem EXCEPT ![i] = NoRow]
    /\ UNCHANGED <<logged, past>>

LogForget(t) ==
    /\ Go(t, "logForget", "idle", NoWork)
    /\ logged' = logged \union {work[t].gone}
    /\ UNCHANGED <<mem, past>>

-----------------------------------------------------------------------------
(***************************************************************************)
(* ingest: the hashes that are stored are read once, before the loop.      *)
(***************************************************************************)

Stored == {mem[i].hash : i \in {j \in Ids : mem[j].kind = "semantic"}}

Ingest(t, list) ==
    /\ Go(t, "idle", "doc", [NoWork EXCEPT !.list = list, !.known = Stored])
    /\ past' = [past EXCEPT !.together = @ \/ \E u \in Threads : work[u].list # <<>>]
    /\ UNCHANGED <<mem, logged>>

\* The next document: one that is known is a duplicate.
NextDoc(t, known) ==
    LET rest == Tail(work[t].list) IN
    [work[t] EXCEPT !.list = rest, !.known = known, !.piece = 0]

Doc(t) ==
    /\ pc[t] = "doc"
    /\ LET d == Head(work[t].list)
           w == NextDoc(t, work[t].known) IN
       IF d \in work[t].known
       THEN Go(t, "doc", IF w.list = <<>> THEN "idle" ELSE "doc", w)
       ELSE Go(t, "doc", "piece", [work[t] EXCEPT !.piece = 1])
    /\ UNCHANGED <<mem, logged, past>>

\* remember may find that learning is disabled; its answer is not looked at.
Piece(t) ==
    /\ pc[t] = "piece"
    /\ LET d == Head(work[t].list) IN
       \/ Go(t, "piece", "insert",
             [work[t] EXCEPT !.row = Row("semantic", Pieces[d][work[t].piece], FALSE, TRUE)])
       \/ Go(t, "piece", "chunk", work[t])
    /\ UNCHANGED <<mem, logged, past>>

\* Variant of Met: the hash of a document that was stored is not added.
MetBefore(w) == w.known

\* The hashes that the loop has met after a document.
Met(w) == w.known \union {Head(w.list)}

\* Whether the document has pieces left.
More(w) == w.piece < Len(Pieces[Head(w.list)])

\* The INSERT of the piece into rag_chunks, a table that nothing reads.
Chunk(t) ==
    /\ pc[t] = "chunk"
    /\ LET w == NextDoc(t, Met(work[t])) IN
       IF More(work[t])
       THEN Go(t, "chunk", "piece", [work[t] EXCEPT !.piece = @ + 1])
       ELSE Go(t, "chunk", IF w.list = <<>> THEN "idle" ELSE "doc", w)
    /\ UNCHANGED <<mem, logged, past>>

-----------------------------------------------------------------------------

\* What it leaves behind when the calls of S end where they are.
CutOff(S) ==
    past' = [past EXCEPT
               !.cut = @ \union {work[t].gone : t \in {u \in S : pc[u] \in {"logDecay", "logForget"}}},
               !.loose = @ \/ \E t \in S : pc[t] \in Trimming]

\* A statement raises: the disk is full.
Raise(t) ==
    /\ pc[t] # "idle"
    /\ Go(t, pc[t], "idle", NoWork)
    /\ CutOff({t})
    /\ UNCHANGED <<mem, logged>>

Crash ==
    /\ pc' = [t \in Threads |-> "idle"]
    /\ work' = [t \in Threads |-> NoWork]
    /\ CutOff(Threads)
    /\ UNCHANGED <<mem, logged>>

Next ==
    \/ Crash
    \/ \E t \in Threads :
        \/ \E note \in Notes : Remember(t, note)
        \/ Insert(t) \/ Trim(t) \/ Delete(t) \/ LogDecay(t)
        \/ \E i \in Ids : Forget(t, i) \/ \E b \in BOOLEAN : Pin(t, i, b)
        \/ LogForget(t)
        \/ \E list \in Lists : Ingest(t, list)
        \/ Doc(t) \/ Piece(t) \/ Chunk(t)
        \/ Raise(t)

Spec == Init /\ [][Next]_vars

-----------------------------------------------------------------------------

\* Types: a row is what remember makes, and a trim's list names rows.
TypeOK ==
    /\ mem \in Seq({NoRow} \union [kind : Kinds, hash : Hashes \union {"other"},
                                   pinned : BOOLEAN, ingested : BOOLEAN])
    /\ Len(mem) <= MaxRows
    /\ logged \subseteq Ids
    /\ pc \in [Threads -> Labels]
    /\ \A t \in Threads :
        /\ work[t].list \in Seq(Docs)
        /\ pc[t] \in {"doc", "piece", "chunk"} => work[t].list # <<>>
        /\ pc[t] \in {"piece", "chunk"} => work[t].piece \in 1..Len(Pieces[Head(work[t].list)])
        /\ work[t].victims \subseteq Ids
        /\ pc[t] \in {"logDecay", "logForget"} => work[t].gone \in Ids

\* Decay never takes a pinned memory, although it works from a list that it
\* read: unless the owner pinned the row after that (store.py:65).
PinnedSurvive ==
    [][\A i \in Ids : mem[i].pinned /\ mem'[i] = NoRow =>
         \E t \in Threads :
            /\ work'[t].gone = i
            /\ i \in work[t].late \/ pc'[t] = "logForget"]_vars

\* Trims that run at once and from lists of different times still leave no more
\* short-term rows than the cap, or pinned ones only; after a trim was cut off,
\* or a row unpinned, the next one makes up for it (store.py:48-67).
CapHolds ==
    ~past.loose /\ (\A t \in Threads : pc[t] \notin Trimming)
        => Cardinality(ShortTerm) <= SHORT_TERM_CAP \/ Unpinned = {}

\* "Nothing is deleted silently" (store.py:6): every row that is gone is in the
\* audit log, about to be, or was deleted by a call that was cut off just then.
DeletedIsLogged ==
    \A i \in Ids : mem[i] # NoRow \/ i \in logged \union past.cut
        \/ \E t \in Threads : pc[t] \in {"logDecay", "logForget"} /\ work[t].gone = i

\* A document of one piece that no other document has for a piece.
OnlyItself(d) ==
    Len(Pieces[d]) = 1 /\ \A e \in Docs \ {d} : \A k \in DOMAIN Pieces[e] : Pieces[e][k] # d

\* A document of one piece, which is no piece of another, is stored by one
\* ingestion only, however often it is ingested: unless two ran at once
\* (base.py:44-56).  That the owner puts its text down as a memory too adds rows
\* of the same hash, and takes no part in this.
NoDocumentTwice ==
    ~past.together => \A d \in Docs : OnlyItself(d) =>
        \A i, j \in {k \in Ids : mem[k].ingested} :
            mem[i].hash = d /\ mem[j].hash = d => i = j
=============================================================================
