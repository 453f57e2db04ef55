--------------------------- MODULE AuditLog_proofs ---------------------------
(***************************************************************************)
(* What the audit chain guarantees for any set of threads and any number   *)
(* of calls:                                                               *)
(*   TypeCorrect           the type invariant                              *)
(*   LogIsAppendOnly       the table implements AppendOnlyLog              *)
(*   BreaksStay            a chain that does not verify never will again   *)
(*   OnlyARaceBreaks       it only breaks where two rows share a           *)
(*                         predecessor                                     *)
(***************************************************************************)
EXTENDS AuditLog, SequenceTheorems, WellFoundedInduction, TLAPS

LEMMA HashType ==
    ASSUME NEW s \in Nat, NEW ts \in Nat, NEW p \in Digests
    PROVE  Hash(s, ts, p) \in Digests
BY DEF Hash, Digests

\* What an insert appends. Every leaf below that is about the new row uses this.
NewRow(t) ==
    [seq |-> Len(rows) + 1, ts |-> clock + 1, prev_hash |-> last[t].hash,
     entry_hash |-> Hash(last[t].seq + 1, clock + 1, last[t].hash)]

LEMMA LastRowType == ASSUME TypeOK PROVE LastRow \in LastRead
<1>1. CASE rows = <<>>
  BY <1>1 DEF LastRow, Empty, LastRead, Genesis, Digests
<1>2. CASE rows # <<>>
  <2>1. rows \in Seq(Entry) /\ Len(rows) \in 1 .. Len(rows)
    BY <1>2 DEF TypeOK
  <2>2. rows[Len(rows)] \in Entry
    BY <2>1
  <2> QED BY <1>2, <2>2 DEF LastRow, LastRead, Entry
<1> QED BY <1>1, <1>2

LEMMA NewRowType == ASSUME TypeOK, NEW t \in Threads PROVE NewRow(t) \in Entry
<1>1. last[t] \in LastRead /\ clock \in Nat /\ Len(rows) \in Nat
  BY DEF TypeOK
<1>2. last[t].seq + 1 \in Nat /\ clock + 1 \in Nat /\ last[t].hash \in Digests
  BY <1>1 DEF LastRead
<1>3. Hash(last[t].seq + 1, clock + 1, last[t].hash) \in Digests
  BY <1>2, HashType
<1> QED BY <1>1, <1>2, <1>3 DEF NewRow, Entry

LEMMA TypeStep == TypeOK /\ [Next]_vars => TypeOK'
<1> SUFFICES ASSUME TypeOK, [Next]_vars PROVE TypeOK'
  OBVIOUS
<1>1. CASE Crash
  BY <1>1 DEF Crash, TypeOK, Empty, LastRead, Genesis, Digests
<1>2. ASSUME NEW t \in Threads, LogRead(t) PROVE TypeOK'
  BY <1>2, LastRowType DEF LogRead, TypeOK
<1>3. ASSUME NEW t \in Threads, LogInsert(t) PROVE TypeOK'
  <2>1. rows' = Append(rows, NewRow(t)) /\ clock' = clock + 1
    BY <1>3 DEF LogInsert, NewRow
  <2>2. rows' \in Seq(Entry)
    BY <2>1, NewRowType DEF TypeOK
  <2>3. Empty \in LastRead
    BY DEF Empty, LastRead, Genesis, Digests
  <2> QED BY <1>3, <2>1, <2>2, <2>3 DEF LogInsert, TypeOK
<1>4. CASE UNCHANGED vars
  BY <1>4 DEF vars, TypeOK
<1> QED BY <1>1, <1>2, <1>3, <1>4 DEF Next

\* Every table the calls of log() produce holds well-formed entries.
THEOREM TypeCorrect == Spec => []TypeOK
<1>1. Init => TypeOK
  BY DEF Init, TypeOK, Empty, LastRead, Genesis, Digests
<1> QED BY <1>1, TypeStep, PTL DEF Spec

(***************************************************************************)
(* How rows are built. HashAt(0) is the genesis value, HashAt(p) the hash  *)
(* of row p. Every row continues some earlier one, and what a thread has   *)
(* read is still in the table: rows are never changed.                     *)
(***************************************************************************)
HashAt(p) == IF p = 0 THEN Genesis ELSE rows[p].entry_hash

Continues(i, p) ==
    /\ rows[i].prev_hash = HashAt(p)
    /\ rows[i].entry_hash = Hash(p + 1, rows[i].ts, HashAt(p))

Numbered == \A i \in 1 .. Len(rows) : rows[i].seq = i /\ rows[i].ts = i
Linked == \A i \in 1 .. Len(rows) : \E p \in 0 .. i - 1 : Continues(i, p)
ReadsStand ==
    \A t \in busy : \E p \in 0 .. Len(rows) : last[t] = [seq |-> p, hash |-> HashAt(p)]

ChainInv == TypeOK /\ clock = Len(rows) /\ Numbered /\ Linked /\ ReadsStand

LEMMA LastRowStands ==
    ASSUME ChainInv
    PROVE  LastRow = [seq |-> Len(rows), hash |-> HashAt(Len(rows))]
<1>1. CASE rows = <<>>
  BY <1>1 DEF LastRow, Empty, HashAt
<1>2. CASE rows # <<>>
  <2>1. Len(rows) \in 1 .. Len(rows) /\ Len(rows) # 0
    BY <1>2 DEF ChainInv, TypeOK
  <2> QED BY <1>2, <2>1 DEF ChainInv, Numbered, LastRow, HashAt
<1> QED BY <1>1, <1>2

LEMMA ChainStep == ChainInv /\ [Next]_vars => ChainInv'
<1> SUFFICES ASSUME ChainInv, [Next]_vars PROVE ChainInv'
  OBVIOUS
<1>1. TypeOK /\ TypeOK' /\ Len(rows) \in Nat
  BY TypeStep DEF ChainInv, TypeOK
<1>2. ASSUME rows' = rows, clock' = clock, ReadsStand' PROVE ChainInv'
  BY <1>1, <1>2 DEF ChainInv, Numbered, Linked, Continues, HashAt
<1>3. CASE Crash
  BY <1>2, <1>3 DEF Crash, ReadsStand
<1>4. ASSUME NEW t \in Threads, LogRead(t) PROVE ChainInv'
  <2>1. rows' = rows /\ clock' = clock /\ busy' = busy \cup {t}
    BY <1>4 DEF LogRead
  <2>2. last'[t] = [seq |-> Len(rows), hash |-> HashAt(Len(rows))]
    BY <1>1, <1>4, LastRowStands DEF LogRead, TypeOK
  <2>3. \A u \in busy : u # t => last'[u] = last[u]
    BY <1>1, <1>4 DEF LogRead, TypeOK
  <2>4. ReadsStand'
    <3> SUFFICES ASSUME NEW u \in busy'
                 PROVE  \E p \in 0 .. Len(rows) : last'[u] = [seq |-> p, hash |-> HashAt(p)]
      BY <2>1 DEF ReadsStand, HashAt
    <3>1. CASE u = t
      BY <1>1, <2>2, <3>1
    <3>2. CASE u # t
      BY <2>1, <2>3, <3>2 DEF ChainInv, ReadsStand
    <3> QED BY <3>1, <3>2
  <2> QED BY <1>2, <2>1, <2>4
<1>5. ASSUME NEW t \in Threads, LogInsert(t) PROVE ChainInv'
  <2>0. PICK n \in Nat : n = Len(rows)
    BY <1>1
  <2>1. rows' = Append(rows, NewRow(t)) /\ clock' = n + 1 /\ t \in busy
    BY <1>5, <2>0 DEF LogInsert, NewRow, ChainInv
  <2>2. /\ Len(rows') = n + 1
        /\ rows'[n + 1] = NewRow(t)
        /\ \A i \in 1 .. n : rows'[i] = rows[i]
    BY <1>1, <2>0, <2>1, NewRowType DEF TypeOK
  <2>3. \A p \in 0 .. n : HashAt(p)' = HashAt(p)
    BY <1>1, <2>0, <2>2 DEF HashAt
  <2>4. Numbered'
    BY <1>1, <2>0, <2>2 DEF ChainInv, Numbered, NewRow
  <2>5. Linked'
    <3>1. \A i \in 1 .. n : \E p \in 0 .. i - 1 : Continues(i, p)'
      <4> SUFFICES ASSUME NEW i \in 1 .. n PROVE \E p \in 0 .. i - 1 : Continues(i, p)'
        OBVIOUS
      <4>1. PICK p \in 0 .. i - 1 : Continues(i, p)
        BY <2>0 DEF ChainInv, Linked
      <4>2. p \in 0 .. n
        BY <1>1, <2>0, <4>1
      <4> QED BY <1>1, <2>0, <2>2, <2>3, <4>1, <4>2 DEF Continues
    <3>2. \E p \in 0 .. n : Continues(n + 1, p)'
      <4>1. PICK p \in 0 .. n : last[t] = [seq |-> p, hash |-> HashAt(p)]
        BY <2>0, <2>1 DEF ChainInv, ReadsStand
      <4>2. /\ rows'[n + 1].prev_hash = HashAt(p)
            /\ rows'[n + 1].entry_hash = Hash(p + 1, rows'[n + 1].ts, HashAt(p))
        BY <2>0, <2>2, <4>1 DEF NewRow
      <4>3. HashAt(p)' = HashAt(p)
        BY <2>3, <4>1
      <4> QED BY <4>1, <4>2, <4>3 DEF Continues
    <3>3. ASSUME NEW i \in 1 .. n + 1 PROVE \E p \in 0 .. i - 1 : Continues(i, p)'
      <4>1. CASE i = n + 1
        <5>1. i - 1 = n
          BY <1>1, <2>0, <4>1
        <5> QED BY <3>2, <4>1, <5>1
      <4>2. CASE i # n + 1
        <5>1. i \in 1 .. n
          BY <1>1, <2>0, <4>2
        <5> QED BY <3>1, <5>1
      <4> QED BY <4>1, <4>2
    <3> QED BY <2>2, <3>3 DEF Linked
  <2>6. ReadsStand'
    <3> SUFFICES ASSUME NEW u \in busy'
                 PROVE  \E p \in 0 .. n + 1 : last'[u] = [seq |-> p, hash |-> HashAt(p)']
      BY <2>2 DEF ReadsStand
    <3>1. u \in busy /\ last'[u] = last[u]
      BY <1>1, <2>0, <1>5 DEF LogInsert, TypeOK
    <3>2. PICK p \in 0 .. n : last[u] = [seq |-> p, hash |-> HashAt(p)]
      BY <2>0, <3>1 DEF ChainInv, ReadsStand
    <3> QED BY <1>1, <2>0, <2>3, <3>1, <3>2
  <2> QED BY <1>1, <2>0, <2>1, <2>2, <2>4, <2>5, <2>6 DEF ChainInv
<1>6. CASE UNCHANGED vars
  BY <1>2, <1>6 DEF vars, ChainInv, ReadsStand, HashAt
<1> QED BY <1>3, <1>4, <1>5, <1>6 DEF Next

LEMMA ChainStart == Init => ChainInv
<1> SUFFICES ASSUME Init PROVE ChainInv
  OBVIOUS
<1>1. rows = <<>> /\ Len(rows) = 0
  BY DEF Init
<1>2. TypeOK
  BY DEF Init, TypeOK, Empty, LastRead, Genesis, Digests
<1> QED BY <1>1, <1>2 DEF Init, ChainInv, Numbered, Linked, ReadsStand

(***************************************************************************)
(* A break names a race. Take the first row that does not verify: it       *)
(* continues a row before the one it follows, and so does the row after    *)
(* that one, which does verify.                                            *)
(***************************************************************************)
LEMMA FirstBreak ==
    ASSUME NEW S, S \subseteq Nat, S # {}
    PROVE  \E i \in S : \A j \in S : ~ (j < i)
<1>1. PICK i \in S : \A j \in S : ~ (<<j, i>> \in OpToRel(<, Nat))
  BY NatLessThanWellFounded, WFMin
<1> QED BY <1>1 DEF OpToRel

LEMMA BreakIsRace == ChainInv => BreakNamesRace
<1> SUFFICES ASSUME ChainInv, ~ ChainOk
             PROVE  \E i, j \in 1 .. Len(rows) : i # j /\ rows[i].prev_hash = rows[j].prev_hash
  BY DEF BreakNamesRace
<1> DEFINE Bad == {k \in 1 .. Len(rows) : ~ RowOk(k)}
<1>1. Len(rows) \in Nat
  BY DEF ChainInv, TypeOK
<1>2. PICK i \in Bad : \A j \in Bad : ~ (j < i)
  <2>1. Bad \subseteq Nat /\ Bad # {}
    BY DEF ChainOk
  <2> HIDE DEF Bad
  <2> QED BY <2>1, FirstBreak
<1>3. i \in 1 .. Len(rows) /\ ~ RowOk(i)
  BY <1>2
<1>4. PICK p \in 0 .. i - 1 : Continues(i, p)
  BY <1>3 DEF ChainInv, Linked
<1>5. p # i - 1
  <2> SUFFICES ASSUME p = i - 1 PROVE FALSE
    OBVIOUS
  <2>1. PrevHash(i) = HashAt(p) /\ rows[i].seq = p + 1
    BY <1>1, <1>3 DEF PrevHash, HashAt, ChainInv, Numbered
  <2> QED BY <1>3, <1>4, <2>1 DEF RowOk, Continues
<1>6. p + 1 \in 1 .. Len(rows) /\ p + 1 < i
  BY <1>1, <1>3, <1>4, <1>5
<1>7. RowOk(p + 1)
  BY <1>2, <1>6
<1>8. rows[p + 1].prev_hash = rows[i].prev_hash
  <2>1. PrevHash(p + 1) = HashAt(p)
    BY <1>4, <1>6 DEF PrevHash, HashAt
  <2> QED BY <1>4, <1>7, <2>1 DEF RowOk, Continues
<1> QED BY <1>3, <1>6, <1>8

\* Whatever interleaves and whatever crashes, verify_chain fails only where two
\* rows were built on the same predecessor.
THEOREM OnlyARaceBreaks == Spec => []BreakNamesRace
BY ChainStart, ChainStep, BreakIsRace, PTL DEF Spec

(***************************************************************************)
(* Steps that only append.                                                 *)
(***************************************************************************)
LEMMA OnlyAppends ==
    ASSUME ChainInv, [Next]_vars
    PROVE  \/ rows' = rows
           \/ /\ Len(rows') = Len(rows) + 1
              /\ Len(rows) + 1 <= MaxCalls
              /\ rows'[Len(rows) + 1].ts = Len(rows) + 1
              /\ \A i \in 1 .. Len(rows) : rows'[i] = rows[i]
<1>1. ASSUME NEW t \in Threads, LogInsert(t)
      PROVE  /\ Len(rows') = Len(rows) + 1
             /\ Len(rows) + 1 <= MaxCalls
             /\ rows'[Len(rows) + 1].ts = Len(rows) + 1
             /\ \A i \in 1 .. Len(rows) : rows'[i] = rows[i]
  <2>1. /\ rows' = Append(rows, NewRow(t)) /\ Len(rows) < MaxCalls
        /\ rows \in Seq(Entry) /\ NewRow(t) \in Entry /\ NewRow(t).ts = Len(rows) + 1
    BY <1>1, NewRowType DEF LogInsert, NewRow, ChainInv, TypeOK
  <2> QED BY <2>1, MaxCallsAssumption
<1> QED BY <1>1 DEF Next, Crash, LogRead, vars

\* Once the chain does not verify, no further call of log() makes it verify.
THEOREM BreaksStay == Spec => BrokenForever
<1>1. ChainInv /\ [Next]_vars => [~ ChainOk => ~ ChainOk']_vars
  <2> SUFFICES ASSUME ChainInv, [Next]_vars, ~ ChainOk PROVE ~ ChainOk'
    OBVIOUS
  <2>1. PICK i \in 1 .. Len(rows) : ~ RowOk(i)
    BY DEF ChainOk
  <2>2. Len(rows) \in Nat
    BY DEF ChainInv, TypeOK
  <2>3. i \in 1 .. Len(rows') /\ rows'[i] = rows[i] /\ PrevHash(i)' = PrevHash(i)
    BY <2>1, <2>2, OnlyAppends DEF PrevHash
  <2> QED BY <2>1, <2>3 DEF ChainOk, RowOk
<1> QED BY <1>1, ChainStart, ChainStep, PTL DEF Spec, BrokenForever

\* The table implements the append-only log: an entry is identified by its time
\* stamp, every insert writes a new one at the end, every other step stutters.
THEOREM LogIsAppendOnly == Spec => AppendOnly
<1> DEFINE stamps == [i \in 1 .. Len(rows) |-> rows[i].ts]
<1>1. Init => Log!Init
  BY DEF Init, Log!Init
<1>2. ChainInv /\ [Next]_vars => [Log!Next]_stamps
  <2> SUFFICES ASSUME ChainInv, [Next]_vars, stamps' # stamps PROVE Log!Next
    OBVIOUS
  <2>0. PICK n \in Nat : n = Len(rows)
    BY DEF ChainInv, TypeOK
  <2>1. rows' # rows
    OBVIOUS
  <2>2. /\ Len(rows') = n + 1 /\ n + 1 \in 1 .. MaxCalls
        /\ rows'[n + 1].ts = n + 1
        /\ \A i \in 1 .. n : rows'[i] = rows[i] /\ rows[i].ts = i
    BY <2>0, <2>1, OnlyAppends, MaxCallsAssumption DEF ChainInv, Numbered
  <2>3. stamps \in Seq(Nat) /\ Len(stamps) = n
    BY <2>0, <2>2
  <2>4. stamps' \in Seq(Nat) /\ Append(stamps, n + 1) \in Seq(Nat)
    <3>1. stamps' = [i \in 1 .. n + 1 |-> rows'[i].ts]
      BY <2>2
    <3>2. \A i \in 1 .. n + 1 : rows'[i].ts = i /\ i \in Nat
      BY <2>0, <2>2
    <3> QED BY <2>0, <2>3, <3>1, <3>2
  <2>5. stamps' = Append(stamps, n + 1)
    <3> SUFFICES /\ Len(stamps') = Len(Append(stamps, n + 1))
                 /\ \A i \in 1 .. Len(stamps') : stamps'[i] = Append(stamps, n + 1)[i]
      BY <2>4, SeqEqual
    <3> QED BY <2>0, <2>2, <2>3
  <2>6. \A i \in 1 .. Len(stamps) : stamps[i] # n + 1
    <3>1. \A i \in 1 .. n : stamps[i] = i
      BY <2>0, <2>2
    <3> HIDE DEF stamps
    <3> QED BY <2>0, <2>3, <3>1
  <2>7. Log!Write(n + 1)
    BY <2>5, <2>6 DEF Log!Write
  <2> QED BY <2>2, <2>7 DEF Log!Next
<1> QED BY <1>1, <1>2, ChainStart, ChainStep, PTL DEF Spec, AppendOnly, Log!Spec
=============================================================================
