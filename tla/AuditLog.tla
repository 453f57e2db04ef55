------------------------------ MODULE AuditLog ------------------------------
(***************************************************************************)
(* The hash-chained audit log of src/backend/app/security/audit.py.        *)
(*                                                                         *)
(* log() reads the last row, computes the hash of the new one from it and  *)
(* inserts the row: two statements, each under the database's lock, and    *)
(* nothing over both. Every request thread, the orchestrator's loop and    *)
(* the GPU worker call it.                                                 *)
(*                                                                         *)
(* Time stamps are taken to be distinct, and SHA-256 free of collisions.   *)
(* A hash is then known by the seq and ts it was computed from and by the  *)
(* ts of the row whose hash went into it.                                  *)
(***************************************************************************)
EXTENDS Naturals, Sequences

CONSTANTS
    Threads,    \* whoever calls audit.log
    MaxCalls    \* bound: how many entries are ever logged

ASSUME MaxCallsAssumption == MaxCalls \in Nat

VARIABLES
    rows,       \* table audit_log in the order of its AUTOINCREMENT key
    last,       \* what each thread has read as the last row's seq and hash
    busy,       \* the threads inside log()
    clock       \* db.now()

vars == <<rows, last, busy, clock>>

Digests == [seq : Nat, ts : Nat, prev : Nat]
Genesis == [seq |-> 0, ts |-> 0, prev |-> 0]
Entry == [seq : Nat, ts : Nat, prev_hash : Digests, entry_hash : Digests]
LastRead == [seq : Nat, hash : Digests]

Hash(seq, ts, prev) == [seq |-> seq, ts |-> ts, prev |-> prev.ts]

Empty == [seq |-> 0, hash |-> Genesis]

\* SELECT seq, entry_hash ... ORDER BY seq DESC LIMIT 1, or seq 0 and GENESIS.
LastRow ==
    IF rows = <<>> THEN Empty
    ELSE [seq |-> rows[Len(rows)].seq, hash |-> rows[Len(rows)].entry_hash]

-----------------------------------------------------------------------------
LogRead(t) ==
    /\ t \notin busy
    /\ clock < MaxCalls
    /\ last' = [last EXCEPT ![t] = LastRow]
    /\ busy' = busy \cup {t}
    /\ UNCHANGED <<rows, clock>>

\* Variant of LogInsert: INSERT OR REPLACE under the predicted seq.
LogReplace(t) ==
    /\ t \in busy /\ clock < MaxCalls
    /\ LET seq == last[t].seq + 1
           row == [seq |-> seq, ts |-> clock + 1, prev_hash |-> last[t].hash,
                   entry_hash |-> Hash(seq, clock + 1, last[t].hash)]
       IN  rows' = IF seq > Len(rows) THEN Append(rows, row)
                   ELSE [rows EXCEPT ![seq] = row]
    /\ clock' = clock + 1
    /\ busy' = busy \ {t}
    /\ last' = [last EXCEPT ![t] = Empty]

\* Variant of LogInsert: the seq of the row read goes into the hash, not its own.
LogStaleSeq(t) ==
    /\ t \in busy /\ clock < MaxCalls
    /\ rows' = Append(rows,
                  [seq |-> Len(rows) + 1, ts |-> clock + 1, prev_hash |-> last[t].hash,
                   entry_hash |-> Hash(last[t].seq, clock + 1, last[t].hash)])
    /\ clock' = clock + 1
    /\ busy' = busy \ {t}
    /\ last' = [last EXCEPT ![t] = Empty]

\* The seq that goes into the hash is predicted from the row read before; the
\* one the row gets is the table's next key. The time stamp, really taken a moment
\* before, is taken with the insert: its order is compared with nothing.
LogInsert(t) ==
    /\ t \in busy /\ clock < MaxCalls
    /\ rows' = Append(rows,
                  [seq |-> Len(rows) + 1, ts |-> clock + 1, prev_hash |-> last[t].hash,
                   entry_hash |-> Hash(last[t].seq + 1, clock + 1, last[t].hash)])
    /\ clock' = clock + 1
    /\ busy' = busy \ {t}
    /\ last' = [last EXCEPT ![t] = Empty]

\* The process dies: what was not inserted is never logged.
Crash ==
    /\ busy # {}
    /\ busy' = {}
    /\ last' = [t \in Threads |-> Empty]
    /\ UNCHANGED <<rows, clock>>

Init ==
    /\ rows = <<>>
    /\ last = [t \in Threads |-> Empty]
    /\ busy = {}
    /\ clock = 0

Next == Crash \/ \E t \in Threads : LogRead(t) \/ LogInsert(t)

Spec == Init /\ [][Next]_vars

-----------------------------------------------------------------------------
(* verify_chain                                                            *)

PrevHash(i) == IF i = 1 THEN Genesis ELSE rows[i - 1].entry_hash

RowOk(i) ==
    /\ rows[i].entry_hash = Hash(rows[i].seq, rows[i].ts, PrevHash(i))
    /\ rows[i].prev_hash = PrevHash(i)

\* verify_chain()["ok"]
ChainOk == \A i \in 1 .. Len(rows) : RowOk(i)

-----------------------------------------------------------------------------
(* Properties.                                                             *)

TypeOK ==
    /\ rows \in Seq(Entry)
    /\ last \in [Threads -> LastRead]
    /\ busy \subseteq Threads
    /\ clock \in Nat

\* A chain that does not verify names its cause: two rows were built on the same
\* predecessor. In other words, as long as no two calls of log() have read the
\* same last row, whatever the crashes, verify_chain finds nothing.
BreakNamesRace ==
    ~ChainOk => \E i, j \in 1 .. Len(rows) : i # j /\ rows[i].prev_hash = rows[j].prev_hash

\* One race is final: no later entry makes the chain verify again, and with it
\* every state bundle exported from then on is refused (backup/manager.py:173).
BrokenForever == [][~ChainOk => ~ChainOk']_vars

\* Races or not, the table is an append-only log: no call overwrites an entry,
\* and none is entered twice (audit.py has no other write).
Log == INSTANCE AppendOnlyLog WITH
           Entries <- 1 .. MaxCalls,
           entries <- [i \in 1 .. Len(rows) |-> rows[i].ts]

AppendOnly == Log!Spec

\* audit.py:7 "verify_chain() re-computes the chain to detect tampering": nobody
\* tampers here, so it reports none.
NoFalseAlarm == ChainOk
=============================================================================
