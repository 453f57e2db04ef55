----------------------------- MODULE Bundles_proofs -----------------------------
(***************************************************************************)
(* What every copy and every restore keeps, for any number of threads,     *)
(* models and copies, any way the file is cut in two and any crash.        *)
(***************************************************************************)
EXTENDS Bundles, TLAPS

-----------------------------------------------------------------------------
(***************************************************************************)
(* What holds of every place that holds pages: the file, the log, the      *)
(* connection's view and each image.  D are the copies that are complete   *)
(* and K the checkpoint files.                                             *)
(***************************************************************************)

\* A schema that migrations left: the versions are those of a prefix of the
\* script, and the statements of each are there.
SchemaOk(s) ==
    /\ s = [objs |-> s.objs, versions |-> s.versions]
    /\ \E k \in 0..CURRENT_SCHEMA_VERSION :
        /\ s.versions = 1..k
        /\ \A m \in 1..k : StatementsOf(m) \subseteq s.objs

PagesOk(f, D, K) ==
    /\ "schema" \in DOMAIN f => SchemaOk(f["schema"])
    /\ f = [p \in DOMAIN f |-> f[p]]
    /\ DOMAIN f \subseteq Pages
    /\ "copies" \in DOMAIN f => f["copies"] \subseteq D
    /\ "models" \in DOMAIN f => f["models"] \subseteq K
    /\ "audit" \in DOMAIN f => f["audit"] \in {"ok", "broken"}

Complete(c) ==
    /\ copy[c].kind # "none"
    /\ torn \/ DOMAIN copy[c].image = Pages
    /\ "models" \in DOMAIN copy[c].image => copy[c].image["models"] \subseteq copy[c].files
    /\ copy[c].kind = "bundle" => copy[c].manifest # NoManifest

Working(t, c) == pc[t] \in Begun /\ arg[t] = c

Done == {c \in Copies : Complete(c) /\ \A t \in Threads : ~Working(t, c)}

StoreInv ==
    /\ PagesOk(file, Done, ckpt)
    /\ PagesOk(view, Done, ckpt) /\ DOMAIN view = Pages
    /\ PagesOk(wal, Done, ckpt)

CopyRecord(r) ==
    r = [kind |-> r.kind, image |-> r.image, files |-> r.files, manifest |-> r.manifest]

CopyInv ==
    /\ copy = [c \in Copies |-> copy[c]]
    /\ \A c \in Copies : CopyRecord(copy[c]) /\ PagesOk(copy[c].image, Done, ckpt)

\* What a call has done to its copy at each of its steps.
ThreadInv(t) ==
    /\ pc[t] \in Begun =>
        /\ arg[t] \in Copies
        /\ copy[arg[t]].kind # "none"
        /\ \A u \in Threads \ {t} : ~Working(u, arg[t])
    /\ pc[t] = "copyRest" => torn \/ Front \subseteq DOMAIN copy[arg[t]].image
    /\ pc[t] \in {"copyFiles", "manifest", "insert"} => torn \/ DOMAIN copy[arg[t]].image = Pages
    /\ pc[t] \in {"manifest", "insert"} /\ "models" \in DOMAIN copy[arg[t]].image =>
        copy[arg[t]].image["models"] \subseteq copy[arg[t]].files
    /\ pc[t] = "insert" /\ copy[arg[t]].kind = "bundle" => copy[arg[t]].manifest # NoManifest
    /\ pc[t] \in Replacing => arg[t] \in Done
    /\ pc[t] = "saveRow" => arg[t] \in ckpt

LocalInv ==
    /\ pc \in [Threads -> Labels]
    /\ arg = [t \in Threads |-> arg[t]]
    /\ \A t \in Threads : ThreadInv(t)

Inv == StoreInv /\ CopyInv /\ LocalInv

\* Whether the file lacks a page: only while a restore writes it, or after one
\* that was cut off; and a restore only writes while the server runs.
FileInv ==
    /\ torn => replaced
    /\ \A t \in Threads : pc[t] \in Writing => replaced
    /\ ~torn => \A p \in Pages \ DOMAIN file : \E t \in Threads :
                    pc[t] = "replaceFront" \/ (pc[t] = "replaceRest" /\ p \notin Front)
    /\ phase # "up" => \A t \in Threads : pc[t] = "idle"

\* How far migrate() is: the versions before at[1] are there, those it found
\* are among them, and the statements before at[2] are there or pending.
MigInv ==
    phase = "migrating" =>
        /\ at = <<at[1], at[2]>>
        /\ at[1] \in 1..(CURRENT_SCHEMA_VERSION + 1) /\ at[2] \in Nat \ {0}
        /\ schema.versions = 1..(at[1] - 1)
        /\ \E j \in 0..(at[1] - 1) : applied = 1..j
        /\ at[1] <= CURRENT_SCHEMA_VERSION =>
            /\ at[2] <= Len(Script[at[1]]) + 1
            /\ \A i \in 1..(at[2] - 1) : Script[at[1]][i] \in schema.objs \union pending
        /\ \A s \in pending : s.kind = "fill"

-----------------------------------------------------------------------------

\* More complete copies and more checkpoints take nothing from a place.
LEMMA PagesGrow ==
    ASSUME NEW f, NEW D, NEW K, NEW D2, NEW K2,
           PagesOk(f, D, K), D \subseteq D2, K \subseteq K2
    PROVE  PagesOk(f, D2, K2)
BY DEF PagesOk

\* An overlay of two good places is good.
LEMMA OverlayOk ==
    ASSUME NEW w, NEW f, NEW D, NEW K,
           PagesOk(w, D, K), PagesOk(f, D, K)
    PROVE  /\ PagesOk(Overlay(w, f), D, K)
           /\ DOMAIN Overlay(w, f) = DOMAIN w \union DOMAIN f
BY DEF PagesOk, Overlay

\* A part of a good place is good.
LEMMA PartOk ==
    ASSUME NEW f, NEW S, NEW D, NEW K, PagesOk(f, D, K)
    PROVE  /\ PagesOk(Part(f, S), D, K)
           /\ DOMAIN Part(f, S) = DOMAIN f \intersect S
BY DEF PagesOk, Part

LEMMA NoFramesOk ==
    ASSUME NEW D, NEW K
    PROVE  PagesOk(NoFrames, D, K)
BY DEF PagesOk, NoFrames, Pages

LEMMA EmptyOk ==
    ASSUME NEW D, NEW K
    PROVE  PagesOk(EmptyDatabase, D, K) /\ DOMAIN EmptyDatabase = Pages
<1>1. SchemaOk([objs |-> {}, versions |-> {}])
  <2>1. 0 \in 0..CURRENT_SCHEMA_VERSION
    BY DEF CURRENT_SCHEMA_VERSION, Script
  <2>2. 1..0 = {}
    OBVIOUS
  <2>3. QED
    BY <2>1, <2>2 DEF SchemaOk
<1>2. QED
  BY <1>1 DEF PagesOk, EmptyDatabase, Pages

\* Old copies and old databases are good.
LEMMA OldOk ==
    ASSUME NEW k \in Releases, NEW rows, NEW D, NEW K, rows \subseteq D
    PROVE  PagesOk(OldImage(k, rows), D, K) /\ DOMAIN OldImage(k, rows) = Pages
<1>1. k \in 0..CURRENT_SCHEMA_VERSION
  BY StoreAssumption
<1>2. SchemaOk(Through(k))
  BY <1>1 DEF SchemaOk, Through
<1>3. QED
  BY <1>2 DEF PagesOk, OldImage, Pages

-----------------------------------------------------------------------------
(***************************************************************************)
(* The migrations (manager.py:71-82).                                      *)
(***************************************************************************)

\* The script has five migrations, none of them empty.
LEMMA ScriptLengths ==
    /\ CURRENT_SCHEMA_VERSION = 5
    /\ Len(Script[1]) = 4 /\ Len(Script[2]) = 7 /\ Len(Script[3]) = 2
    /\ Len(Script[4]) = 2 /\ Len(Script[5]) = 4
BY DEF CURRENT_SCHEMA_VERSION, Script, BaseSchema, ExtendedRuntimeSchema, IndexesAndMetadata,
       StateBundles, SessionHardening

\* What each kind of statement needs.
LEMMA NeedsOf ==
    ASSUME NEW t, NEW c
    PROVE  /\ Needs(Table(t)) = {}
           /\ Needs(Fill(t, c)) = {Column(t, c)}
           /\ Needs(Column(t, c)) = {Table(t)}
           /\ Needs(Index(t)) = {Table(t)}
           /\ Table(t).kind = "table" /\ Column(t, c).kind = "column"
BY DEF Needs, Table, Fill, Column, Index

\* The statements of each migration, one by one.
LEMMA ScriptStatements ==
    /\ \A i \in 1..4 : \E t : Script[1][i] = Table(t)
    /\ Script[1][1] = Table("messages") /\ Script[1][2] = Table("memory")
    /\ Script[1][3] = Table("models")
    /\ Script[2][1] = Table("sessions") /\ Script[2][2] = Table("rag_chunks")
    /\ Script[2][3] = Column("memory", "source") /\ Script[2][4] = Column("memory", "approved")
    /\ Script[2][5] = Column("models", "model_type")
    /\ Script[2][6] = Column("models", "approved_at")
    /\ Script[2][7] = Fill("memory", "source")
    /\ Script[3][1] = Index("messages") /\ Script[3][2] = Index("rag_chunks")
    /\ Script[4][1] = Table("state_bundles") /\ Script[4][2] = Index("state_bundles")
    /\ Script[5][1] = Column("sessions", "last_seen_at")
    /\ Script[5][2] = Column("sessions", "last_ip")
    /\ Script[5][3] = Fill("sessions", "last_seen_at") /\ Script[5][4] = Index("sessions")
<1>1. /\ Script[1] = BaseSchema /\ Script[2] = ExtendedRuntimeSchema
      /\ Script[3] = IndexesAndMetadata /\ Script[4] = StateBundles /\ Script[5] = SessionHardening
  BY DEF Script
<1>2. \A i \in 1..4 : \E t : BaseSchema[i] = Table(t)
  <2>1. /\ BaseSchema[1] = Table("messages") /\ BaseSchema[2] = Table("memory")
        /\ BaseSchema[3] = Table("models") /\ BaseSchema[4] = Table("backups")
    BY DEF BaseSchema
  <2>2. QED
    BY <2>1
<1>3. QED
  BY <1>1, <1>2 DEF BaseSchema, ExtendedRuntimeSchema, IndexesAndMetadata, StateBundles,
                    SessionHardening

\* What a statement needs, an earlier one makes: in an earlier migration, or
\* before it in its own.  And it is not an UPDATE, which would be pending.
LEMMA ScriptNeeds ==
    ASSUME NEW m \in 1..CURRENT_SCHEMA_VERSION, NEW i \in 1..Len(Script[m]),
           NEW n \in Needs(Script[m][i])
    PROVE  /\ n.kind # "fill"
           /\ \/ \E k \in 1..(m - 1) : n \in StatementsOf(k)
              \/ \E j \in 1..(i - 1) : Script[m][j] = n
<1>1. m \in 1..5
  BY ScriptLengths
<1>2. /\ Table("messages").kind = "table" /\ Table("memory").kind = "table"
      /\ Table("models").kind = "table" /\ Table("sessions").kind = "table"
      /\ Table("rag_chunks").kind = "table" /\ Table("state_bundles").kind = "table"
      /\ Column("memory", "source").kind = "column"
      /\ Column("sessions", "last_seen_at").kind = "column"
  BY NeedsOf
<1>3. /\ Table("messages") \in StatementsOf(1) /\ Table("memory") \in StatementsOf(1)
      /\ Table("models") \in StatementsOf(1)
      /\ Table("sessions") \in StatementsOf(2) /\ Table("rag_chunks") \in StatementsOf(2)
  <2>1. \A k \in 1..5 : \A q \in 1..Len(Script[k]) : Script[k][q] \in StatementsOf(k)
    BY DEF StatementsOf
  <2>2. /\ 1 \in 1..Len(Script[1]) /\ 2 \in 1..Len(Script[1]) /\ 3 \in 1..Len(Script[1])
        /\ 1 \in 1..Len(Script[2]) /\ 2 \in 1..Len(Script[2])
    BY ScriptLengths
  <2>3. /\ Script[1][1] \in StatementsOf(1) /\ Script[1][2] \in StatementsOf(1)
        /\ Script[1][3] \in StatementsOf(1)
        /\ Script[2][1] \in StatementsOf(2) /\ Script[2][2] \in StatementsOf(2)
    BY <2>1, <2>2
  <2>4. QED
    BY <2>3, ScriptStatements
<1>4. CASE m = 1
  <2>1. i \in 1..4
    BY <1>4, ScriptLengths
  <2>2. PICK t : Script[m][i] = Table(t)
    BY <2>1, <1>4, ScriptStatements
  <2>3. QED
    BY <2>2, NeedsOf
<1>5. CASE m = 2
  <2>1. i \in 1..7
    BY <1>5, ScriptLengths
  <2>2. CASE i \in {1, 2}
    BY <2>2, <1>5, NeedsOf, ScriptStatements
  <2>3. CASE i \in {3, 4}
    <3>1. n = Table("memory")
      BY <2>3, <1>5, NeedsOf, ScriptStatements
    <3>2. QED
      BY <3>1, <1>2, <1>3, <1>5
  <2>4. CASE i \in {5, 6}
    <3>1. n = Table("models")
      BY <2>4, <1>5, NeedsOf, ScriptStatements
    <3>2. QED
      BY <3>1, <1>2, <1>3, <1>5
  <2>5. CASE i = 7
    <3>1. n = Script[m][3] /\ n = Column("memory", "source")
      BY <2>5, <1>5, NeedsOf, ScriptStatements
    <3>2. n.kind # "fill"
      BY <3>1, <1>2
    <3>3. 3 \in 1..(i - 1) /\ Script[m][3] = n
      BY <3>1, <2>5
    <3>4. QED
      BY <3>2, <3>3
  <2>6. QED
    BY <2>1, <2>2, <2>3, <2>4, <2>5
<1>6. CASE m = 3
  <2>1. i \in 1..2
    BY <1>6, ScriptLengths
  <2>2. n \in {Table("messages"), Table("rag_chunks")}
    <3>1. Needs(Index("messages")) = {Table("messages")}
      BY NeedsOf
    <3>2. Needs(Index("rag_chunks")) = {Table("rag_chunks")}
      BY NeedsOf
    <3>3. QED
      BY <3>1, <3>2, <2>1, <1>6, ScriptStatements
  <2>3. n.kind # "fill"
    BY <2>2, <1>2
  <2>4. QED
    BY <2>2, <2>3, <1>3, <1>6
<1>7. CASE m = 4
  <2>1. i \in 1..2
    BY <1>7, ScriptLengths
  <2>2. i = 2 /\ n = Script[m][1] /\ n = Table("state_bundles")
    <3>1. Needs(Table("state_bundles")) = {}
      BY NeedsOf
    <3>2. Needs(Index("state_bundles")) = {Table("state_bundles")}
      BY NeedsOf
    <3>3. QED
      BY <3>1, <3>2, <2>1, <1>7, ScriptStatements
  <2>3. n.kind # "fill"
    BY <2>2, <1>2
  <2>4. 1 \in 1..(i - 1) /\ Script[m][1] = n
    BY <2>2
  <2>5. QED
    BY <2>3, <2>4
<1>8. CASE m = 5
  <2>1. i \in 1..4
    BY <1>8, ScriptLengths
  <2>2. CASE i \in {1, 2, 4}
    <3>1. n = Table("sessions")
      BY <2>2, <1>8, NeedsOf, ScriptStatements
    <3>2. QED
      BY <3>1, <1>2, <1>3, <1>8
  <2>3. CASE i = 3
    <3>1. n = Script[m][1] /\ n = Column("sessions", "last_seen_at")
      BY <2>3, <1>8, NeedsOf, ScriptStatements
    <3>2. n.kind # "fill"
      BY <3>1, <1>2
    <3>3. 1 \in 1..(i - 1) /\ Script[m][1] = n
      BY <3>1, <2>3
    <3>4. QED
      BY <3>2, <3>3
  <2>4. QED
    BY <2>1, <2>2, <2>3
<1>9. QED
  BY <1>1, <1>4, <1>5, <1>6, <1>7, <1>8

\* Which migration is next: the first after those that are there.
LEMMA TodoFirst ==
    ASSUME NEW k \in 0..CURRENT_SCHEMA_VERSION
    PROVE  Todo(1, 1..k) = k + 1
<1>1. CURRENT_SCHEMA_VERSION = 5
  BY ScriptLengths
<1>2. CASE k = 5
  BY <1>1, <1>2 DEF Todo
<1>3. CASE k < 5
  <2>1. (1..5) \ (1..k) = (k + 1)..5
    BY <1>1, <1>3
  <2>2. ~(1..5 \subseteq 1..k)
    BY <1>1, <1>3
  <2>3. Todo(1, 1..k) = CHOOSE x \in (k + 1)..5 : \A y \in (k + 1)..5 : x <= y
    BY <1>1, <2>1, <2>2 DEF Todo
  <2>4. k + 1 \in (k + 1)..5 /\ \A y \in (k + 1)..5 : k + 1 <= y
    BY <1>1, <1>3
  <2>5. \A x \in (k + 1)..5 : (\A y \in (k + 1)..5 : x <= y) => x = k + 1
    BY <1>1, <1>3
  <2>6. QED
    BY <2>3, <2>4, <2>5
<1>4. QED
  BY <1>1, <1>2, <1>3

\* After a migration that was not there, the next one is not there either.
LEMMA TodoNext ==
    ASSUME NEW m \in 1..CURRENT_SCHEMA_VERSION, NEW j \in 0..(m - 1)
    PROVE  Todo(m + 1, 1..j) = m + 1
<1>1. CURRENT_SCHEMA_VERSION = 5
  BY ScriptLengths
<1>2. CASE m = 5
  <2>1. (m + 1)..5 = {}
    BY <1>2
  <2>2. QED
    BY <1>1, <1>2, <2>1 DEF Todo
<1>3. CASE m < 5
  <2>1. ((m + 1)..5) \ (1..j) = (m + 1)..5
    BY <1>1, <1>3
  <2>2. ~((m + 1)..5 \subseteq 1..j)
    BY <1>1, <1>3
  <2>3. Todo(m + 1, 1..j) = CHOOSE x \in (m + 1)..5 : \A y \in (m + 1)..5 : x <= y
    BY <1>1, <2>1, <2>2 DEF Todo
  <2>4. m + 1 \in (m + 1)..5 /\ \A y \in (m + 1)..5 : m + 1 <= y
    BY <1>1, <1>3
  <2>5. \A x \in (m + 1)..5 : (\A y \in (m + 1)..5 : x <= y) => x = m + 1
    BY <1>1, <1>3
  <2>6. QED
    BY <2>3, <2>4, <2>5
<1>4. QED
  BY <1>1, <1>2, <1>3

\* What migrate() writes is a schema that migrations left.
LEMMA MigrationWrites ==
    ASSUME StoreInv, MigInv, CommitFirst \/ RunStatement \/ RecordVersion
    PROVE  /\ UNCHANGED db \/ \E v : Write("schema", v) /\ SchemaOk(v)
           /\ MigInv'
<1>1. /\ phase = "migrating" /\ phase' = phase /\ applied' = applied
      /\ at[1] <= CURRENT_SCHEMA_VERSION
  BY DEF CommitFirst, RunStatement, RecordVersion, AtStatement
<1>2. /\ at = <<at[1], at[2]>>
      /\ at[1] \in 1..CURRENT_SCHEMA_VERSION /\ at[2] \in Nat \ {0}
      /\ schema.versions = 1..(at[1] - 1)
      /\ at[2] <= Len(Script[at[1]]) + 1
      /\ \A i \in 1..(at[2] - 1) : Script[at[1]][i] \in schema.objs \union pending
      /\ \A s \in pending : s.kind = "fill"
  BY <1>1, ScriptLengths DEF MigInv
<1>3. PICK j \in 0..(at[1] - 1) : applied = 1..j
  BY <1>1 DEF MigInv
<1>4. PICK m \in 1..CURRENT_SCHEMA_VERSION, i \in Nat \ {0} : m = at[1] /\ i = at[2]
  BY <1>2
<1>5. Len(Script[m]) \in Nat
  BY ScriptLengths
<1>6. SchemaOk(schema) /\ view["schema"] = schema /\ DOMAIN view = Pages /\ "schema" \in Pages
  BY DEF StoreInv, PagesOk, Pages, schema
<1>7. /\ schema = [objs |-> schema.objs, versions |-> schema.versions]
      /\ \A k \in 1..(m - 1) : StatementsOf(k) \subseteq schema.objs
  <2>1. PICK k \in 0..CURRENT_SCHEMA_VERSION :
          schema.versions = 1..k /\ \A l \in 1..k : StatementsOf(l) \subseteq schema.objs
    BY <1>6 DEF SchemaOk
  <2>2. 1..k = 1..(m - 1)
    BY <2>1, <1>2, <1>4
  <2>3. k = m - 1
    BY <2>2, <1>4, ScriptLengths
  <2>4. QED
    BY <2>1, <2>3, <1>6 DEF SchemaOk
<1>8. \A v : Write("schema", v) => schema' = v
  BY <1>6 DEF Write, schema
<1>9. \A S : [schema EXCEPT !.objs = @ \union S]
                = [objs |-> schema.objs \union S, versions |-> 1..(m - 1)]
  <2>1. \A r, S : r = [objs |-> r.objs, versions |-> r.versions]
                  => [r EXCEPT !.objs = @ \union S]
                       = [objs |-> r.objs \union S, versions |-> r.versions]
    OBVIOUS
  <2>2. QED
    BY <2>1, <1>2, <1>4, <1>7
<1>10. CASE CommitFirst
  <2>1. PICK v : v = [objs |-> schema.objs \union pending, versions |-> 1..(m - 1)]
    OBVIOUS
  <2>2. [schema EXCEPT !.objs = @ \union pending] = v
    BY <2>1, <1>9
  <2>3. Write("schema", v) /\ pending' = {} /\ at' = at
    BY <2>2, <1>10 DEF CommitFirst
  <2>4. SchemaOk(v)
    BY <2>1, <1>4, <1>7, ScriptLengths DEF SchemaOk
  <2>5. schema' = v
    BY <2>3, <1>8
  <2>6. MigInv'
    BY <2>1, <2>3, <2>5, <1>1, <1>2, <1>3, <1>4 DEF MigInv
  <2>7. QED
    BY <2>3, <2>4, <2>6
<1>11. CASE RunStatement
  <2>1. PICK s : s = Script[m][i]
    OBVIOUS
  <2>2. i <= Len(Script[m]) /\ Statement = s /\ at' = <<m, i + 1>>
    BY <2>1, <1>11, <1>4 DEF RunStatement, AtStatement, Statement
  <2>3. CASE s.kind = "fill"
    <3>1. pending' = pending \union {s} /\ UNCHANGED db
      BY <2>2, <2>3, <1>11 DEF RunStatement
    <3>2. schema' = schema
      BY <3>1 DEF db, schema
    <3>3. MigInv'
      <4>1. \A l \in 1..(i + 1 - 1) : Script[m][l] \in schema.objs \union (pending \union {s})
        BY <2>1, <1>2, <1>4
      <4>2. \A q \in pending' : q.kind = "fill"
        BY <3>1, <2>3, <1>2
      <4>3. QED
        BY <4>1, <4>2, <3>1, <3>2, <2>2, <1>1, <1>2, <1>3, <1>4, <1>5 DEF MigInv
    <3>4. QED
      BY <3>1, <3>3
  <2>4. CASE s.kind # "fill"
    <3>1. PICK v : v = [objs |-> schema.objs \union {s}, versions |-> 1..(m - 1)]
      OBVIOUS
    <3>2. Write("schema", v) /\ pending = {} /\ pending' = {}
      <4>1. [schema EXCEPT !.objs = @ \union {s}] = v
        BY <3>1, <1>9
      <4>2. QED
        BY <4>1, <2>2, <2>4, <1>11 DEF RunStatement
    <3>3. SchemaOk(v)
      BY <3>1, <1>4, <1>7, ScriptLengths DEF SchemaOk
    <3>4. schema' = v
      BY <3>2, <1>8
    <3>5. MigInv'
      <4>1. \A l \in 1..(i + 1 - 1) : Script[m][l] \in v.objs \union {}
        BY <3>1, <3>2, <2>1, <1>2, <1>4
      <4>2. QED
        BY <4>1, <3>1, <3>2, <3>4, <2>2, <1>1, <1>2, <1>3, <1>4, <1>5 DEF MigInv
    <3>6. QED
      BY <3>2, <3>3, <3>5
  <2>5. QED
    BY <2>3, <2>4
<1>12. CASE RecordVersion
  <2>1. PICK v : v = [objs |-> schema.objs \union pending, versions |-> (1..(m - 1)) \union {m}]
    OBVIOUS
  <2>2. /\ Write("schema", v) /\ pending' = {}
        /\ at' = <<Todo(m + 1, applied), 1>> /\ i > Len(Script[m])
    BY <2>1, <1>12, <1>2, <1>4 DEF RecordVersion
  <2>3. at' = <<m + 1, 1>>
    BY <2>2, <1>3, <1>4, TodoNext
  <2>4. v.versions = 1..m
    BY <2>1, <1>4, ScriptLengths
  <2>5. StatementsOf(m) \subseteq v.objs
    BY <2>1, <2>2, <1>2, <1>4, <1>5 DEF StatementsOf
  <2>6. SchemaOk(v)
    <3>1. \A k \in 1..m : StatementsOf(k) \subseteq v.objs
      BY <2>1, <2>5, <1>4, <1>7, ScriptLengths
    <3>2. v = [objs |-> v.objs, versions |-> v.versions]
      BY <2>1
    <3>3. QED
      BY <3>1, <3>2, <2>4, <1>4, ScriptLengths DEF SchemaOk
  <2>7. schema' = v
    BY <2>2, <1>8
  <2>8. MigInv'
    <3>1. \A k \in 1..5 : 1 <= Len(Script[k]) + 1
      BY ScriptLengths
    <3>2. QED
      BY <3>1, <2>2, <2>3, <2>4, <2>7, <1>1, <1>3, <1>4, ScriptLengths DEF MigInv
  <2>9. QED
    BY <2>2, <2>6, <2>8
<1>13. QED
  BY <1>10, <1>11, <1>12

\* A start finds a schema that migrations left, and goes on from there.
LEMMA StartKeeps ==
    ASSUME StoreInv, Start
    PROVE  MigInv'
<1>1. /\ phase' = "migrating" /\ applied' = schema.versions /\ pending' = {}
      /\ at' = <<Todo(1, schema.versions), 1>> /\ schema' = schema
  BY DEF Start, db, schema
<1>2. SchemaOk(schema)
  BY DEF StoreInv, PagesOk, Pages, schema
<1>3. PICK k \in 0..CURRENT_SCHEMA_VERSION : schema.versions = 1..k
  BY <1>2 DEF SchemaOk
<1>4. at' = <<k + 1, 1>>
  BY <1>1, <1>3, TodoFirst
<1>5. \A m \in 1..5 : 1 <= Len(Script[m]) + 1
  BY ScriptLengths
<1>6. QED
  BY <1>1, <1>3, <1>4, <1>5, ScriptLengths DEF MigInv

-----------------------------------------------------------------------------
(***************************************************************************)
(* The database under the steps of SQLite and of the threads.              *)
(***************************************************************************)

LEMMA SameStore ==
    ASSUME StoreInv, Done \subseteq Done', ckpt \subseteq ckpt', UNCHANGED db
    PROVE  StoreInv'
BY PagesGrow DEF StoreInv, db

LEMMA WrittenStore ==
    ASSUME StoreInv, Done \subseteq Done', ckpt \subseteq ckpt',
           \E p \in Pages : \E v :
               /\ Write(p, v)
               /\ p = "copies" => v \subseteq Done'
               /\ p = "models" => v \subseteq ckpt'
               /\ p = "audit" => v \in {"ok", "broken"}
               /\ p = "schema" => SchemaOk(v)
    PROVE  StoreInv'
<1>1. PICK p \in Pages : \E v : Write(p, v) /\ (p = "copies" => v \subseteq Done')
                                         /\ (p = "models" => v \subseteq ckpt')
                                         /\ (p = "audit" => v \in {"ok", "broken"})
                                         /\ (p = "schema" => SchemaOk(v))
  OBVIOUS
<1>2. PICK v : Write(p, v) /\ (p = "copies" => v \subseteq Done')
                           /\ (p = "models" => v \subseteq ckpt')
                           /\ (p = "audit" => v \in {"ok", "broken"})
                           /\ (p = "schema" => SchemaOk(v))
  BY <1>1
<1>3. PagesOk(file, Done', ckpt') /\ PagesOk(view, Done', ckpt') /\ PagesOk(wal, Done', ckpt')
  BY PagesGrow DEF StoreInv
<1>4. PagesOk(file', Done', ckpt')
  BY <1>2, <1>3 DEF Write
<1>5. view' = [view EXCEPT ![p] = v] /\ DOMAIN view = Pages
  BY <1>2 DEF Write, StoreInv
<1>6. PagesOk(view', Done', ckpt') /\ DOMAIN view' = Pages
  BY <1>2, <1>3, <1>5 DEF PagesOk
<1>7. wal' = [q \in Live \union {p} |-> IF q = p THEN v ELSE wal[q]] /\ Live \subseteq DOMAIN wal
  BY <1>2 DEF Write, Live
<1>8. PagesOk(wal', Done', ckpt')
  BY <1>2, <1>3, <1>7 DEF PagesOk
<1>9. QED
  BY <1>4, <1>6, <1>8 DEF StoreInv

LEMMA SqliteKeeps ==
    ASSUME StoreInv, Done \subseteq Done', ckpt \subseteq ckpt',
           Checkpoint \/ (\E p \in Pages : Evict(p)) \/ Close \/ Lose
    PROVE  StoreInv'
<1>1. PagesOk(file, Done', ckpt') /\ PagesOk(view, Done', ckpt') /\ PagesOk(wal, Done', ckpt')
  BY PagesGrow DEF StoreInv
<1>2. DOMAIN view = Pages
  BY DEF StoreInv
<1>3. PagesOk(NoFrames, Done', ckpt')
  BY NoFramesOk
<1>4. PagesOk(Overlay(wal, file), Done', ckpt')
  BY <1>1, OverlayOk
<1>5. PagesOk(Overlay(NoFrames, file), Done', ckpt')
  BY <1>1, <1>3, OverlayOk
<1>6. CASE Checkpoint
  BY <1>6, <1>1, <1>2, <1>4 DEF Checkpoint, StoreInv
<1>7. CASE \E p \in Pages : Evict(p)
  <2>1. PICK p \in Pages : Evict(p)
    BY <1>7
  <2>2. /\ view' = [view EXCEPT ![p] = file[p]] /\ file' = file /\ wal' = wal
        /\ p \in DOMAIN file
    BY <2>1 DEF Evict
  <2>3. PagesOk(view', Done', ckpt') /\ DOMAIN view' = Pages
    BY <2>2, <1>1, <1>2 DEF PagesOk
  <2>4. QED
    BY <2>2, <2>3, <1>1, <1>2 DEF StoreInv
<1>8. ASSUME NEW f, NEW w, PagesOk(f, Done', ckpt'), PagesOk(w, Done', ckpt'), Reopen(f, w)
      PROVE  StoreInv'
  <2>1. PagesOk(file', Done', ckpt') /\ PagesOk(wal', Done', ckpt')
    BY <1>3, <1>8, EmptyOk DEF Reopen
  <2>2. CASE Readable'
    <3>1. view' = Overlay(wal', file') /\ DOMAIN Overlay(wal', file') = Pages
      BY <1>8, <2>2 DEF Reopen, Readable
    <3>2. PagesOk(Overlay(wal', file'), Done', ckpt')
      BY <2>1, OverlayOk
    <3>3. QED
      BY <2>1, <3>1, <3>2 DEF StoreInv
  <2>3. CASE ~Readable'
    <3>1. view' = view
      BY <1>8, <2>3 DEF Reopen
    <3>2. QED
      BY <2>1, <3>1, <1>1, <1>2 DEF StoreInv
  <2>4. QED
    BY <2>2, <2>3
<1>9. CASE Close
  BY <1>9, <1>3, <1>4, <1>5, <1>8 DEF Close
<1>10. CASE Lose
  BY <1>10, <1>1, <1>8 DEF Lose
<1>11. QED
  BY <1>6, <1>7, <1>9, <1>10

-----------------------------------------------------------------------------
(***************************************************************************)
(* Threads and copies that a step does not touch.                          *)
(***************************************************************************)

\* A complete copy stays complete if it is left alone.
LEMMA DoneGrows ==
    ASSUME torn => torn',
           \A c \in Done : copy'[c] = copy[c] /\ \A t \in Threads : ~Working(t, c)'
    PROVE  Done \subseteq Done'
BY DEF Done, Complete

LEMMA OthersKeep ==
    ASSUME LocalInv, NEW u \in Threads, pc'[u] = pc[u], arg'[u] = arg[u],
           Done \subseteq Done', ckpt \subseteq ckpt', torn => torn',
           pc[u] \in Begun => /\ copy'[arg[u]] = copy[arg[u]]
                              /\ \A t \in Threads \ {u} : ~Working(t, arg[u])'
    PROVE  ThreadInv(u)'
BY DEF LocalInv, ThreadInv, Begun, Replacing, Writing, Working

\* Steps that touch no thread and no copy.
LEMMA QuietKeeps ==
    ASSUME Inv, UNCHANGED <<ckpt, copy, local, torn>>
    PROVE  Done' = Done /\ CopyInv' /\ LocalInv'
<1>1. Done' = Done
  BY DEF Done, Complete, Working, local
<1>2. CopyInv'
  BY <1>1 DEF CopyInv, Inv
<1>3. LocalInv'
  BY <1>1 DEF LocalInv, ThreadInv, Working, local, Inv
<1>4. QED
  BY <1>1, <1>2, <1>3

-----------------------------------------------------------------------------

LEMMA InitInv ==
    ASSUME Init
    PROVE  Inv
<1>1. pc = [t \in Threads |-> "idle"] /\ arg = [t \in Threads |-> Nothing] /\ ckpt = {}
  BY DEF Init
<1>2. \A t \in Threads, c \in Copies : ~Working(t, c)
  BY <1>1 DEF Working, Begun
<1>3. LocalInv
  BY <1>1 DEF LocalInv, ThreadInv, Begun, Replacing, Writing, Labels
<1>4. view = file /\ wal = NoFrames
  BY DEF Init
<1>5. SUFFICES ASSUME NEW k \in Releases, NEW j \in Releases, NEW kind \in {"backup", "bundle"}, NEW c \in Copies,
                      \/ /\ file = OldImage(k, {})
                         /\ copy = [d \in Copies |-> NoCopy]
                      \/ /\ file = OldImage(k, {c})
                         /\ copy = [d \in Copies |-> IF d = c THEN OldCopy(j, kind) ELSE NoCopy]
               PROVE  Inv
  <2>1. PICK n \in Releases :
          \/ file = OldImage(n, {}) /\ copy = [d \in Copies |-> NoCopy]
          \/ \E m \in Releases \intersect (1..n), l \in {"backup", "bundle"}, d \in Copies :
                /\ file = OldImage(n, {d})
                /\ copy = [e \in Copies |-> IF e = d THEN OldCopy(m, l) ELSE NoCopy]
    BY ZenonT(60) DEF Init
  <2>2. CASE file = OldImage(n, {}) /\ copy = [d \in Copies |-> NoCopy]
    <3>1. CASE Copies = {}
      <4>1. PagesOk(file, Done, ckpt) /\ DOMAIN file = Pages
        BY <2>2, OldOk
      <4>2. PagesOk(wal, Done, ckpt)
        BY <1>4, NoFramesOk
      <4>3. CopyInv
        BY <2>2, <3>1 DEF CopyInv
      <4>4. QED
        BY <1>3, <1>4, <4>1, <4>2, <4>3 DEF Inv, StoreInv
    <3>2. CASE Copies # {}
      BY <2>2, <3>2, <1>5
    <3>3. QED
      BY <3>1, <3>2
  <2>3. CASE \E m \in Releases \intersect (1..n), l \in {"backup", "bundle"}, d \in Copies :
                /\ file = OldImage(n, {d})
                /\ copy = [e \in Copies |-> IF e = d THEN OldCopy(m, l) ELSE NoCopy]
    <3>1. PICK m \in Releases \intersect (1..n), l \in {"backup", "bundle"}, d \in Copies :
                /\ file = OldImage(n, {d})
                /\ copy = [e \in Copies |-> IF e = d THEN OldCopy(m, l) ELSE NoCopy]
      BY <2>3
    <3>2. QED
      BY <3>1, <1>5
  <2>4. QED
    BY <2>1, <2>2, <2>3
<1>6. PagesOk(NoFrames, Done, ckpt)
  BY NoFramesOk
<1>7. PagesOk(OldImage(j, {}), Done, ckpt) /\ DOMAIN OldImage(j, {}) = Pages
  BY OldOk
<1>8. OldImage(j, {})["models"] = {}
  BY DEF OldImage, Pages
<1>9. CopyRecord(NoCopy) /\ NoCopy.image = NoFrames
  BY DEF CopyRecord, NoCopy
<1>10. /\ CopyRecord(OldCopy(j, kind)) /\ OldCopy(j, kind).image = OldImage(j, {})
       /\ OldCopy(j, kind).kind = kind
       /\ kind = "bundle" => OldCopy(j, kind).manifest # NoManifest
  BY DEF CopyRecord, OldCopy, NoManifest
<1>11. CASE file = OldImage(k, {}) /\ copy = [d \in Copies |-> NoCopy]
  <2>1. PagesOk(file, Done, ckpt) /\ DOMAIN file = Pages
    BY <1>11, OldOk
  <2>2. CopyInv
    BY <1>11, <1>6, <1>9 DEF CopyInv
  <2>3. QED
    BY <2>1, <2>2, <1>3, <1>4, <1>6 DEF Inv, StoreInv
<1>12. CASE /\ file = OldImage(k, {c})
            /\ copy = [d \in Copies |-> IF d = c THEN OldCopy(j, kind) ELSE NoCopy]
  <2>1. copy[c] = OldCopy(j, kind)
    BY <1>12
  <2>2. Complete(c)
    BY <2>1, <1>7, <1>8, <1>10 DEF Complete
  <2>3. {c} \subseteq Done
    BY <2>2, <1>2 DEF Done
  <2>4. PagesOk(file, Done, ckpt) /\ DOMAIN file = Pages
    BY <1>12, <2>3, OldOk
  <2>5. CopyInv
    BY <1>12, <1>6, <1>7, <1>9, <1>10 DEF CopyInv
  <2>6. QED
    BY <2>4, <2>5, <1>3, <1>4, <1>6 DEF Inv, StoreInv
<1>13. QED
  BY <1>5, <1>11, <1>12

-----------------------------------------------------------------------------
(***************************************************************************)
(* A thread moves.                                                         *)
(***************************************************************************)

\* It works on no copy, before or after.
LEMMA MoveAside ==
    ASSUME Inv, NEW t \in Threads, UNCHANGED copy, ckpt \subseteq ckpt', torn => torn',
           \E from \in Labels \ Begun, to \in Labels \ Begun : \E x :
               /\ Go(t, from, to, x)
               /\ to \in Replacing => x \in Done
               /\ to = "saveRow" => x \in ckpt'
    PROVE  Done \subseteq Done' /\ CopyInv' /\ LocalInv'
<1>1. PICK from \in Labels \ Begun, to \in Labels \ Begun :
        \E x : Go(t, from, to, x) /\ (to \in Replacing => x \in Done) /\ (to = "saveRow" => x \in ckpt')
  OBVIOUS
<1>2. PICK x : Go(t, from, to, x) /\ (to \in Replacing => x \in Done) /\ (to = "saveRow" => x \in ckpt')
  BY <1>1
<1>3. /\ pc[t] = from
      /\ pc' = [pc EXCEPT ![t] = to]
      /\ arg' = [arg EXCEPT ![t] = IF to = "idle" THEN Nothing ELSE x]
  BY <1>2 DEF Go
<1>4. pc \in [Threads -> Labels] /\ arg = [u \in Threads |-> arg[u]]
  BY DEF Inv, LocalInv
<1>5. \A u \in Threads \ {t} : pc'[u] = pc[u] /\ arg'[u] = arg[u]
  BY <1>3, <1>4
<1>6. pc'[t] = to /\ (to # "idle" => arg'[t] = x)
  BY <1>3, <1>4
<1>7. \A u \in Threads, c \in Copies : Working(u, c)' <=> Working(u, c)
  BY <1>1, <1>3, <1>5, <1>6 DEF Working
<1>8. Done \subseteq Done'
  BY <1>7, DoneGrows DEF Done
<1>9. CopyInv'
  BY <1>8, PagesGrow DEF CopyInv, Inv
<1>10. ThreadInv(t)'
  BY <1>1, <1>2, <1>6, <1>8 DEF ThreadInv, Begun, Replacing, Writing
<1>11. ASSUME NEW u \in Threads \ {t}
       PROVE  ThreadInv(u)'
  <2>1. pc[u] \in Begun => arg[u] \in Copies /\ \A s \in Threads \ {u} : ~Working(s, arg[u])
    BY DEF Inv, LocalInv, ThreadInv
  <2>2. pc[u] \in Begun => \A s \in Threads \ {u} : ~Working(s, arg[u])'
    BY <2>1, <1>3, <1>5, <1>6 DEF Working
  <2>3. QED
    BY <2>2, <1>5, <1>8, OthersKeep DEF Inv
<1>12. LocalInv'
  BY <1>3, <1>4, <1>10, <1>11 DEF LocalInv
<1>13. QED
  BY <1>8, <1>9, <1>12

\* It stops working on its copy c, or goes on with it, and changes at most c.
LEMMA MoveOn ==
    ASSUME Inv, NEW t \in Threads, NEW c \in Copies, Working(t, c), ckpt' = ckpt, torn => torn',
           \A d \in Copies \ {c} : copy'[d] = copy[d],
           \E to \in Labels : pc' = [pc EXCEPT ![t] = to],
           \E x \in {c, Nothing} : arg' = [arg EXCEPT ![t] = x]
    PROVE  /\ Done \subseteq Done'
           /\ \A u \in Threads \ {t} : ThreadInv(u)'
           /\ pc' \in [Threads -> Labels] /\ arg' = [u \in Threads |-> arg'[u]]
<1>1. PICK to \in Labels : pc' = [pc EXCEPT ![t] = to]
  OBVIOUS
<1>2. PICK x \in {c, Nothing} : arg' = [arg EXCEPT ![t] = x]
  OBVIOUS
<1>3. pc \in [Threads -> Labels] /\ arg = [u \in Threads |-> arg[u]]
  BY DEF Inv, LocalInv
<1>4. \A u \in Threads \ {t} : pc'[u] = pc[u] /\ arg'[u] = arg[u]
  BY <1>1, <1>2, <1>3
<1>5. arg'[t] \in {c, Nothing} /\ Nothing \notin Copies
  BY <1>2, <1>3, StoreAssumption
<1>6. \A d \in Copies \ {c}, u \in Threads : ~Working(u, d) => ~Working(u, d)'
  BY <1>4, <1>5 DEF Working
<1>7. c \notin Done
  BY DEF Done
<1>8. Done \subseteq Copies
  BY DEF Done
<1>9. Done \subseteq Done'
  BY <1>6, <1>7, <1>8, DoneGrows DEF Done
<1>10. ASSUME NEW u \in Threads \ {t}
       PROVE  ThreadInv(u)'
  <2>1. pc[u] \in Begun => arg[u] \in Copies /\ \A s \in Threads \ {u} : ~Working(s, arg[u])
    BY DEF Inv, LocalInv, ThreadInv
  <2>2. pc[u] \in Begun => arg[u] # c
    BY <2>1 DEF Working
  <2>3. pc[u] \in Begun => \A s \in Threads \ {u} : ~Working(s, arg[u])'
    BY <2>1, <2>2, <1>6
  <2>4. QED
    BY <2>1, <2>2, <2>3, <1>4, <1>9, OthersKeep DEF Inv
<1>11. QED
  BY <1>1, <1>2, <1>3, <1>9, <1>10

-----------------------------------------------------------------------------
(***************************************************************************)
(* The actions, in groups.                                                 *)
(***************************************************************************)

\* Steps that touch neither threads, copies nor checkpoint files.
LEMMA QuietSteps ==
    ASSUME Inv, MigInv, StartServer \/ MigrationStep \/ SqliteStep \/ Stop
    PROVE  Inv'
<1>1. UNCHANGED <<ckpt, copy, local, torn>>
  BY DEF StartServer, MigrationStep, SqliteStep, Stop
<1>2. Done' = Done /\ CopyInv' /\ LocalInv'
  BY <1>1, QuietKeeps
<1>3. ckpt' = ckpt /\ StoreInv
  BY <1>1 DEF Inv
<1>4. CASE UNCHANGED db
  BY <1>2, <1>3, <1>4, SameStore DEF Inv
<1>5. CASE \E v : Write("schema", v) /\ SchemaOk(v)
  BY <1>2, <1>3, <1>5, WrittenStore DEF Inv, Pages
<1>6. CASE Checkpoint \/ (\E p \in Pages : Evict(p)) \/ Close \/ Lose
  BY <1>2, <1>3, <1>6, SqliteKeeps DEF Inv
<1>7. \/ UNCHANGED db \/ (\E v : Write("schema", v) /\ SchemaOk(v))
      \/ Checkpoint \/ (\E p \in Pages : Evict(p)) \/ Close \/ Lose
  <2>1. CASE StartServer
    BY <2>1 DEF StartServer, Start, StartRaises
  <2>2. CASE MigrationStep
    <3>1. CASE CommitFirst \/ RunStatement \/ RecordVersion
      BY <3>1, <1>3, MigrationWrites
    <3>2. CASE MigrationRaises \/ Ready
      BY <3>2 DEF MigrationRaises, Ready
    <3>3. QED
      BY <2>2, <3>1, <3>2 DEF MigrationStep, Migrate
  <2>3. CASE SqliteStep
    BY <2>3 DEF SqliteStep
  <2>4. CASE Stop
    BY <2>4 DEF Stop
  <2>5. QED
    BY <2>1, <2>2, <2>3, <2>4
<1>8. QED
  BY <1>4, <1>5, <1>6, <1>7

\* Steps of a thread that has no copy in work, and changes at most the tables.
LEMMA TableSteps ==
    ASSUME Inv, NEW t \in Threads,
           \/ Log(t) \/ OtherRequest(t) \/ SaveRow(t) \/ (\E m \in Models : SaveFile(t, m))
           \/ (\E c \in Copies : Restore(t, c) \/ Verify(t, c))
           \/ LogVerify(t) \/ ReadAgain(t) \/ Mark(t)
    PROVE  Inv'
<1>1. /\ \A u \in Threads : ThreadInv(u)
      /\ view["copies"] \subseteq Done
      /\ view["models"] \subseteq ckpt
      /\ view["audit"] \in {"ok", "broken"}
  BY DEF Inv, LocalInv, StoreInv, PagesOk, Pages
<1>2. UNCHANGED copy /\ ckpt \subseteq ckpt' /\ torn' = torn
  BY DEF Log, OtherRequest, SaveRow, SaveFile, Restore, Verify, LogVerify, ReadAgain, Mark
<1>3. SUFFICES ASSUME Done \subseteq Done' => StoreInv',
                      \E from \in Labels \ Begun, to \in Labels \ Begun : \E x :
                          /\ Go(t, from, to, x)
                          /\ to \in Replacing => x \in Done
                          /\ to = "saveRow" => x \in ckpt'
               PROVE  Inv'
  <2>1. CASE Log(t) \/ OtherRequest(t)
    <3>1. Go(t, "log", "idle", arg[t]) \/ Go(t, "idle", "idle", arg[t])
      BY <2>1 DEF Log, OtherRequest, On
    <3>2. \E v \in {"ok", "broken"} : Write("audit", v)
      BY <2>1, <1>1 DEF Log, OtherRequest, LogEntry
    <3>3. Done \subseteq Done' => StoreInv'
      BY <3>2, <1>2, WrittenStore DEF Inv, Pages
    <3>4. QED
      BY <3>1, <3>3, <1>3 DEF Labels, Begun, Replacing, Writing
  <2>2. CASE SaveRow(t)
    <3>1. Go(t, "saveRow", "idle", arg[t]) /\ pc[t] = "saveRow" /\ ckpt' = ckpt
      BY <2>2 DEF SaveRow, On, Go
    <3>2. view["models"] \union {arg[t]} \subseteq ckpt'
      BY <3>1, <1>1 DEF ThreadInv
    <3>3. Write("models", view["models"] \union {arg[t]})
      BY <2>2 DEF SaveRow
    <3>4. Done \subseteq Done' => StoreInv'
      BY <3>2, <3>3, <1>2, WrittenStore DEF Inv, Pages
    <3>5. QED
      BY <3>1, <3>4, <1>3 DEF Labels, Begun, Replacing, Writing
  <2>3. CASE \E m \in Models : SaveFile(t, m)
    <3>1. PICK m \in Models : SaveFile(t, m)
      BY <2>3
    <3>2. Go(t, "idle", "saveRow", m) /\ m \in ckpt' /\ UNCHANGED db
      BY <3>1 DEF SaveFile, Begin
    <3>3. Done \subseteq Done' => StoreInv'
      BY <3>2, <1>2, SameStore DEF Inv
    <3>4. QED
      BY <3>2, <3>3, <1>3 DEF Labels, Begun, Replacing, Writing
  <2>4. CASE \E c \in Copies : Restore(t, c) \/ Verify(t, c)
    <3>1. PICK c \in Copies : Restore(t, c) \/ Verify(t, c)
      BY <2>4
    <3>2. /\ Go(t, "idle", "replaceDb", c) \/ Go(t, "idle", "logVerify", c)
          /\ c \in view["copies"] /\ UNCHANGED db
      BY <3>1 DEF Restore, Verify, Begin
    <3>3. Done \subseteq Done' => StoreInv'
      BY <3>2, <1>2, SameStore DEF Inv
    <3>4. QED
      BY <3>2, <3>3, <1>1, <1>3 DEF Labels, Begun, Replacing, Writing
  <2>5. CASE LogVerify(t)
    <3>1. pc[t] = "logVerify" /\ (Go(t, "logVerify", "idle", arg[t]) \/ Go(t, "logVerify", "again", arg[t]))
      BY <2>5 DEF LogVerify, On, Go
    <3>2. arg[t] \in Done
      BY <3>1, <1>1 DEF ThreadInv, Replacing, Writing
    <3>3. \E v \in {"ok", "broken"} : Write("audit", v)
      BY <2>5, <1>1 DEF LogVerify, LogEntry
    <3>4. Done \subseteq Done' => StoreInv'
      BY <3>3, <1>2, WrittenStore DEF Inv, Pages
    <3>5. QED
      BY <3>1, <3>2, <3>4, <1>3 DEF Labels, Begun, Replacing, Writing
  <2>6. CASE ReadAgain(t)
    <3>1. pc[t] = "again" /\ (Go(t, "again", "idle", arg[t]) \/ Go(t, "again", "replaceDb", arg[t]))
      BY <2>6 DEF ReadAgain, On, Go
    <3>2. arg[t] \in Done
      BY <3>1, <1>1 DEF ThreadInv, Replacing, Writing
    <3>3. UNCHANGED db
      BY <2>6 DEF ReadAgain
    <3>4. Done \subseteq Done' => StoreInv'
      BY <3>3, <1>2, SameStore DEF Inv
    <3>5. QED
      BY <3>1, <3>2, <3>4, <1>3 DEF Labels, Begun, Replacing, Writing
  <2>7. CASE Mark(t)
    <3>1. Go(t, "mark", "log", arg[t])
      BY <2>7 DEF Mark, On
    <3>2. Write("copies", view["copies"]) \/ UNCHANGED db
      BY <2>7 DEF Mark
    <3>3. Done \subseteq Done' => StoreInv'
      BY <3>2, <1>1, <1>2, WrittenStore, SameStore DEF Inv, Pages
    <3>4. QED
      BY <3>1, <3>3, <1>3 DEF Labels, Begun, Replacing, Writing
  <2>8. QED
    BY <2>1, <2>2, <2>3, <2>4, <2>5, <2>6, <2>7
<1>4. Done \subseteq Done' /\ CopyInv' /\ LocalInv'
  BY <1>2, <1>3, MoveAside
<1>5. QED
  BY <1>3, <1>4 DEF Inv

\* Steps of a restore or an import that write files.
LEMMA ReplaceSteps ==
    ASSUME Inv, NEW t \in Threads,
           ReplaceDb(t) \/ ReplaceFront(t) \/ ReplaceRest(t) \/ ReplaceFiles(t)
    PROVE  Inv'
<1>1. ThreadInv(t) /\ StoreInv /\ CopyInv
  BY DEF Inv, LocalInv
<1>2. arg[t] \in Done
  BY <1>1 DEF ReplaceDb, ReplaceFront, ReplaceRest, ReplaceFiles, On, Go, ThreadInv, Replacing,
              Writing
<1>3. PagesOk(copy[arg[t]].image, Done, ckpt) /\ PagesOk(file, Done, ckpt)
  BY <1>1, <1>2 DEF CopyInv, StoreInv, Done
<1>4. UNCHANGED copy /\ ckpt \subseteq ckpt' /\ wal' = wal /\ view' = view /\ torn' = torn
  BY DEF ReplaceDb, ReplaceFront, ReplaceRest, ReplaceFiles, db
<1>5. Done \subseteq Done' /\ CopyInv' /\ LocalInv'
  <2>1. \E from \in Labels \ Begun, to \in Labels \ Begun : \E x :
            /\ Go(t, from, to, x)
            /\ to \in Replacing => x \in Done
            /\ to = "saveRow" => x \in ckpt'
    <3>1. \E from \in Labels \ Begun, to \in (Labels \ Begun) \ {"saveRow"} : Go(t, from, to, arg[t])
      BY DEF ReplaceDb, ReplaceFront, ReplaceRest, ReplaceFiles, On, Labels, Begun, Replacing,
             Writing
    <3>2. QED
      BY <3>1, <1>2
  <2>2. QED
    BY <2>1, <1>4, MoveAside
<1>6. PagesOk(file', Done, ckpt)
  <2>1. \A S : PagesOk(Overlay(Part(copy[arg[t]].image, S), file), Done, ckpt)
    BY <1>3, PartOk, OverlayOk
  <2>2. QED
    BY <2>1, <1>3, NoFramesOk DEF ReplaceDb, ReplaceFront, ReplaceRest, ReplaceFiles, db
<1>7. StoreInv'
  BY <1>1, <1>4, <1>5, <1>6, PagesGrow DEF StoreInv
<1>8. QED
  BY <1>5, <1>7 DEF Inv

\* A call begins its copy: no other has it.
LEMMA NewCopySteps ==
    ASSUME Inv, NEW t \in Threads, NEW c \in Copies, NEW kind \in {"backup", "bundle"},
           NewCopy(t, c, kind)
    PROVE  Inv'
<1>1. /\ pc[t] = "idle" /\ copy[c] = NoCopy
      /\ pc' = [pc EXCEPT ![t] = "copyDb"]
      /\ arg' = [arg EXCEPT ![t] = c]
      /\ copy' = [copy EXCEPT ![c].kind = kind]
      /\ UNCHANGED <<db, ckpt, torn>>
  BY DEF NewCopy, Begin, Go, After
<1>2. /\ pc \in [Threads -> Labels] /\ arg = [u \in Threads |-> arg[u]]
      /\ \A u \in Threads : ThreadInv(u)
      /\ copy = [d \in Copies |-> copy[d]]
  BY DEF Inv, LocalInv, CopyInv
<1>3. /\ pc'[t] = "copyDb" /\ arg'[t] = c
      /\ \A u \in Threads \ {t} : pc'[u] = pc[u] /\ arg'[u] = arg[u]
      /\ \A d \in Copies \ {c} : copy'[d] = copy[d]
      /\ copy'[c] = [NoCopy EXCEPT !.kind = kind]
  BY <1>1, <1>2
<1>4. c \notin Done /\ \A u \in Threads : ~Working(u, c)
  BY <1>1, <1>2 DEF Done, Complete, NoCopy, ThreadInv, Working
<1>5. \A d \in Copies \ {c}, u \in Threads : ~Working(u, d) => ~Working(u, d)'
  BY <1>3 DEF Working
<1>6. Done \subseteq Done'
  BY <1>1, <1>3, <1>4, <1>5, DoneGrows DEF Done
<1>7. StoreInv'
  BY <1>1, <1>6, SameStore DEF Inv
<1>8. copy'[c].kind = kind /\ copy'[c].image = NoFrames /\ CopyRecord(copy'[c])
  BY <1>3 DEF NoCopy, CopyRecord
<1>9. CopyInv'
  <2>1. copy' = [d \in Copies |-> copy'[d]]
    BY <1>1, <1>2
  <2>2. \A d \in Copies \ {c} : CopyRecord(copy'[d]) /\ PagesOk(copy'[d].image, Done', ckpt')
    BY <1>1, <1>3, <1>6, PagesGrow DEF Inv, CopyInv
  <2>3. PagesOk(copy'[c].image, Done', ckpt')
    BY <1>8, NoFramesOk
  <2>4. QED
    BY <2>1, <2>2, <2>3, <1>8 DEF CopyInv
<1>10. ThreadInv(t)'
  <2>1. \A u \in Threads \ {t} : ~Working(u, c)'
    BY <1>3, <1>4 DEF Working
  <2>2. QED
    BY <2>1, <1>3, <1>8 DEF ThreadInv, Begun, Replacing, Writing
<1>11. ASSUME NEW u \in Threads \ {t}
       PROVE  ThreadInv(u)'
  <2>1. pc[u] \in Begun => /\ arg[u] \in Copies
                           /\ \A s \in Threads \ {u} : ~Working(s, arg[u])
    BY <1>2 DEF ThreadInv
  <2>2. pc[u] \in Begun => arg[u] # c
    BY <1>4 DEF Working
  <2>3. pc[u] \in Begun => \A s \in Threads \ {u} : ~Working(s, arg[u])'
    BY <2>1, <2>2, <1>3 DEF Working
  <2>4. QED
    BY <2>1, <2>2, <2>3, <1>1, <1>3, <1>6, OthersKeep DEF Inv
<1>12. LocalInv'
  BY <1>1, <1>2, <1>10, <1>11 DEF LocalInv, Labels, Begun
<1>13. QED
  BY <1>7, <1>9, <1>12 DEF Inv

\* What the steps of a copy have in common.
LEMMA CopyStepMoves ==
    ASSUME Inv, NEW t \in Threads, NEW label \in Begun, CopyStep(t, label), torn => torn',
           \A d \in Copies \ {arg[t]} : copy'[d] = copy[d]
    PROVE  /\ arg[t] \in Copies /\ pc[t] = label /\ copy[arg[t]].kind # "none"
           /\ pc' = [pc EXCEPT ![t] = After(copy[arg[t]].kind)[label]]
           /\ After(copy[arg[t]].kind)[label] \in Labels \ {"idle", "saveRow"}
           /\ arg' = arg /\ ckpt' = ckpt
           /\ pc'[t] = After(copy[arg[t]].kind)[label]
           /\ \A u \in Threads \ {t} : ~Working(u, arg[t])'
           /\ Done \subseteq Done'
           /\ \A u \in Threads \ {t} : ThreadInv(u)'
           /\ pc' \in [Threads -> Labels] /\ arg' = [u \in Threads |-> arg'[u]]
<1>1. /\ pc \in [Threads -> Labels] /\ arg = [u \in Threads |-> arg[u]] /\ ThreadInv(t)
      /\ copy = [d \in Copies |-> copy[d]]
  BY DEF Inv, LocalInv, CopyInv
<1>2. /\ pc[t] = label /\ ckpt' = ckpt
      /\ Go(t, label, After(copy[arg[t]].kind)[label], arg[t])
  BY DEF CopyStep, On
<1>3. After(copy[arg[t]].kind)[label] \in Labels \ {"idle", "saveRow"}
  BY DEF After, Begun, Labels
<1>4. /\ arg[t] \in Copies /\ copy[arg[t]].kind # "none"
      /\ \A u \in Threads \ {t} : ~Working(u, arg[t])
      /\ Working(t, arg[t])
  BY <1>1, <1>2 DEF ThreadInv, Working
<1>5. /\ pc' = [pc EXCEPT ![t] = After(copy[arg[t]].kind)[label]]
      /\ arg' = [arg EXCEPT ![t] = arg[t]]
  BY <1>2, <1>3 DEF Go
<1>6. arg' = arg /\ pc'[t] = After(copy[arg[t]].kind)[label]
  BY <1>1, <1>5
<1>7. \A u \in Threads \ {t} : ~Working(u, arg[t])'
  BY <1>1, <1>4, <1>5, <1>6 DEF Working
<1>8. /\ Done \subseteq Done'
      /\ \A u \in Threads \ {t} : ThreadInv(u)'
      /\ pc' \in [Threads -> Labels] /\ arg' = [u \in Threads |-> arg'[u]]
  <2>1. PICK c \in Copies : c = arg[t]
    BY <1>4
  <2>2. \E to \in Labels : pc' = [pc EXCEPT ![t] = to]
    BY <1>3, <1>5
  <2>3. \E x \in {c, Nothing} : arg' = [arg EXCEPT ![t] = x]
    BY <2>1, <1>5
  <2>4. Working(t, c) /\ \A d \in Copies \ {c} : copy'[d] = copy[d]
    BY <2>1, <1>4
  <2>5. QED
    BY <2>2, <2>3, <2>4, <1>2, MoveOn
<1>9. QED
  BY <1>2, <1>3, <1>4, <1>5, <1>6, <1>7, <1>8

\* The four steps that change the directory.
LEMMA CopySteps ==
    ASSUME Inv, FileInv, NEW t \in Threads,
           CopyDb(t) \/ CopyRest(t) \/ CopyFiles(t) \/ BuildManifest(t)
    PROVE  Inv'
<1>1. /\ ThreadInv(t) /\ copy = [d \in Copies |-> copy[d]]
      /\ \A d \in Copies : CopyRecord(copy[d]) /\ PagesOk(copy[d].image, Done, ckpt)
      /\ PagesOk(file, Done, ckpt)
  BY DEF Inv, LocalInv, CopyInv, StoreInv
<1>2. /\ pc[t] \in Begun /\ arg[t] \in Copies
      /\ copy[arg[t]].kind # "none"
  <2>1. pc[t] \in Begun
    BY DEF CopyDb, CopyRest, CopyFiles, BuildManifest, CopyStep, Begun
  <2>2. QED
    BY <2>1, <1>1 DEF ThreadInv
<1>3. \A d \in Copies \ {arg[t]} : copy'[d] = copy[d]
  BY <1>1 DEF CopyDb, CopyRest, CopyFiles, BuildManifest
<1>4. UNCHANGED db /\ CopyStep(t, pc[t]) /\ (torn => torn')
  <2>1. CASE CopyDb(t) \/ CopyRest(t)
    BY <2>1 DEF CopyDb, CopyRest, CopyStep
  <2>2. CASE CopyFiles(t) \/ BuildManifest(t)
    BY <2>2 DEF CopyFiles, BuildManifest, CopyStep
  <2>3. QED
    BY <2>1, <2>2
<1>5. /\ After(copy[arg[t]].kind)[pc[t]] \in Labels \ {"idle", "saveRow"}
      /\ arg' = arg /\ ckpt' = ckpt
      /\ pc'[t] = After(copy[arg[t]].kind)[pc[t]]
      /\ \A u \in Threads \ {t} : ~Working(u, arg[t])'
      /\ Done \subseteq Done'
      /\ \A u \in Threads \ {t} : ThreadInv(u)'
      /\ pc' \in [Threads -> Labels] /\ arg' = [u \in Threads |-> arg'[u]]
  BY <1>2, <1>3, <1>4, CopyStepMoves
<1>6. PICK c \in Copies : c = arg[t]
  BY <1>2
<1>7. /\ copy' = [d \in Copies |-> copy'[d]] /\ copy'[c].kind = copy[c].kind
      /\ CopyRecord(copy'[c])
  BY <1>1, <1>6 DEF CopyDb, CopyRest, CopyFiles, BuildManifest, CopyRecord
<1>8. /\ PagesOk(copy'[c].image, Done, ckpt)
      /\ pc[t] = "copyDb" => torn' \/ Front \subseteq DOMAIN copy'[c].image
      /\ pc[t] # "copyDb" => torn' \/ DOMAIN copy'[c].image = Pages
      /\ pc[t] \in {"copyFiles", "manifest"} /\ "models" \in DOMAIN copy'[c].image =>
            copy'[c].image["models"] \subseteq copy'[c].files
      /\ pc[t] = "manifest" => copy'[c].manifest # NoManifest
  <2> DEFINE Filled == torn \/ (\E u \in Threads : pc[u] \in Writing) \/ DOMAIN file = Pages
  <2>0. Filled /\ Front \subseteq Pages /\ DOMAIN file \subseteq Pages
    BY <1>1, StoreAssumption DEF FileInv, Writing, PagesOk
  <2>1. CASE CopyDb(t)
    <3>1. /\ pc[t] = "copyDb" /\ copy'[c].image = Part(file, Front)
          /\ torn' = (torn \/ \E u \in Threads : pc[u] \in Writing)
      BY <2>1, <1>1, <1>6 DEF CopyDb, CopyStep, CopyRecord
    <3>2. /\ PagesOk(Part(file, Front), Done, ckpt)
          /\ DOMAIN Part(file, Front) = DOMAIN file \intersect Front
      BY <1>1, PartOk
    <3>3. QED
      BY <2>0, <3>1, <3>2
  <2>2. CASE CopyRest(t)
    <3>1. /\ pc[t] = "copyRest"
          /\ copy'[c].image = Overlay(copy[c].image, Part(file, Pages \ Front))
          /\ torn' = (torn \/ \E u \in Threads : pc[u] \in Writing)
      BY <2>2, <1>1, <1>6 DEF CopyRest, CopyStep, CopyRecord
    <3>2. /\ PagesOk(Part(file, Pages \ Front), Done, ckpt)
          /\ DOMAIN Part(file, Pages \ Front) = DOMAIN file \intersect (Pages \ Front)
      BY <1>1, PartOk
    <3>3. PagesOk(copy[c].image, Done, ckpt) /\ DOMAIN copy[c].image \subseteq Pages
      BY <1>1 DEF PagesOk
    <3>4. /\ PagesOk(copy'[c].image, Done, ckpt)
          /\ DOMAIN copy'[c].image = DOMAIN copy[c].image \union (DOMAIN file \intersect (Pages \ Front))
      <4> DEFINE rest == Part(file, Pages \ Front)
      <4>1. /\ PagesOk(Overlay(copy[c].image, rest), Done, ckpt)
            /\ DOMAIN Overlay(copy[c].image, rest) = DOMAIN copy[c].image \union DOMAIN rest
        <5> HIDE DEF rest
        <5>1. PagesOk(rest, Done, ckpt)
          BY <3>2 DEF rest
        <5>2. QED
          BY <3>3, <5>1, OverlayOk
      <4>2. QED
        BY <4>1, <3>1, <3>2
    <3>5. torn \/ Front \subseteq DOMAIN copy[c].image
      BY <3>1, <1>1, <1>6 DEF ThreadInv
    <3>6. QED
      BY <2>0, <3>1, <3>3, <3>4, <3>5
  <2>3. CASE CopyFiles(t)
    <3>1. /\ pc[t] = "copyFiles" /\ copy'[c].image = copy[c].image
          /\ copy'[c].files = ckpt /\ torn' = torn
      BY <2>3, <1>1, <1>6 DEF CopyFiles, CopyStep, CopyRecord
    <3>2. torn \/ DOMAIN copy[c].image = Pages
      BY <3>1, <1>1, <1>6 DEF ThreadInv
    <3>3. "models" \in DOMAIN copy[c].image => copy[c].image["models"] \subseteq ckpt
      BY <1>1 DEF PagesOk
    <3>4. QED
      BY <3>1, <3>2, <3>3, <1>1
  <2>4. CASE BuildManifest(t)
    <3>1. /\ pc[t] = "manifest" /\ copy'[c].image = copy[c].image
          /\ copy'[c].files = copy[c].files /\ torn' = torn
          /\ copy'[c].manifest = [chain |-> view["audit"],
                                  current |-> CURRENT_SCHEMA_VERSION \in schema.versions]
      BY <2>4, <1>1, <1>6 DEF BuildManifest, CopyStep, CopyRecord
    <3>2. /\ torn \/ DOMAIN copy[c].image = Pages
          /\ "models" \in DOMAIN copy[c].image => copy[c].image["models"] \subseteq copy[c].files
      BY <3>1, <1>1, <1>6 DEF ThreadInv
    <3>3. view["audit"] # "none"
      BY DEF Inv, StoreInv, PagesOk, Pages
    <3>4. QED
      BY <3>1, <3>2, <3>3, <1>1 DEF NoManifest
  <2>5. QED
    BY <2>1, <2>2, <2>3, <2>4
<1>9. CopyInv'
  BY <1>1, <1>3, <1>5, <1>6, <1>7, <1>8, PagesGrow DEF CopyInv
<1>10. ThreadInv(t)'
  <2>1. pc[t] \in {"copyDb", "copyRest", "copyFiles", "manifest"}
    BY DEF CopyDb, CopyRest, CopyFiles, BuildManifest, CopyStep
  <2>2. pc'[t] = CASE pc[t] = "copyDb" -> "copyRest"
                   [] pc[t] = "copyRest" -> "copyFiles"
                   [] pc[t] = "copyFiles" -> IF copy[c].kind = "bundle" THEN "manifest" ELSE "insert"
                   [] pc[t] = "manifest" -> "insert"
    BY <2>1, <1>5, <1>6 DEF After
  <2>3. QED
    BY <2>1, <2>2, <1>2, <1>5, <1>6, <1>7, <1>8 DEF ThreadInv, Begun, Replacing, Writing
<1>11. StoreInv' /\ LocalInv'
  BY <1>4, <1>5, <1>10, SameStore DEF Inv, LocalInv
<1>12. QED
  BY <1>9, <1>11 DEF Inv

\* The row: now the copy counts as done.
LEMMA InsertSteps ==
    ASSUME Inv, NEW t \in Threads, InsertRow(t)
    PROVE  Inv'
<1>1. /\ ThreadInv(t) /\ CopyInv /\ StoreInv
      /\ CopyStep(t, "insert") /\ copy' = copy /\ torn' = torn
      /\ Write("copies", view["copies"] \union {arg[t]})
  BY DEF Inv, LocalInv, InsertRow
<1>2. /\ arg[t] \in Copies /\ pc[t] = "insert" /\ copy[arg[t]].kind # "none"
      /\ arg' = arg /\ ckpt' = ckpt
      /\ pc'[t] = After(copy[arg[t]].kind)["insert"]
      /\ \A u \in Threads \ {t} : ~Working(u, arg[t])'
      /\ Done \subseteq Done'
      /\ \A u \in Threads \ {t} : ThreadInv(u)'
      /\ pc' \in [Threads -> Labels] /\ arg' = [u \in Threads |-> arg'[u]]
  BY <1>1, CopyStepMoves DEF Begun
<1>3. pc'[t] = "log"
  BY <1>2 DEF After
<1>4. Complete(arg[t])
  BY <1>1, <1>2 DEF Complete, ThreadInv
<1>5. arg[t] \in Done'
  <2>1. PICK c \in Copies : c = arg[t]
    BY <1>2
  <2>2. Complete(c)'
    BY <2>1, <1>1, <1>4 DEF Complete
  <2>3. \A u \in Threads : ~Working(u, c)'
    BY <2>1, <1>2, <1>3 DEF Working, Begun
  <2>4. QED
    BY <2>1, <2>2, <2>3 DEF Done
<1>6. view["copies"] \union {arg[t]} \subseteq Done'
  BY <1>1, <1>2, <1>5 DEF StoreInv, PagesOk, Pages
<1>7. StoreInv'
  BY <1>1, <1>2, <1>6, WrittenStore DEF Pages
<1>8. CopyInv'
  BY <1>1, <1>2, PagesGrow DEF CopyInv
<1>9. ThreadInv(t)'
  BY <1>3 DEF ThreadInv, Begun, Replacing, Writing
<1>10. QED
  BY <1>2, <1>7, <1>8, <1>9 DEF Inv, LocalInv

\* A call raises: the copy that it had in work counts as not made.
LEMMA RaiseSteps ==
    ASSUME Inv, NEW t \in Threads, Raise(t)
    PROVE  Inv'
<1>1. /\ Go(t, pc[t], "idle", arg[t]) /\ Abandon({t}) /\ UNCHANGED <<db, ckpt>>
      /\ torn => torn'
      /\ ThreadInv(t) /\ CopyInv /\ StoreInv
      /\ pc \in [Threads -> Labels] /\ arg = [u \in Threads |-> arg[u]]
  BY DEF Raise, On, Inv, LocalInv
<1>2. copy' = [d \in Copies |-> IF arg[t] = d /\ pc[t] \in Begun THEN NoCopy ELSE copy[d]]
  BY <1>1 DEF Abandon
<1>3. CASE pc[t] \notin Begun
  <2>1. copy' = copy
    BY <1>1, <1>2, <1>3 DEF CopyInv
  <2>2. pc[t] \in Labels \ Begun
    BY <1>1, <1>3
  <2>3. \E from \in Labels \ Begun, to \in Labels \ Begun : \E x :
            /\ Go(t, from, to, x)
            /\ to \in Replacing => x \in Done
            /\ to = "saveRow" => x \in ckpt'
    BY <2>2, <1>1 DEF Labels, Begun, Replacing, Writing
  <2>4. Done \subseteq Done' /\ CopyInv' /\ LocalInv'
    BY <2>1, <2>3, <1>1, MoveAside
  <2>5. QED
    BY <2>4, <1>1, SameStore DEF Inv
<1>4. CASE pc[t] \in Begun
  <2>1. PICK c \in Copies : c = arg[t]
    BY <1>1, <1>4 DEF ThreadInv
  <2>2. copy' = [d \in Copies |-> IF d = c THEN NoCopy ELSE copy[d]]
    BY <2>1, <1>2, <1>4
  <2>3. /\ pc' = [pc EXCEPT ![t] = "idle"]
        /\ arg' = [arg EXCEPT ![t] = Nothing]
    BY <1>1 DEF Go
  <2>4. \A d \in Copies \ {c} : copy'[d] = copy[d]
    BY <2>2
  <2>5. Working(t, c)
    BY <2>1, <1>4 DEF Working
  <2>6. /\ Done \subseteq Done'
        /\ \A u \in Threads \ {t} : ThreadInv(u)'
        /\ pc' \in [Threads -> Labels] /\ arg' = [u \in Threads |-> arg'[u]]
    BY <2>3, <2>4, <2>5, <1>1, MoveOn DEF Labels
  <2>7. ThreadInv(t)'
    BY <2>3, <1>1 DEF ThreadInv, Begun, Replacing, Writing
  <2>8. CopyRecord(NoCopy) /\ PagesOk(NoCopy.image, Done', ckpt')
    BY NoFramesOk DEF NoCopy, CopyRecord
  <2>9. CopyInv'
    BY <2>2, <2>6, <2>8, <1>1, PagesGrow DEF CopyInv
  <2>10. QED
    BY <2>6, <2>7, <2>9, <1>1, SameStore DEF Inv, LocalInv
<1>5. QED
  BY <1>3, <1>4

\* The process ends: every copy in work counts as not made.
LEMMA CrashSteps ==
    ASSUME Inv, Crash
    PROVE  Inv'
<1>1. /\ Lose /\ ckpt' = ckpt /\ (torn => torn')
      /\ pc' = [t \in Threads |-> "idle"] /\ arg' = [t \in Threads |-> Nothing]
      /\ copy' = [c \in Copies |-> IF \E t \in Threads : Working(t, c) THEN NoCopy ELSE copy[c]]
  BY DEF Crash, Abandon, Working
<1>2. \A c \in Copies, t \in Threads : ~Working(t, c)'
  BY <1>1 DEF Working, Begun
<1>3. Done \subseteq Done'
  BY <1>1, <1>2, DoneGrows DEF Done
<1>4. StoreInv'
  BY <1>1, <1>3, SqliteKeeps DEF Inv
<1>5. CopyRecord(NoCopy) /\ PagesOk(NoCopy.image, Done', ckpt')
  BY NoFramesOk DEF NoCopy, CopyRecord
<1>6. CopyInv'
  BY <1>1, <1>3, <1>5, PagesGrow DEF Inv, CopyInv
<1>7. LocalInv'
  BY <1>1 DEF LocalInv, ThreadInv, Labels, Begun, Replacing, Writing
<1>8. QED
  BY <1>4, <1>6, <1>7 DEF Inv

-----------------------------------------------------------------------------

\* Only migrate() itself moves the schema while it runs: no request is let in
\* before it is over.
LEMMA StepMigInv ==
    ASSUME Inv, MigInv, Next
    PROVE  MigInv'
<1>1. StoreInv
  BY DEF Inv
<1>2. CASE StartServer
  <2>1. CASE Start
    BY <2>1, <1>1, StartKeeps
  <2>2. CASE StartRaises
    BY <2>2 DEF StartRaises, mig, MigInv
  <2>3. QED
    BY <1>2, <2>1, <2>2 DEF StartServer
<1>3. CASE MigrationStep
  <2>1. CASE CommitFirst \/ RunStatement \/ RecordVersion
    BY <2>1, <1>1, MigrationWrites
  <2>2. CASE MigrationRaises \/ Ready
    BY <2>2 DEF MigrationRaises, Ready, Leave, MigInv
  <2>3. QED
    BY <1>3, <2>1, <2>2 DEF MigrationStep, Migrate
<1>4. CASE Stop \/ Crash
  BY <1>4 DEF Stop, Crash, Leave, MigInv
<1>5. CASE phase = "up" /\ UNCHANGED mig
  BY <1>5 DEF mig, MigInv
<1>6. CASE SqliteStep
  BY <1>5, <1>6 DEF SqliteStep
<1>7. ASSUME NEW t \in Threads, \E from, to : \E x : Go(t, from, to, x)
      PROVE  MigInv'
  BY <1>5, <1>7 DEF Go
<1>8. ASSUME NEW t \in Threads,
             \/ Log(t) \/ OtherRequest(t) \/ SaveRow(t)
             \/ \E m \in Models : SaveFile(t, m)
             \/ \E c \in Copies, kind \in {"backup", "bundle"} : NewCopy(t, c, kind)
             \/ CopyDb(t) \/ CopyRest(t) \/ CopyFiles(t) \/ BuildManifest(t) \/ InsertRow(t)
             \/ \E c \in Copies : Restore(t, c) \/ Verify(t, c)
             \/ LogVerify(t) \/ ReadAgain(t) \/ ReplaceDb(t) \/ ReplaceFront(t)
             \/ ReplaceRest(t) \/ ReplaceFiles(t) \/ Mark(t) \/ Raise(t)
      PROVE  MigInv'
  <2>1. \E from, to : \E x : Go(t, from, to, x)
    BY <1>8 DEF Log, OtherRequest, SaveRow, SaveFile, NewCopy, CopyDb, CopyRest, CopyFiles,
                BuildManifest, InsertRow, Restore, Verify, LogVerify, ReadAgain, ReplaceDb,
                ReplaceFront, ReplaceRest, ReplaceFiles, Mark, Raise, CopyStep, On, Begin
  <2>2. QED
    BY <2>1, <1>7
<1>9. QED
  BY <1>2, <1>3, <1>4, <1>6, <1>8 DEF Next

\* Steps that take no page from the file and leave the threads alone that write it.
LEMMA FileStays ==
    ASSUME FileInv, torn' <=> torn, replaced' = replaced, DOMAIN file \subseteq DOMAIN file',
           \A u \in Threads : pc[u] \in Writing \/ pc'[u] \in Writing => pc'[u] = pc[u],
           phase' # "up" => \A u \in Threads : pc'[u] = "idle"
    PROVE  FileInv'
<1>1. ASSUME ~torn', NEW p \in Pages \ DOMAIN file'
      PROVE  \E t \in Threads : pc'[t] = "replaceFront" \/ (pc'[t] = "replaceRest" /\ p \notin Front)
  <2>1. PICK t \in Threads : pc[t] = "replaceFront" \/ (pc[t] = "replaceRest" /\ p \notin Front)
    BY <1>1 DEF FileInv
  <2>2. pc'[t] = pc[t]
    BY <2>1 DEF Writing
  <2>3. QED
    BY <2>1, <2>2
<1>2. QED
  BY <1>1 DEF FileInv

\* A thread moves; it writes at most the file.
LEMMA FileWritten ==
    ASSUME Inv, FileInv, NEW t \in Threads,
           ReplaceDb(t) \/ ReplaceFront(t) \/ ReplaceRest(t)
    PROVE  FileInv'
<1>1. /\ pc \in [Threads -> Labels] /\ ThreadInv(t)
      /\ torn' = torn /\ phase' = "up" /\ (replaced => replaced')
  BY DEF Inv, LocalInv, ReplaceDb, ReplaceFront, ReplaceRest, On, Go, mig
<1>2. arg[t] \in Done
  BY <1>1 DEF ReplaceDb, ReplaceFront, ReplaceRest, On, Go, ThreadInv, Replacing, Writing
<1>3. PICK to \in Labels : pc' = [pc EXCEPT ![t] = to] /\ (to \in Writing => pc[t] \in Writing \/ replaced')
  BY DEF ReplaceDb, ReplaceFront, ReplaceRest, On, Go, Labels, Replacing, Writing
<1>4. /\ pc'[t] = to
      /\ \A u \in Threads \ {t} : pc'[u] = pc[u]
  BY <1>1, <1>3
<1>5. (torn' => replaced') /\ \A u \in Threads : pc'[u] \in Writing => replaced'
  BY <1>1, <1>3, <1>4 DEF FileInv
<1>6. ASSUME ~torn', NEW p \in Pages \ DOMAIN file'
      PROVE  \E u \in Threads : pc'[u] = "replaceFront" \/ (pc'[u] = "replaceRest" /\ p \notin Front)
  <2>1. DOMAIN copy[arg[t]].image = Pages
    BY <1>1, <1>2, <1>6 DEF Done, Complete
  <2>2. \A S : DOMAIN Overlay(Part(copy[arg[t]].image, S), file) = (Pages \intersect S) \union DOMAIN file
    BY <2>1 DEF Overlay, Part
  <2>3. CASE ReplaceDb(t)
    BY <2>3, <1>1, <1>3, <1>4 DEF ReplaceDb, On, Go
  <2>4. CASE ReplaceFront(t)
    <3>1. pc[t] = "replaceFront" /\ to = "replaceRest"
      BY <2>4, <1>1, <1>3, <1>4 DEF ReplaceFront, On, Go
    <3>2. p \notin Front
      BY <2>2, <2>4, <1>6 DEF ReplaceFront
    <3>3. QED
      BY <3>1, <3>2, <1>4
  <2>5. CASE ReplaceRest(t)
    <3>1. pc[t] = "replaceRest"
      BY <2>5 DEF ReplaceRest, On, Go
    <3>2. p \in Front /\ p \in Pages \ DOMAIN file
      BY <2>2, <2>5, <1>6 DEF ReplaceRest
    <3>3. PICK u \in Threads : pc[u] = "replaceFront"
      BY <3>2, <1>1, <1>6 DEF FileInv
    <3>4. u # t
      BY <3>1, <3>3
    <3>5. QED
      BY <3>3, <3>4, <1>4
  <2>6. QED
    BY <2>3, <2>4, <2>5
<1>7. QED
  BY <1>1, <1>5, <1>6 DEF FileInv

\* The file only lacks pages while a restore writes it, or after one was cut off.
LEMMA StepFile ==
    ASSUME Inv, FileInv, Next
    PROVE  FileInv'
<1>1. pc \in [Threads -> Labels]
  BY DEF Inv, LocalInv
<1>2. \A f, w : Reopen(f, w) => DOMAIN f \subseteq DOMAIN file'
  BY EmptyOk DEF Reopen
<1>3. Close \/ Lose => DOMAIN file \subseteq DOMAIN file'
  <2>1. \A w : DOMAIN file \subseteq DOMAIN Overlay(w, file)
    BY DEF Overlay
  <2>2. QED
    BY <1>2, <2>1 DEF Close, Lose
<1>4. \A p, v : Write(p, v) => DOMAIN file \subseteq DOMAIN file'
  BY DEF Write
<1>5. UNCHANGED db => DOMAIN file \subseteq DOMAIN file'
  BY DEF db
<1>6. CASE StartServer \/ MigrationStep \/ SqliteStep \/ Stop
  <2>1. torn' = torn /\ replaced' = replaced /\ pc' = pc
    BY <1>6 DEF StartServer, MigrationStep, SqliteStep, Stop, local
  <2>2. DOMAIN file \subseteq DOMAIN file'
    <3>1. CASE StartServer
      BY <3>1, <1>5 DEF StartServer, Start, StartRaises
    <3>2. CASE MigrationStep
      BY <3>2, <1>3, <1>4, <1>5 DEF MigrationStep, Migrate, CommitFirst, RunStatement,
           RecordVersion, MigrationRaises, Ready
    <3>3. CASE SqliteStep
      BY <3>3 DEF SqliteStep, Checkpoint, Evict, Overlay
    <3>4. CASE Stop
      BY <3>4, <1>3 DEF Stop
    <3>5. QED
      BY <1>6, <3>1, <3>2, <3>3, <3>4
  <2>3. phase = "up" => phase' = "up" \/ \A u \in Threads : pc[u] = "idle"
    BY <1>6 DEF StartServer, Start, StartRaises, MigrationStep, Migrate, CommitFirst, RunStatement,
         RecordVersion, MigrationRaises, Ready, AtStatement, SqliteStep, Stop, mig
  <2>4. phase' # "up" => \A u \in Threads : pc'[u] = "idle"
    BY <2>1, <2>3 DEF FileInv
  <2>5. QED
    BY <2>1, <2>2, <2>4, FileStays
<1>7. CASE Crash
  <2>1. /\ \A u \in Threads : pc'[u] = "idle"
        /\ replaced' = replaced /\ torn' = (torn \/ \E u \in Threads : pc[u] \in Writing)
    BY <1>7 DEF Crash
  <2>2. DOMAIN file \subseteq DOMAIN file'
    BY <1>3, <1>7 DEF Crash
  <2>3. ~torn' => \A p \in Pages : p \in DOMAIN file
    BY <2>1 DEF FileInv, Writing
  <2>4. QED
    BY <2>1, <2>2, <2>3 DEF FileInv, Writing
<1>8. ASSUME NEW t \in Threads,
             \/ Log(t) \/ OtherRequest(t) \/ SaveRow(t)
             \/ \E m \in Models : SaveFile(t, m)
             \/ \E c \in Copies, kind \in {"backup", "bundle"} : NewCopy(t, c, kind)
             \/ CopyFiles(t) \/ BuildManifest(t) \/ InsertRow(t)
             \/ \E c \in Copies : Restore(t, c) \/ Verify(t, c)
             \/ LogVerify(t) \/ ReadAgain(t) \/ ReplaceFiles(t) \/ Mark(t)
      PROVE  FileInv'
  <2>1. torn' = torn /\ replaced' = replaced
    BY <1>8 DEF Log, OtherRequest, SaveRow, SaveFile, NewCopy, CopyFiles, BuildManifest, InsertRow,
         Restore, Verify, LogVerify, ReadAgain, ReplaceFiles, Mark
  <2>2. DOMAIN file \subseteq DOMAIN file'
    BY <1>4, <1>5, <1>8 DEF Log, OtherRequest, SaveRow, SaveFile, NewCopy, CopyFiles, BuildManifest,
         InsertRow, Restore, Verify, LogVerify, ReadAgain, ReplaceFiles, Mark, LogEntry
  <2>3. \E from, to : from \notin Writing /\ to \notin Writing /\ \E x : Go(t, from, to, x)
    BY <1>8 DEF Log, OtherRequest, SaveRow, SaveFile, NewCopy, CopyFiles, BuildManifest, InsertRow,
         Restore, Verify, LogVerify, ReadAgain, ReplaceFiles, Mark, CopyStep, On, Begin, After,
         Writing
  <2>4. PICK from, to : from \notin Writing /\ to \notin Writing /\ \E x : Go(t, from, to, x)
    BY <2>3
  <2>5. /\ pc[t] = from /\ pc'[t] = to /\ \A u \in Threads \ {t} : pc'[u] = pc[u]
        /\ phase' = "up"
    BY <2>4, <1>1 DEF Go, mig
  <2>6. QED
    BY <2>1, <2>2, <2>4, <2>5, FileStays
<1>9. ASSUME NEW t \in Threads, CopyDb(t) \/ CopyRest(t)
      PROVE  FileInv'
  <2>1. /\ file' = file /\ replaced' = replaced
        /\ torn' = (torn \/ \E u \in Threads : pc[u] \in Writing)
    BY <1>9 DEF CopyDb, CopyRest, db
  <2>2. \E from, to : from \notin Writing /\ to \notin Writing /\ \E x : Go(t, from, to, x)
    BY <1>9 DEF CopyDb, CopyRest, CopyStep, On, After, Writing
  <2>3. PICK from, to : from \notin Writing /\ to \notin Writing /\ \E x : Go(t, from, to, x)
    BY <2>2
  <2>4. /\ pc[t] = from /\ pc'[t] = to /\ \A u \in Threads \ {t} : pc'[u] = pc[u]
        /\ phase' = "up"
    BY <2>3, <1>1 DEF Go, mig
  <2>5. \A u \in Threads : pc'[u] \in Writing => pc[u] \in Writing
    BY <2>3, <2>4
  <2>6. ~torn' => \A p \in Pages : p \in DOMAIN file
    BY <2>1 DEF FileInv, Writing
  <2>7. QED
    BY <2>1, <2>4, <2>5, <2>6 DEF FileInv
<1>10. ASSUME NEW t \in Threads, Raise(t)
       PROVE  FileInv'
  <2>1. /\ file' = file /\ replaced' = replaced /\ torn' = (torn \/ pc[t] \in Writing)
        /\ pc' = [pc EXCEPT ![t] = "idle"] /\ phase' = "up"
    BY <1>10 DEF Raise, db, On, Go, mig
  <2>2. pc'[t] = "idle" /\ \A u \in Threads \ {t} : pc'[u] = pc[u]
    BY <2>1, <1>1
  <2>3. CASE pc[t] \in Writing
    BY <2>1, <2>2, <2>3 DEF FileInv, Writing
  <2>4. CASE pc[t] \notin Writing
    BY <2>1, <2>2, <2>4, FileStays DEF Writing
  <2>5. QED
    BY <2>3, <2>4
<1>11. QED
  BY <1>6, <1>7, <1>8, <1>9, <1>10, FileWritten DEF Next

LEMMA StepInv ==
    ASSUME Inv, MigInv, FileInv, Next
    PROVE  Inv'
<1>1. CASE StartServer \/ MigrationStep \/ SqliteStep \/ Stop
  BY <1>1, QuietSteps
<1>2. CASE Crash
  BY <1>2, CrashSteps
<1>3. ASSUME NEW t \in Threads,
             \/ Log(t) \/ OtherRequest(t) \/ SaveRow(t) \/ (\E m \in Models : SaveFile(t, m))
             \/ (\E c \in Copies : Restore(t, c) \/ Verify(t, c))
             \/ LogVerify(t) \/ ReadAgain(t) \/ Mark(t)
      PROVE  Inv'
  BY <1>3, TableSteps
<1>4. ASSUME NEW t \in Threads,
             ReplaceDb(t) \/ ReplaceFront(t) \/ ReplaceRest(t) \/ ReplaceFiles(t)
      PROVE  Inv'
  BY <1>4, ReplaceSteps
<1>5. ASSUME NEW t \in Threads, \E c \in Copies, kind \in {"backup", "bundle"} : NewCopy(t, c, kind)
      PROVE  Inv'
  BY <1>5, NewCopySteps
<1>6. ASSUME NEW t \in Threads, CopyDb(t) \/ CopyRest(t) \/ CopyFiles(t) \/ BuildManifest(t)
      PROVE  Inv'
  BY <1>6, CopySteps
<1>7. ASSUME NEW t \in Threads, InsertRow(t) \/ Raise(t)
      PROVE  Inv'
  BY <1>7, InsertSteps, RaiseSteps
<1>8. QED
  BY <1>1, <1>2, <1>3, <1>4, <1>5, <1>6, <1>7 DEF Next

LEMMA StutterInv ==
    ASSUME Inv, MigInv, FileInv, UNCHANGED vars
    PROVE  Inv' /\ MigInv' /\ FileInv'
<1>1. UNCHANGED <<ckpt, copy, local, torn>> /\ UNCHANGED db /\ UNCHANGED ckpt
  BY DEF vars
<1>2. Done' = Done /\ CopyInv' /\ LocalInv'
  BY <1>1, QuietKeeps
<1>3. MigInv'
  BY DEF vars, mig, db, MigInv, schema
<1>4. FileInv'
  BY DEF vars, mig, db, local, FileInv
<1>5. QED
  BY <1>1, <1>2, <1>3, <1>4, SameStore DEF Inv

\* The inductive invariant: every copy that the file, the log, the connection
\* or any image lists is complete, every model they list has its checkpoint and
\* their schema is one that migrations left, whatever place SQLite next reads
\* from; migrate() is where its script says; and the file only lacks pages while a
\* restore writes it, or after one was cut off.
THEOREM Invariance == Spec => [](Inv /\ MigInv /\ FileInv)
<1>1. Init => Inv /\ MigInv /\ FileInv
  <2>1. Init => FileInv
    <3>1. Init => DOMAIN file = Pages
      BY OldOk DEF Init
    <3>2. QED
      BY <3>1 DEF Init, MigrationInit, FileInv, Writing
  <2>2. QED
    BY <2>1, InitInv DEF Init, MigrationInit, MigInv
<1>2. (Inv /\ MigInv /\ FileInv) /\ [Next]_vars => (Inv /\ MigInv /\ FileInv)'
  BY StepInv, StepMigInv, StepFile, StutterInv
<1>3. QED
  BY <1>1, <1>2, PTL DEF Spec

\* A backup or bundle that has a row is complete (manager.py:32 and 119),
\* whatever crash, exception or restore came between.
THEOREM Completeness == Spec => []ListedIsComplete
<1>1. Inv => ListedIsComplete
  BY DEF Inv, StoreInv, PagesOk, Pages, Done, Complete, ListedIsComplete
<1>2. QED
  BY <1>1, Invariance, PTL

\* What a listed copy's database needs of checkpoints the copy holds
\* (manager.py:29-31, 112-114), for any cut of the file in two.
THEOREM SnapshotsHoldCheckpoints == Spec => []SnapshotHasCheckpoints
<1>1. Inv => SnapshotHasCheckpoints
  BY DEF Inv, StoreInv, PagesOk, Pages, Done, Complete, SnapshotHasCheckpoints
<1>2. QED
  BY <1>1, Invariance, PTL

\* No row of a model names a checkpoint that is not there (registry.py:115-119,
\* manager.py:202).
THEOREM NoCheckpointLost == Spec => []RowsHaveFiles
<1>1. Inv => RowsHaveFiles
  BY DEF Inv, StoreInv, PagesOk, Pages, RowsHaveFiles
<1>2. QED
  BY <1>1, Invariance, PTL

\* A version row stands for its whole migration and those before it, in the
\* database that any crash, any restore and any later start leave
\* (manager.py:71-82).
THEOREM VersionsMeanDone == Spec => []VersionMeansDone
<1>1. Inv => VersionMeansDone
  <2>1. SUFFICES ASSUME Inv PROVE VersionMeansDone
    OBVIOUS
  <2>2. SchemaOk(schema)
    BY <2>1 DEF Inv, StoreInv, PagesOk, Pages, schema
  <2>3. PICK n \in 0..CURRENT_SCHEMA_VERSION :
          schema.versions = 1..n /\ \A m \in 1..n : StatementsOf(m) \subseteq schema.objs
    BY <2>2 DEF SchemaOk
  <2>4. n \in Nat
    BY ScriptLengths
  <2>5. QED
    BY <2>3, <2>4 DEF VersionMeansDone
<1>2. QED
  BY <1>1, Invariance, PTL

\* Every statement of every start finds what it needs, and its version row is
\* not there yet; and there is a database to read, unless a restore was cut off
\* while it wrote the file: a start that nothing interrupts gets through
\* (migrations/manager.py:60-82, 92-126, backup/manager.py:48, 201).
THEOREM StartsCanFinish == Spec => []StartCanFinish
<1>1. Inv /\ MigInv => StatementsCanRun
  <2>1. SUFFICES ASSUME Inv, MigInv, phase = "migrating", at[1] <= CURRENT_SCHEMA_VERSION
                 PROVE  IF AtStatement THEN CanRun(Statement) ELSE at[1] \notin schema.versions
    BY DEF StatementsCanRun
  <2>2. /\ at[1] \in 1..CURRENT_SCHEMA_VERSION /\ at[2] \in Nat \ {0}
        /\ schema.versions = 1..(at[1] - 1)
        /\ \A i \in 1..(at[2] - 1) : Script[at[1]][i] \in schema.objs \union pending
        /\ \A s \in pending : s.kind = "fill"
    BY <2>1, ScriptLengths DEF MigInv
  <2>3. PICK m \in 1..CURRENT_SCHEMA_VERSION, i \in Nat \ {0} : m = at[1] /\ i = at[2]
    BY <2>2
  <2>4. SchemaOk(schema)
    BY <2>1 DEF Inv, StoreInv, PagesOk, Pages, schema
  <2>5. \A k \in 1..(m - 1) : StatementsOf(k) \subseteq schema.objs
    <3>1. PICK k \in 0..CURRENT_SCHEMA_VERSION :
            schema.versions = 1..k /\ \A l \in 1..k : StatementsOf(l) \subseteq schema.objs
      BY <2>4 DEF SchemaOk
    <3>2. 1..k = 1..(m - 1)
      BY <3>1, <2>2, <2>3
    <3>3. k = m - 1
      BY <3>2, <2>3, ScriptLengths
    <3>4. QED
      BY <3>1, <3>3
  <2>6. CASE AtStatement
    <3>1. i \in 1..Len(Script[m]) /\ Statement = Script[m][i]
      <4>1. Len(Script[m]) \in Nat
        BY <2>3, ScriptLengths
      <4>2. QED
        BY <4>1, <2>6, <2>3 DEF AtStatement, Statement
    <3>2. ASSUME NEW n \in Needs(Script[m][i])
          PROVE  n \in schema.objs
      <4>1. /\ n.kind # "fill"
            /\ \/ \E k \in 1..(m - 1) : n \in StatementsOf(k)
               \/ \E j \in 1..(i - 1) : Script[m][j] = n
        BY <3>1, <3>2, ScriptNeeds
      <4>2. QED
        BY <4>1, <2>2, <2>3, <2>5
    <3>3. QED
      BY <2>6, <3>1, <3>2 DEF CanRun
  <2>7. CASE ~AtStatement
    BY <2>7, <2>2, <2>3, ScriptLengths
  <2>8. QED
    BY <2>6, <2>7
<1>2. Inv /\ FileInv => (phase = "down" /\ ~torn => Readable)
  <2>1. SUFFICES ASSUME Inv, FileInv, phase = "down", ~torn
                 PROVE  Readable
    OBVIOUS
  <2>2. \A p \in Pages : p \in DOMAIN file
    BY <2>1 DEF FileInv
  <2>3. DOMAIN file \subseteq Pages /\ DOMAIN wal \subseteq Pages
    BY <2>1 DEF Inv, StoreInv, PagesOk
  <2>4. QED
    BY <2>2, <2>3 DEF Readable, Overlay
<1>3. Inv /\ MigInv /\ FileInv => StartCanFinish
  BY <1>1, <1>2 DEF StartCanFinish
<1>4. QED
  BY <1>3, Invariance, PTL

-----------------------------------------------------------------------------
(***************************************************************************)
(* The audit chain in the places that hold pages, until the database file  *)
(* is written over.                                                        *)
(***************************************************************************)

Broken(f) == "audit" \in DOMAIN f /\ f["audit"] = "broken"

\* The connection sees what the next open would find, and the file is never
\* ahead of it.
AuditOrder ==
    /\ view["audit"] = IF "audit" \in DOMAIN wal THEN wal["audit"] ELSE file["audit"]
    /\ flushed => view["audit"] = file["audit"]
    /\ Broken(file) => Broken(view)

\* No image is ahead of the file, and a manifest is not behind its image.
ImageOrder(c) ==
    /\ Broken(copy[c].image) => Broken(file)
    /\ copy[c].manifest.chain = "ok" => ~Broken(copy[c].image)

ChainThread(t) ==
    pc[t] \in {"copyDb", "copyRest"} => copy[arg[t]].manifest = NoManifest

ChainInv ==
    ~replaced =>
        /\ AuditOrder
        /\ \A c \in Copies : ImageOrder(c)
        /\ \A t \in Threads : ChainThread(t)

LEMMA InitChain ==
    ASSUME Init
    PROVE  ChainInv
<1>1. /\ view = file /\ wal = NoFrames /\ flushed = FALSE
      /\ pc = [t \in Threads |-> "idle"]
  BY DEF Init
<1>2. AuditOrder
  BY <1>1 DEF AuditOrder, NoFrames
<1>3. \A k : \A rows : ~Broken(OldImage(k, rows))
  BY DEF Broken, OldImage
<1>4. ~Broken(NoFrames)
  BY DEF Broken, NoFrames
<1>5. /\ ~Broken(NoCopy.image)
      /\ \A j : \A kind : ~Broken(OldCopy(j, kind).image)
  BY <1>3, <1>4 DEF NoCopy, OldCopy
<1>6. \A c \in Copies : copy[c] = NoCopy \/ \E j : \E kind : copy[c] = OldCopy(j, kind)
  BY DEF Init
<1>7. \A c \in Copies : ImageOrder(c)
  BY <1>5, <1>6 DEF ImageOrder
<1>8. QED
  BY <1>1, <1>2, <1>7 DEF ChainInv, ChainThread

\* What the database does keeps the order, and the file never mends.
LEMMA AuditKeeps ==
    ASSUME StoreInv, AuditOrder, DOMAIN file = Pages,
           \/ UNCHANGED db
           \/ \E p \in Pages : \E v : Write(p, v) /\ (p = "audit" => v \in {view["audit"], "broken"})
           \/ Checkpoint \/ (\E p \in Pages : Evict(p)) \/ Close \/ Lose
    PROVE  AuditOrder' /\ (Broken(file) => Broken(file'))
<1>1. /\ DOMAIN file = Pages /\ DOMAIN view = Pages /\ DOMAIN wal \subseteq Pages
      /\ "audit" \in Pages
  BY DEF StoreInv, PagesOk, Pages
<1>2. /\ view["audit"] = IF "audit" \in DOMAIN wal THEN wal["audit"] ELSE file["audit"]
      /\ flushed => view["audit"] = file["audit"]
      /\ file["audit"] = "broken" => view["audit"] = "broken"
  BY <1>1 DEF AuditOrder, Broken
<1>3. CASE UNCHANGED db
  BY <1>3 DEF db, AuditOrder
<1>4. CASE \E p \in Pages : \E v : Write(p, v) /\ (p = "audit" => v \in {view["audit"], "broken"})
  <2>1. PICK p \in Pages : \E v : Write(p, v) /\ (p = "audit" => v \in {view["audit"], "broken"})
    BY <1>4
  <2>2. PICK v : Write(p, v) /\ (p = "audit" => v \in {view["audit"], "broken"})
    BY <2>1
  <2>3. /\ file' = file /\ flushed' = FALSE
        /\ view' = [view EXCEPT ![p] = v]
        /\ wal' = [q \in Live \union {p} |-> IF q = p THEN v ELSE wal[q]]
    BY <2>2 DEF Write
  <2>4. CASE p = "audit"
    <3>1. view'["audit"] = v /\ "audit" \in DOMAIN wal' /\ wal'["audit"] = v /\ DOMAIN view' = Pages
      BY <2>3, <2>4, <1>1
    <3>2. QED
      BY <3>1, <2>2, <2>3, <2>4, <1>1, <1>2 DEF AuditOrder, Broken
  <2>5. CASE p # "audit"
    <3>1. view'["audit"] = view["audit"] /\ DOMAIN view' = Pages
      BY <2>3, <2>5, <1>1
    <3>2. /\ "audit" \in DOMAIN wal' <=> "audit" \in Live
          /\ "audit" \in Live => wal'["audit"] = wal["audit"]
      BY <2>3, <2>5
    <3>3. "audit" \in Live <=> ~flushed /\ "audit" \in DOMAIN wal
      BY DEF Live
    <3>4. QED
      BY <3>1, <3>2, <3>3, <2>3, <1>1, <1>2 DEF AuditOrder, Broken
  <2>6. QED
    BY <2>4, <2>5
<1>5. Overlay(wal, file)["audit"] = view["audit"]
  BY <1>1, <1>2 DEF Overlay
<1>6. DOMAIN Overlay(wal, file) = Pages /\ DOMAIN Overlay(NoFrames, file) = Pages
  BY <1>1 DEF Overlay, NoFrames
<1>7. CASE Checkpoint
  <2>1. /\ file' = Overlay(wal, file) /\ flushed' = TRUE /\ wal' = wal /\ view' = view
    BY <1>7 DEF Checkpoint
  <2>2. file'["audit"] = view["audit"] /\ DOMAIN file' = Pages
    BY <2>1, <1>5, <1>6
  <2>3. QED
    BY <2>1, <2>2, <1>1, <1>2 DEF AuditOrder, Broken
<1>8. CASE \E p \in Pages : Evict(p)
  <2>1. PICK p \in Pages : Evict(p)
    BY <1>8
  <2>2. /\ p \notin Live /\ view[p] # file[p]
        /\ view' = [view EXCEPT ![p] = file[p]] /\ UNCHANGED <<file, wal, flushed>>
    BY <2>1 DEF Evict
  <2>3. p # "audit"
    BY <2>2, <1>2 DEF Live
  <2>4. view'["audit"] = view["audit"] /\ DOMAIN view' = Pages
    BY <2>2, <2>3, <1>1
  <2>5. QED
    BY <2>2, <2>4, <1>1, <1>2 DEF AuditOrder, Broken
<1>9. CASE Close
  <2>1. PICK w : w \in {wal, NoFrames} /\ w = IF flushed THEN NoFrames ELSE wal
    OBVIOUS
  <2>2. DOMAIN Overlay(w, file) = Pages /\ Overlay(w, file)["audit"] = view["audit"]
    BY <2>1, <1>1, <1>2, <1>6 DEF Overlay, NoFrames
  <2>3. file' = Overlay(w, file) /\ wal' = NoFrames /\ flushed' = FALSE
    BY <2>1, <2>2, <1>1, <1>9 DEF Close, Reopen
  <2>4. view' = Overlay(wal', file') /\ DOMAIN view' = Pages /\ view'["audit"] = file'["audit"]
    <3>1. Readable'
      BY <2>2, <2>3 DEF Readable, Overlay, NoFrames
    <3>2. view' = Overlay(wal', file')
      BY <3>1, <1>9 DEF Close, Reopen
    <3>3. QED
      BY <3>2, <2>2, <2>3, <1>1 DEF Overlay, NoFrames
  <2>5. QED
    BY <2>2, <2>3, <2>4, <1>1, <1>2 DEF AuditOrder, Broken, NoFrames
<1>10. CASE Lose
  <2>1. file' = file /\ wal' = wal /\ flushed' = FALSE
    BY <1>1, <1>10 DEF Lose, Reopen
  <2>2. Readable'
    BY <2>1, <1>6 DEF Readable
  <2>3. view' = Overlay(wal, file)
    BY <2>1, <2>2, <1>10 DEF Lose, Reopen
  <2>4. view'["audit"] = view["audit"] /\ DOMAIN view' = Pages
    BY <2>3, <1>5, <1>6
  <2>5. QED
    BY <2>1, <2>4, <1>1, <1>2 DEF AuditOrder, Broken
<1>11. QED
  BY <1>3, <1>4, <1>7, <1>8, <1>9, <1>10

\* A copy that is left alone, or given up, keeps its place in the order.
LEMMA ImagesKeep ==
    ASSUME \A c \in Copies : ImageOrder(c), Broken(file) => Broken(file'),
           NEW c \in Copies, copy'[c] = copy[c] \/ copy'[c] = NoCopy
    PROVE  ImageOrder(c)'
<1>1. ImageOrder(c)
  OBVIOUS
<1>2. ~Broken(NoCopy.image)
  BY DEF NoCopy, Broken, NoFrames
<1>3. CASE copy'[c] = copy[c]
  BY <1>1, <1>3 DEF ImageOrder
<1>4. CASE copy'[c] = NoCopy
  BY <1>2, <1>4 DEF ImageOrder
<1>5. QED
  BY <1>3, <1>4

\* What a step does to the database while the file is not written over.
LEMMA AuditStep ==
    ASSUME Inv, MigInv, FileInv, Next, ~replaced, ~replaced', AuditOrder
    PROVE  AuditOrder' /\ (Broken(file) => Broken(file'))
<1>1. StoreInv /\ DOMAIN file = Pages
  <2>1. ~torn /\ \A t \in Threads : pc[t] \notin Writing
    BY DEF FileInv
  <2>2. QED
    BY <2>1 DEF Inv, StoreInv, PagesOk, FileInv, Writing
<1>2. SUFFICES
        \/ UNCHANGED db
        \/ \E p \in Pages : \E v : Write(p, v) /\ (p = "audit" => v \in {view["audit"], "broken"})
        \/ Checkpoint \/ (\E p \in Pages : Evict(p)) \/ Close \/ Lose
  BY <1>1, AuditKeeps
<1>3. CASE StartServer
  BY <1>3 DEF StartServer, Start, StartRaises
<1>4. CASE MigrationStep
  <2>1. CASE CommitFirst \/ RunStatement \/ RecordVersion
    BY <2>1, <1>1, MigrationWrites DEF Pages
  <2>2. CASE MigrationRaises \/ Ready
    BY <2>2 DEF MigrationRaises, Ready
  <2>3. QED
    BY <1>4, <2>1, <2>2 DEF MigrationStep, Migrate
<1>5. CASE SqliteStep \/ Stop \/ Crash
  BY <1>5 DEF SqliteStep, Stop, Crash
<1>6. ASSUME NEW t \in Threads, Log(t) \/ OtherRequest(t) \/ LogVerify(t)
      PROVE  \E v \in {view["audit"], "broken"} : Write("audit", v)
  BY <1>6 DEF Log, OtherRequest, LogVerify, LogEntry
<1>7. ASSUME NEW t \in Threads, SaveRow(t) \/ InsertRow(t) \/ Mark(t)
      PROVE  UNCHANGED db \/ (\E v : Write("models", v)) \/ (\E v : Write("copies", v))
  BY <1>7 DEF SaveRow, InsertRow, Mark
<1>8. ASSUME NEW t \in Threads,
             \/ \E m \in Models : SaveFile(t, m)
             \/ \E c \in Copies, kind \in {"backup", "bundle"} : NewCopy(t, c, kind)
             \/ CopyDb(t) \/ CopyRest(t) \/ CopyFiles(t) \/ BuildManifest(t)
             \/ \E c \in Copies : Restore(t, c) \/ Verify(t, c)
             \/ ReadAgain(t) \/ ReplaceFiles(t) \/ Raise(t)
      PROVE  UNCHANGED db
  BY <1>8 DEF SaveFile, NewCopy, CopyDb, CopyRest, CopyFiles, BuildManifest, Restore, Verify,
              ReadAgain, ReplaceFiles, Raise
<1>9. \A t \in Threads : ~ReplaceDb(t) /\ ~ReplaceFront(t) /\ ~ReplaceRest(t)
  BY DEF ReplaceDb, ReplaceFront, ReplaceRest, On, Go, FileInv, Writing
<1>10. QED
  BY <1>3, <1>4, <1>5, <1>6, <1>7, <1>8, <1>9 DEF Next, Pages

\* Steps that leave every copy as it is, or give it up.
LEMMA ChainAside ==
    ASSUME Inv, ChainInv, ~replaced, AuditOrder', Broken(file) => Broken(file'),
           \A c \in Copies : copy'[c] = copy[c] \/ copy'[c] = NoCopy,
           \A u \in Threads :
               \/ pc'[u] = pc[u] /\ arg'[u] = arg[u]
               \/ pc'[u] \notin {"copyDb", "copyRest"}
    PROVE  ChainInv'
<1>1. /\ \A c \in Copies : ImageOrder(c)
      /\ \A u \in Threads : ChainThread(u)
  BY DEF ChainInv
<1>2. \A c \in Copies : ImageOrder(c)'
  BY <1>1, ImagesKeep
<1>3. ASSUME NEW u \in Threads
      PROVE  ChainThread(u)'
  <2>1. CASE pc'[u] = pc[u] /\ arg'[u] = arg[u]
    <3>1. ThreadInv(u) /\ ChainThread(u)
      BY <1>1 DEF Inv, LocalInv
    <3>2. pc[u] \in {"copyDb", "copyRest"} =>
            copy'[arg[u]] = copy[arg[u]] \/ copy'[arg[u]] = NoCopy
      BY <3>1 DEF ThreadInv, Begun
    <3>3. QED
      BY <2>1, <3>1, <3>2 DEF ChainThread, NoCopy
  <2>2. CASE pc'[u] \notin {"copyDb", "copyRest"}
    BY <2>2 DEF ChainThread
  <2>3. QED
    BY <2>1, <2>2
<1>4. QED
  BY <1>2, <1>3 DEF ChainInv

\* The steps of a copy: what it takes, the file has; and what its manifest
\* says, the connection sees, which is not behind the file.
LEMMA ChainCopy ==
    ASSUME Inv, FileInv, ChainInv, ~replaced, AuditOrder', NEW t \in Threads,
           \/ \E c \in Copies, kind \in {"backup", "bundle"} : NewCopy(t, c, kind)
           \/ CopyDb(t) \/ CopyRest(t) \/ CopyFiles(t) \/ BuildManifest(t)
    PROVE  ChainInv'
<1>1. /\ \A c \in Copies : ImageOrder(c)
      /\ \A u \in Threads : ChainThread(u)
      /\ AuditOrder
  BY DEF ChainInv
<1>2. /\ \A u \in Threads : ThreadInv(u)
      /\ pc \in [Threads -> Labels] /\ arg = [u \in Threads |-> arg[u]]
      /\ copy = [d \in Copies |-> copy[d]]
      /\ \A d \in Copies : CopyRecord(copy[d])
      /\ DOMAIN view = Pages /\ "audit" \in Pages
      /\ view["audit"] \in {"ok", "broken"}
  BY DEF Inv, LocalInv, CopyInv, StoreInv, PagesOk, Pages
<1>3. UNCHANGED db
  BY DEF NewCopy, CopyDb, CopyRest, CopyFiles, BuildManifest
<1>4. file' = file
  BY <1>3 DEF db
<1>5. CASE \E c \in Copies, kind \in {"backup", "bundle"} : NewCopy(t, c, kind)
  <2>1. PICK c \in Copies, kind \in {"backup", "bundle"} : NewCopy(t, c, kind)
    BY <1>5
  <2>2. /\ pc[t] = "idle" /\ copy[c] = NoCopy
        /\ pc' = [pc EXCEPT ![t] = "copyDb"]
        /\ arg' = [arg EXCEPT ![t] = c]
        /\ copy' = [copy EXCEPT ![c].kind = kind]
    BY <2>1 DEF NewCopy, Begin, Go, After
  <2>3. copy'[c] = [NoCopy EXCEPT !.kind = kind] /\ \A d \in Copies \ {c} : copy'[d] = copy[d]
    BY <2>2, <1>2
  <2>4. copy'[c].image = NoFrames /\ copy'[c].manifest = NoManifest
    BY <2>3 DEF NoCopy
  <2>5. ImageOrder(c)'
    BY <2>4 DEF ImageOrder, Broken, NoFrames, NoManifest
  <2>6. \A d \in Copies : ImageOrder(d)'
    BY <2>3, <2>5, <1>1, <1>4, ImagesKeep
  <2>7. pc'[t] = "copyDb" /\ arg'[t] = c /\ \A u \in Threads \ {t} : pc'[u] = pc[u] /\ arg'[u] = arg[u]
    BY <2>2, <1>2
  <2>8. ASSUME NEW u \in Threads
        PROVE  ChainThread(u)'
    <3>1. CASE u = t
      BY <3>1, <2>4, <2>7 DEF ChainThread
    <3>2. CASE u # t
      <4>1. pc[u] \in {"copyDb", "copyRest"} => arg[u] \in Copies
        BY <1>2 DEF ThreadInv, Begun
      <4>2. pc[u] \in {"copyDb", "copyRest"} => copy'[arg[u]].manifest = NoManifest
        BY <4>1, <2>3, <2>4, <1>1 DEF ChainThread
      <4>3. QED
        BY <3>2, <4>2, <2>7, <1>1 DEF ChainThread
    <3>3. QED
      BY <3>1, <3>2
  <2>9. QED
    BY <2>6, <2>8 DEF ChainInv
<1>6. CASE CopyDb(t) \/ CopyRest(t) \/ CopyFiles(t) \/ BuildManifest(t)
  <2>1. PICK label \in {"copyDb", "copyRest", "copyFiles", "manifest"} :
          /\ pc[t] = label
          /\ Go(t, label, After(copy[arg[t]].kind)[label], arg[t])
    BY <1>6 DEF CopyDb, CopyRest, CopyFiles, BuildManifest, CopyStep, On
  <2>2. ThreadInv(t) /\ pc[t] \in Begun
    BY <2>1, <1>2 DEF Begun
  <2>3. PICK c \in Copies : c = arg[t] /\ \A u \in Threads \ {t} : ~Working(u, c)
    BY <2>2 DEF ThreadInv
  <2>4. /\ pc' = [pc EXCEPT ![t] = After(copy[c].kind)[label]]
        /\ After(copy[c].kind)[label] # "idle"
        /\ arg' = [arg EXCEPT ![t] = arg[t]]
    <3>1. After(copy[c].kind)[label] # "idle"
      BY <2>1 DEF After
    <3>2. QED
      BY <2>1, <2>3, <3>1 DEF Go
  <2>5. /\ pc'[t] = After(copy[c].kind)[label]
        /\ \A u \in Threads \ {t} : pc'[u] = pc[u]
        /\ arg' = arg
    BY <2>4, <1>2
  <2>6. pc'[t] \in {"copyDb", "copyRest"} => label = "copyDb"
    BY <2>1, <2>5 DEF After
  <2>7. \A d \in Copies \ {c} : copy'[d] = copy[d]
    BY <2>3, <1>2, <1>6 DEF CopyDb, CopyRest, CopyFiles, BuildManifest
  <2>8. ImageOrder(c) /\ ChainThread(t) /\ CopyRecord(copy[c])
    BY <1>1, <1>2
  <2>9. ImageOrder(c)' /\ (label # "manifest" => copy'[c].manifest = copy[c].manifest)
    <3>1. CASE CopyDb(t)
      <4>1. /\ copy'[c].image = Part(file, Front)
            /\ copy'[c].manifest = copy[c].manifest /\ pc[t] = "copyDb"
        BY <3>1, <2>3, <2>8, <1>2 DEF CopyDb, CopyStep, CopyRecord
      <4>2. copy[c].manifest.chain # "ok"
        BY <4>1, <2>3, <2>8 DEF ChainThread, NoManifest
      <4>3. Broken(copy'[c].image) => Broken(file)
        BY <4>1 DEF Broken, Part
      <4>4. QED
        BY <4>1, <4>2, <4>3, <1>4 DEF ImageOrder
    <3>2. CASE CopyRest(t)
      <4>1. /\ copy'[c].image = Overlay(copy[c].image, Part(file, Pages \ Front))
            /\ copy'[c].manifest = copy[c].manifest /\ pc[t] = "copyRest"
        BY <3>2, <2>3, <2>8, <1>2 DEF CopyRest, CopyStep, CopyRecord
      <4>2. copy[c].manifest.chain # "ok"
        BY <4>1, <2>3, <2>8 DEF ChainThread, NoManifest
      <4>3. Broken(copy'[c].image) => Broken(copy[c].image) \/ Broken(file)
        BY <4>1 DEF Broken, Overlay, Part
      <4>4. QED
        BY <4>1, <4>2, <4>3, <2>8, <1>4 DEF ImageOrder
    <3>3. CASE CopyFiles(t)
      <4>1. copy'[c].image = copy[c].image /\ copy'[c].manifest = copy[c].manifest
        BY <3>3, <2>3, <2>8, <1>2 DEF CopyFiles, CopyStep, CopyRecord
      <4>2. QED
        BY <4>1, <2>8, <1>4 DEF ImageOrder
    <3>4. CASE BuildManifest(t)
      <4>1. /\ copy'[c].image = copy[c].image /\ label = "manifest"
            /\ copy'[c].manifest = [chain |-> view["audit"],
                                    current |-> CURRENT_SCHEMA_VERSION \in schema.versions]
        BY <3>4, <2>1, <2>3, <2>8, <1>2 DEF BuildManifest, CopyStep, CopyRecord
      <4>2. Broken(copy[c].image) => view["audit"] = "broken"
        BY <2>8, <1>1 DEF ImageOrder, AuditOrder, Broken
      <4>3. QED
        BY <4>1, <4>2, <2>8, <1>4 DEF ImageOrder
    <3>5. QED
      BY <1>6, <3>1, <3>2, <3>3, <3>4
  <2>10. \A d \in Copies : ImageOrder(d)'
    BY <2>7, <2>9, <1>1, <1>4, ImagesKeep
  <2>11. ASSUME NEW u \in Threads
         PROVE  ChainThread(u)'
    <3>1. CASE u = t
      BY <3>1, <2>1, <2>3, <2>5, <2>6, <2>8, <2>9 DEF ChainThread
    <3>2. CASE u # t
      <4>1. pc[u] \in {"copyDb", "copyRest"} => arg[u] \in Copies \ {c}
        BY <3>2, <2>3, <1>2 DEF ThreadInv, Begun, Working
      <4>2. QED
        BY <3>2, <4>1, <2>5, <2>7, <1>1 DEF ChainThread
    <3>3. QED
      BY <3>1, <3>2
  <2>12. QED
    BY <2>10, <2>11 DEF ChainInv
<1>7. QED
  BY <1>5, <1>6

LEMMA StepChain ==
    ASSUME Inv, MigInv, FileInv, ChainInv, Next
    PROVE  ChainInv'
<1>1. SUFFICES ASSUME ~replaced'
               PROVE  ChainInv'
  BY DEF ChainInv
<1>2. ~replaced
  BY <1>1 DEF Next, StartServer, MigrationStep, SqliteStep, Stop, Crash, Log, OtherRequest, SaveRow,
              SaveFile, NewCopy, CopyDb, CopyRest, CopyFiles, BuildManifest, InsertRow, Restore,
              Verify, LogVerify, ReadAgain, ReplaceDb, ReplaceFront, ReplaceRest, ReplaceFiles,
              Mark, Raise
<1>3. /\ AuditOrder
      /\ pc \in [Threads -> Labels] /\ arg = [u \in Threads |-> arg[u]]
      /\ copy = [d \in Copies |-> copy[d]]
  BY <1>2 DEF ChainInv, Inv, LocalInv, CopyInv
<1>4. AuditOrder' /\ (Broken(file) => Broken(file'))
  BY <1>1, <1>2, <1>3, AuditStep
<1>5. SUFFICES ASSUME \A t \in Threads :
                        /\ ~(\E c \in Copies, kind \in {"backup", "bundle"} : NewCopy(t, c, kind))
                        /\ ~CopyDb(t) /\ ~CopyRest(t) /\ ~CopyFiles(t) /\ ~BuildManifest(t)
               PROVE  ChainInv'
  BY <1>2, <1>4, ChainCopy
<1>6. CASE StartServer \/ MigrationStep \/ SqliteStep \/ Stop
  <2>1. copy' = copy /\ pc' = pc /\ arg' = arg
    BY <1>6 DEF StartServer, MigrationStep, SqliteStep, Stop, local
  <2>2. QED
    BY <2>1, <1>2, <1>4, ChainAside
<1>7. CASE Crash
  <2>1. /\ pc' = [t \in Threads |-> "idle"]
        /\ \A c \in Copies : copy'[c] = copy[c] \/ copy'[c] = NoCopy
    BY <1>7 DEF Crash, Abandon
  <2>2. QED
    BY <2>1, <1>2, <1>4, ChainAside
<1>8. ASSUME NEW t \in Threads,
             \/ Log(t) \/ OtherRequest(t) \/ SaveRow(t)
             \/ \E m \in Models : SaveFile(t, m)
             \/ InsertRow(t)
             \/ \E c \in Copies : Restore(t, c) \/ Verify(t, c)
             \/ LogVerify(t) \/ ReadAgain(t) \/ ReplaceDb(t) \/ ReplaceFront(t)
             \/ ReplaceRest(t) \/ ReplaceFiles(t) \/ Mark(t) \/ Raise(t)
      PROVE  ChainInv'
  <2>1. ~ReplaceDb(t) /\ ~ReplaceFront(t) /\ ~ReplaceRest(t)
    BY <1>1, <1>2 DEF ReplaceDb, ReplaceFront, ReplaceRest, On, Go, FileInv, Writing
  <2>2. \A c \in Copies : copy'[c] = copy[c] \/ copy'[c] = NoCopy
    BY <1>3, <1>8, <2>1 DEF Log, OtherRequest, SaveRow, SaveFile, InsertRow, Restore, Verify,
         LogVerify, ReadAgain, ReplaceFiles, Mark, Raise, Abandon
  <2>3. \E from, to : /\ \E x : Go(t, from, to, x)
                      /\ to \notin {"copyDb", "copyRest"}
    <3>1. CASE InsertRow(t)
      BY <3>1 DEF InsertRow, CopyStep, On, After
    <3>2. CASE ~InsertRow(t)
      BY <1>8, <2>1, <3>2 DEF Log, OtherRequest, SaveRow, SaveFile, Restore, Verify,
           LogVerify, ReadAgain, ReplaceFiles, Mark, Raise, On, Begin
    <3>3. QED
      BY <3>1, <3>2
  <2>4. PICK from, to : /\ \E x : Go(t, from, to, x)
                        /\ to \notin {"copyDb", "copyRest"}
    BY <2>3
  <2>5. PICK x : Go(t, from, to, x)
    BY <2>4
  <2>6. /\ pc' = [pc EXCEPT ![t] = to]
        /\ arg' = [arg EXCEPT ![t] = IF to = "idle" THEN Nothing ELSE x]
    BY <2>5 DEF Go
  <2>7. \A u \in Threads : \/ pc'[u] = pc[u] /\ arg'[u] = arg[u]
                           \/ pc'[u] \notin {"copyDb", "copyRest"}
    BY <2>4, <2>6, <1>3
  <2>8. QED
    BY <2>2, <2>7, <1>2, <1>4, ChainAside
<1>9. QED
  BY <1>5, <1>6, <1>7, <1>8 DEF Next

\* Until the database file is written over, an image is never ahead of the file,
\* nor the file of what the connection sees; so a manifest, which describes what
\* the connection sees, never calls an image's broken chain good
\* (manager.py:107-119).
THEOREM ChainOrder == Spec => []ChainInv
<1>1. Init => ChainInv
  BY InitChain
<1>2. (Inv /\ MigInv /\ FileInv) /\ ChainInv /\ [Next]_vars => ChainInv'
  <2>1. (Inv /\ MigInv /\ FileInv) /\ ChainInv /\ Next => ChainInv'
    BY StepChain
  <2>2. ChainInv /\ UNCHANGED vars => ChainInv'
    BY DEF vars, db, local, ChainInv, AuditOrder, ImageOrder, ChainThread
  <2>3. QED
    BY <2>1, <2>2
<1>3. QED
  BY <1>1, <1>2, Invariance, PTL DEF Spec

\* A bundle whose manifest passes verify_state_bundle holds a chain that
\* verifies, although the manifest looked at a later state than the file that
\* was copied (manager.py:107-119, 171).
THEOREM VerifiedChainHolds == Spec => []VerifiedChain
<1>1. Inv /\ FileInv /\ ChainInv => VerifiedChain
  <2>1. SUFFICES ASSUME Inv, FileInv, ChainInv, ~replaced, NEW c \in view["copies"],
                        Ok(c)
                 PROVE  copy[c].image["audit"] = "ok"
    BY DEF VerifiedChain
  <2>2. c \in Done
    BY <2>1 DEF Inv, StoreInv, PagesOk, Pages
  <2>3. c \in Copies /\ DOMAIN copy[c].image = Pages /\ copy[c].manifest.chain = "ok"
    BY <2>1, <2>2 DEF Done, Complete, Ok, FileInv
  <2>4. copy[c].image["audit"] \in {"ok", "broken"}
    BY <2>1, <2>3 DEF Inv, CopyInv, PagesOk, Pages
  <2>5. ~Broken(copy[c].image)
    BY <2>1, <2>3 DEF ChainInv, ImageOrder
  <2>6. QED
    BY <2>3, <2>4, <2>5 DEF Broken, Pages
<1>2. QED
  BY <1>1, Invariance, ChainOrder, PTL
-----------------------------------------------------------------------------
(***************************************************************************)
(* Backups and bundles that are listed.                                    *)
(***************************************************************************)

\* A copy that the connection lists keeps its image, its checkpoints and its
\* manifest.
ListedStay == [][\A c \in view["copies"] : copy'[c] = copy[c]]_vars

\* Only the call that works on a copy changes it, and only before it is listed.
LEMMA DoneStay ==
    ASSUME Inv, Next, NEW c \in Done
    PROVE  copy'[c] = copy[c]
<1>1. c \in Copies /\ copy[c].kind # "none" /\ \A t \in Threads : ~Working(t, c)
  BY DEF Done, Complete
<1>2. copy = [d \in Copies |-> copy[d]]
  BY DEF Inv, CopyInv
<1>3. CASE StartServer \/ MigrationStep \/ SqliteStep \/ Stop
  BY <1>3 DEF StartServer, MigrationStep, SqliteStep, Stop
<1>4. CASE Crash
  BY <1>1, <1>4 DEF Crash, Abandon, Working
<1>5. ASSUME NEW t \in Threads, Raise(t)
      PROVE  copy'[c] = copy[c]
  BY <1>1, <1>5 DEF Raise, Abandon, Working
<1>6. ASSUME NEW t \in Threads, NEW d \in Copies, NEW kind, NewCopy(t, d, kind)
      PROVE  copy'[c] = copy[c]
  <2>1. c # d
    BY <1>1, <1>6 DEF NewCopy, NoCopy
  <2>2. QED
    BY <2>1, <1>1, <1>2, <1>6 DEF NewCopy
<1>7. ASSUME NEW t \in Threads, CopyDb(t) \/ CopyRest(t) \/ CopyFiles(t) \/ BuildManifest(t)
      PROVE  copy'[c] = copy[c]
  <2>1. pc[t] \in {"copyDb", "copyRest", "copyFiles", "manifest"}
    BY <1>7 DEF CopyDb, CopyRest, CopyFiles, BuildManifest, CopyStep
  <2>2. arg[t] # c
    BY <2>1, <1>1 DEF Working, Begun
  <2>3. QED
    BY <2>2, <1>1, <1>2, <1>7 DEF CopyDb, CopyRest, CopyFiles, BuildManifest
<1>8. ASSUME NEW t \in Threads,
             \/ Log(t) \/ OtherRequest(t) \/ SaveRow(t) \/ (\E m \in Models : SaveFile(t, m))
             \/ InsertRow(t) \/ (\E d \in Copies : Restore(t, d) \/ Verify(t, d))
             \/ LogVerify(t) \/ ReadAgain(t) \/ ReplaceDb(t) \/ ReplaceFront(t)
             \/ ReplaceRest(t) \/ ReplaceFiles(t) \/ Mark(t)
      PROVE  copy'[c] = copy[c]
  BY <1>8 DEF Log, OtherRequest, SaveRow, SaveFile, InsertRow, Restore, Verify, LogVerify,
       ReadAgain, ReplaceDb, ReplaceFront, ReplaceRest, ReplaceFiles, Mark
<1>9. QED
  BY <1>3, <1>4, <1>5, <1>6, <1>7, <1>8 DEF Next

\* A backup or bundle that is listed is never changed again: not by another copy
\* or a failed one, not by a restore of any of them, and not by a restart, also
\* when its row comes back with a snapshot (manager.py:22-34, 103-122).
THEOREM ListedCopiesStay == Spec => ListedStay
<1>1. Inv /\ [Next]_vars => [\A c \in view["copies"] : copy'[c] = copy[c]]_vars
  <2>1. SUFFICES ASSUME Inv, Next, NEW c \in view["copies"]
                 PROVE  copy'[c] = copy[c]
    OBVIOUS
  <2>2. c \in Done
    BY <2>1 DEF Inv, StoreInv, PagesOk, Pages
  <2>3. QED
    BY <2>1, <2>2, DoneStay
<1>2. QED
  BY <1>1, Invariance, PTL DEF Spec, ListedStay
=============================================================================
