------------------------------ MODULE Migrations ------------------------------
(***************************************************************************)
(* The schema migrations that a start runs (migrations/manager.py).  DDL   *)
(* commits by itself, executescript commits what is pending before it      *)
(* runs, and an UPDATE waits for the commit of the version row: so a crash *)
(* may leave any prefix of a migration behind, and the next start runs     *)
(* that migration again from its beginning.                                *)
(***************************************************************************)
EXTENDS Sqlite

VARIABLES
    phase,     \* "down", "migrating" or "up"
    applied,   \* the versions that migrate() found
    at,        \* the migration and the statement it is at
    pending    \* an UPDATE that is not yet committed

mig == <<phase, applied, at, pending>>

Table(t) == [kind |-> "table", on |-> t, col |-> ""]
Column(t, c) == [kind |-> "column", on |-> t, col |-> c]
Index(t) == [kind |-> "index", on |-> t, col |-> ""]
Fill(t, c) == [kind |-> "fill", on |-> t, col |-> c]

\* The statements of each migration: of a run of equal statements the first
\* and the last, and those that a later statement builds on.
BaseSchema == <<Table("messages"), Table("memory"), Table("models"), Table("backups")>>

ExtendedRuntimeSchema ==
    <<Table("sessions"), Table("rag_chunks"),
      Column("memory", "source"), Column("memory", "approved"),
      Column("models", "model_type"), Column("models", "approved_at"),
      Fill("memory", "source")>>

IndexesAndMetadata == <<Index("messages"), Index("rag_chunks")>>

StateBundles == <<Table("state_bundles"), Index("state_bundles")>>

SessionHardening ==
    <<Column("sessions", "last_seen_at"), Column("sessions", "last_ip"),
      Fill("sessions", "last_seen_at"), Index("sessions")>>

Script == <<BaseSchema, ExtendedRuntimeSchema, IndexesAndMetadata, StateBundles, SessionHardening>>

CURRENT_SCHEMA_VERSION == Len(Script)

StatementsOf(m) == {Script[m][i] : i \in 1..Len(Script[m])}

\* A database that migrations 1 to k have made.
Through(k) == [objs |-> UNION {StatementsOf(m) : m \in 1..k}, versions |-> 1..k]

schema == view["schema"]

Needs(s) ==
    CASE s.kind = "table" -> {}
      [] s.kind = "fill" -> {Column(s.on, s.col)}
      [] OTHER -> {Table(s.on)}

\* Variant of CanRun: ALTER TABLE without asking column_exists.
CanRunOnce(s) ==
    /\ Needs(s) \subseteq schema.objs
    /\ s.kind = "column" => s \notin schema.objs

\* IF NOT EXISTS and add_column_if_missing do nothing to what is there.
CanRun(s) == Needs(s) \subseteq schema.objs

InScript(s) == s.kind \in {"table", "index"}

\* The next migration after those before m that is not applied.
Todo(m, done) ==
    IF m..CURRENT_SCHEMA_VERSION \subseteq done THEN CURRENT_SCHEMA_VERSION + 1
    ELSE CHOOSE k \in (m..CURRENT_SCHEMA_VERSION) \ done :
            \A j \in (m..CURRENT_SCHEMA_VERSION) \ done : k <= j

MigrationInit ==
    /\ phase = "down"
    /\ applied = {}
    /\ at = <<1, 1>>
    /\ pending = {}

\* migrate() is over: its locals are gone, and what was not committed.
Leave(p) ==
    /\ phase' = p
    /\ applied' = {}
    /\ at' = <<1, 1>>
    /\ pending' = {}

\* Database(): open, ensure_meta, applied_versions.
Start ==
    /\ phase = "down"
    /\ Readable
    /\ phase' = "migrating"
    /\ applied' = schema.versions
    /\ at' = <<Todo(1, schema.versions), 1>>
    /\ pending' = {}
    /\ UNCHANGED db

\* A page is in neither the file nor the log: the database is malformed.
StartRaises ==
    /\ phase = "down"
    /\ ~Readable
    /\ UNCHANGED <<db, mig>>

AtStatement ==
    /\ phase = "migrating"
    /\ at[1] <= CURRENT_SCHEMA_VERSION
    /\ at[2] <= Len(Script[at[1]])

Statement == Script[at[1]][at[2]]

\* executescript begins with COMMIT.
CommitFirst ==
    /\ AtStatement
    /\ InScript(Statement)
    /\ pending # {}
    /\ Write("schema", [schema EXCEPT !.objs = @ \union pending])
    /\ pending' = {}
    /\ UNCHANGED <<phase, applied, at>>

\* Variant of RunStatement: the version row is written with the first statement.
RunVersionFirst ==
    /\ AtStatement
    /\ CanRun(Statement)
    /\ Write("schema", [objs |-> schema.objs \union {Statement},
                        versions |-> schema.versions \union {at[1]}])
    /\ at' = <<at[1], at[2] + 1>>
    /\ UNCHANGED <<phase, applied, pending>>

RunStatement ==
    /\ AtStatement
    /\ CanRun(Statement)
    /\ IF Statement.kind = "fill"
       THEN /\ pending' = pending \union {Statement}
            /\ UNCHANGED db
       ELSE /\ pending = {}
            /\ Write("schema", [schema EXCEPT !.objs = @ \union {Statement}])
            /\ UNCHANGED pending
    /\ at' = <<at[1], at[2] + 1>>
    /\ UNCHANGED <<phase, applied>>

\* INSERT INTO schema_migrations, and the commit of "with conn".
RecordVersion ==
    /\ phase = "migrating"
    /\ at[1] <= CURRENT_SCHEMA_VERSION
    /\ at[2] > Len(Script[at[1]])
    /\ at[1] \notin schema.versions
    /\ Write("schema", [objs |-> schema.objs \union pending,
                        versions |-> schema.versions \union {at[1]}])
    /\ pending' = {}
    /\ at' = <<Todo(at[1] + 1, applied), 1>>
    /\ UNCHANGED <<phase, applied>>

\* A statement raises, for what it finds or because the disk is full: "with
\* conn" rolls back and the process ends.
MigrationRaises ==
    /\ phase = "migrating"
    /\ Leave("down")
    /\ Lose

Ready ==
    /\ phase = "migrating"
    /\ at[1] > CURRENT_SCHEMA_VERSION
    /\ Leave("up")
    /\ UNCHANGED db

Migrate == CommitFirst \/ RunStatement \/ RecordVersion \/ MigrationRaises \/ Ready

-----------------------------------------------------------------------------

\* A version row means that all of its migration, and of those before it, is
\* there: in the database whatever crash came between, and whatever snapshot
\* was restored (manager.py:71-82, the version row is written last).
VersionMeansDone ==
    \A m \in schema.versions :
        \A k \in 1..m : k \in schema.versions /\ StatementsOf(k) \subseteq schema.objs

\* No statement of a start raises for what it finds: whatever a crash or an
\* older snapshot left (the IF NOT EXISTS and add_column_if_missing of
\* manager.py).
StatementsCanRun ==
    phase = "migrating" /\ at[1] <= CURRENT_SCHEMA_VERSION =>
        IF AtStatement THEN CanRun(Statement) ELSE at[1] \notin schema.versions
=============================================================================
