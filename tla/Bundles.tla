-------------------------------- MODULE Bundles --------------------------------
(***************************************************************************)
(* Backups and state bundles (backup/manager.py) over the database file,   *)
(* its log and the checkpoint files, with the server's starts and stops.   *)
(* Copying the database file is not atomic: commits and checkpoints of     *)
(* other requests come in between, and the log is not copied.              *)
(***************************************************************************)
EXTENDS Migrations

CONSTANTS
    Threads,   \* request threads
    Models,    \* models that can be saved
    Copies,    \* bound: backups and bundles that can be made
    Releases,  \* the schema versions of earlier releases
    Front       \* the pages in the first part of the main file

Nothing == "nothing"

ASSUME StoreAssumption ==
    /\ Models \intersect Copies = {}
    /\ Nothing \notin Models \union Copies
    /\ Releases \subseteq 0..CURRENT_SCHEMA_VERSION
    /\ Front \subseteq Pages

VARIABLES
    ckpt,      \* the checkpoint files: the models that have one
    copy,      \* the directories under BACKUPS_DIR
    pc, arg,   \* each thread's step, and the copy or model it works on
    replaced,  \* history: the database file was once written over
    torn       \* history: a restore was cut off between its first and its last
               \* write of the database file, or the file was copied meanwhile

local == <<pc, arg>>
vars == <<db, mig, ckpt, copy, local, replaced, torn>>

NoManifest == [chain |-> "none", current |-> FALSE]
NoCopy == [kind |-> "none", image |-> NoFrames, files |-> {}, manifest |-> NoManifest]

Begun == {"copyDb", "copyRest", "copyFiles", "manifest", "insert"}
Writing == {"replaceFront", "replaceRest"}
Replacing == {"logVerify", "again", "replaceDb"} \union Writing \union {"replaceFiles", "mark"}
Labels == {"idle", "saveRow", "log"} \union Begun \union Replacing

\* The database of a release whose last migration was k, with the given rows.
OldImage(k, rows) ==
    [p \in Pages |-> CASE p = "schema" -> Through(k)
                       [] p = "copies" -> rows
                       [] p = "audit" -> "ok"
                       [] OTHER -> {}]

HasTable(k, kind) ==
    Table(IF kind = "bundle" THEN "state_bundles" ELSE "backups") \in Through(k).objs

\* A copy that the release with migration k made.
OldCopy(k, kind) ==
    [kind |-> kind, image |-> OldImage(k, {}), files |-> {},
     manifest |-> IF kind = "bundle" THEN [chain |-> "ok", current |-> TRUE] ELSE NoManifest]

Init ==
    /\ \E k \in Releases :
        \/ /\ file = OldImage(k, {})
           /\ copy = [c \in Copies |-> NoCopy]
        \/ \E j \in Releases \intersect (1..k), kind \in {"backup", "bundle"}, c \in Copies :
            /\ HasTable(j, kind)
            /\ file = OldImage(k, {c})
            /\ copy = [d \in Copies |-> IF d = c THEN OldCopy(j, kind) ELSE NoCopy]
    /\ wal = NoFrames
    /\ flushed = FALSE
    /\ view = file
    /\ MigrationInit
    /\ ckpt = {}
    /\ pc = [t \in Threads |-> "idle"]
    /\ arg = [t \in Threads |-> Nothing]
    /\ replaced = FALSE
    /\ torn = FALSE

-----------------------------------------------------------------------------

\* A thread's step while the server runs, and a call's first step.
Go(t, from, to, x) ==
    /\ phase = "up"
    /\ pc[t] = from
    /\ pc' = [pc EXCEPT ![t] = to]
    /\ arg' = [arg EXCEPT ![t] = IF to = "idle" THEN Nothing ELSE x]
    /\ UNCHANGED mig

On(t, from, to) == Go(t, from, to, arg[t])

Begin(t, to, x) == Go(t, "idle", to, x)

\* The end of audit.log: the chain may break (module AuditLog says when) and
\* never mends.
LogEntry == \E v \in {view["audit"], "broken"} : Write("audit", v)

Log(t) ==
    /\ On(t, "log", "idle")
    /\ LogEntry
    /\ UNCHANGED <<ckpt, copy, replaced, torn>>

\* Any other request writes the audit log.
OtherRequest(t) ==
    /\ On(t, "idle", "idle")
    /\ LogEntry
    /\ UNCHANGED <<ckpt, copy, replaced, torn>>

\* save_checkpoint: the file, then the row.
SaveFile(t, m) ==
    /\ Begin(t, "saveRow", m)
    /\ ckpt' = ckpt \union {m}
    /\ UNCHANGED <<db, copy, replaced, torn>>

SaveRow(t) ==
    /\ On(t, "saveRow", "idle")
    /\ Write("models", view["models"] \union {arg[t]})
    /\ UNCHANGED <<ckpt, copy, replaced, torn>>

-----------------------------------------------------------------------------
(***************************************************************************)
(* create and export_state_bundle.                                         *)
(***************************************************************************)

\* Variant of After: the checkpoints are copied first.
AfterFilesFirst(kind) ==
    [idle |-> "copyFiles", copyFiles |-> "copyDb", copyDb |-> "copyRest",
     copyRest |-> IF kind = "bundle" THEN "manifest" ELSE "insert",
     manifest |-> "insert", insert |-> "log"]

\* Variant of After: the row is inserted first.
AfterRowFirst(kind) ==
    [idle |-> "insert", insert |-> "copyDb", copyDb |-> "copyRest", copyRest |-> "copyFiles",
     copyFiles |-> IF kind = "bundle" THEN "manifest" ELSE "log", manifest |-> "log"]

\* Variant of After: the manifest describes the database before the copy.
AfterManifestFirst(kind) ==
    [idle |-> IF kind = "bundle" THEN "manifest" ELSE "copyDb", manifest |-> "copyDb",
     copyDb |-> "copyRest", copyRest |-> "copyFiles", copyFiles |-> "insert", insert |-> "log"]

\* The steps of create and of export_state_bundle: which one follows.
After(kind) ==
    [idle |-> "copyDb", copyDb |-> "copyRest", copyRest |-> "copyFiles",
     copyFiles |-> IF kind = "bundle" THEN "manifest" ELSE "insert",
     manifest |-> "insert", insert |-> "log"]

CopyStep(t, label) ==
    /\ pc[t] = label
    /\ On(t, label, After(copy[arg[t]].kind)[label])
    /\ UNCHANGED ckpt

NewCopy(t, c, kind) ==
    /\ Begin(t, After(kind).idle, c)
    /\ copy[c] = NoCopy
    /\ copy' = [copy EXCEPT ![c].kind = kind]
    /\ UNCHANGED <<db, ckpt, replaced, torn>>

\* The pages of S that f has.
Part(f, S) == [p \in DOMAIN f \intersect S |-> f[p]]

\* shutil.copy2 of the main file: its first part, and later the rest.
CopyDb(t) ==
    /\ CopyStep(t, "copyDb")
    /\ copy' = [copy EXCEPT ![arg[t]].image = Part(file, Front)]
    /\ torn' = (torn \/ \E u \in Threads : pc[u] \in Writing)
    /\ UNCHANGED <<db, replaced>>

CopyRest(t) ==
    /\ CopyStep(t, "copyRest")
    /\ copy' = [copy EXCEPT ![arg[t]].image = Overlay(@, Part(file, Pages \ Front))]
    /\ torn' = (torn \/ \E u \in Threads : pc[u] \in Writing)
    /\ UNCHANGED <<db, replaced>>

CopyFiles(t) ==
    /\ CopyStep(t, "copyFiles")
    /\ copy' = [copy EXCEPT ![arg[t]].files = ckpt]
    /\ UNCHANGED <<db, replaced, torn>>

\* The manifest describes the connection's view, not the file that was copied.
BuildManifest(t) ==
    /\ CopyStep(t, "manifest")
    /\ copy' = [copy EXCEPT ![arg[t]].manifest =
                    [chain |-> view["audit"],
                     current |-> CURRENT_SCHEMA_VERSION \in schema.versions]]
    /\ UNCHANGED <<db, replaced, torn>>

\* The table may be missing when an older snapshot was just restored.
InsertRow(t) ==
    /\ CopyStep(t, "insert")
    /\ Table(IF copy[arg[t]].kind = "bundle" THEN "state_bundles" ELSE "backups") \in schema.objs
    /\ Write("copies", view["copies"] \union {arg[t]})
    /\ UNCHANGED <<copy, replaced, torn>>

-----------------------------------------------------------------------------
(***************************************************************************)
(* restore, verify_state_bundle and import_state_bundle.                   *)
(***************************************************************************)

\* What verify_state_bundle returns: it looks at the manifest only.
Ok(c) == copy[c].manifest.current /\ copy[c].manifest.chain = "ok"

Restore(t, c) ==
    /\ Begin(t, "replaceDb", c)
    /\ c \in view["copies"]
    /\ copy[c].kind = "backup"
    /\ UNCHANGED <<db, ckpt, copy, replaced, torn>>

Verify(t, c) ==
    /\ Begin(t, "logVerify", c)
    /\ c \in view["copies"]
    /\ copy[c].kind = "bundle"
    /\ UNCHANGED <<db, ckpt, copy, replaced, torn>>

\* The verify endpoint ends here; an import goes on if the bundle is ok.
LogVerify(t) ==
    /\ \/ On(t, "logVerify", "idle")
       \/ On(t, "logVerify", "again") /\ Ok(arg[t])
    /\ LogEntry
    /\ UNCHANGED <<ckpt, copy, replaced, torn>>

\* The row is read again; without apply, or without the row, that was all.
ReadAgain(t) ==
    /\ \/ On(t, "again", "idle")
       \/ On(t, "again", "replaceDb") /\ arg[t] \in view["copies"]
    /\ UNCHANGED <<db, ckpt, copy, replaced, torn>>

\* shutil.copy2 over the main file: opening it for writing truncates it, then
\* comes its first part, and later the rest.  The open connection and the log
\* are not told.
ReplaceDb(t) ==
    /\ On(t, "replaceDb", "replaceFront")
    /\ file' = NoFrames
    /\ replaced' = TRUE
    /\ UNCHANGED <<wal, flushed, view, ckpt, copy, torn>>

ReplaceFront(t) ==
    /\ On(t, "replaceFront", "replaceRest")
    /\ file' = Overlay(Part(copy[arg[t]].image, Front), file)
    /\ UNCHANGED <<wal, flushed, view, ckpt, copy, replaced, torn>>

ReplaceRest(t) ==
    /\ On(t, "replaceRest", IF copy[arg[t]].kind = "bundle" THEN "replaceFiles" ELSE "log")
    /\ file' = Overlay(Part(copy[arg[t]].image, Pages \ Front), file)
    /\ UNCHANGED <<wal, flushed, view, ckpt, copy, replaced, torn>>

\* Variant of ReplaceFiles: the directory is replaced.
ReplaceFilesOnly(t) ==
    /\ On(t, "replaceFiles", "mark")
    /\ ckpt' = copy[arg[t]].files
    /\ UNCHANGED <<db, copy, replaced, torn>>

\* copytree with dirs_exist_ok: adds, and removes nothing.
ReplaceFiles(t) ==
    /\ On(t, "replaceFiles", "mark")
    /\ ckpt' = ckpt \union copy[arg[t]].files
    /\ UNCHANGED <<db, copy, replaced, torn>>

\* UPDATE state_bundles: the row is there only if the connection still sees it.
Mark(t) ==
    /\ On(t, "mark", "log")
    /\ IF arg[t] \in view["copies"] THEN Write("copies", view["copies"]) ELSE UNCHANGED db
    /\ UNCHANGED <<ckpt, copy, replaced, torn>>

-----------------------------------------------------------------------------
(***************************************************************************)
(* SQLite, exceptions, and the server's life.                              *)
(***************************************************************************)

MigrationStep == Migrate /\ UNCHANGED <<ckpt, copy, local, replaced, torn>>

StartServer == (Start \/ StartRaises) /\ UNCHANGED <<ckpt, copy, local, replaced, torn>>

SqliteStep ==
    /\ phase = "up"
    /\ Checkpoint \/ \E p \in Pages : Evict(p)
    /\ UNCHANGED <<mig, ckpt, copy, local, replaced, torn>>

\* A directory without a row is never read: it counts as not made.
Abandon(S) ==
    copy' = [c \in Copies |-> IF \E t \in S : arg[t] = c /\ pc[t] \in Begun THEN NoCopy ELSE copy[c]]

\* The disk is full, a file is gone, a table is missing.
Raise(t) ==
    /\ pc[t] # "idle"
    /\ On(t, pc[t], "idle")
    /\ Abandon({t})
    /\ torn' = (torn \/ pc[t] \in Writing)
    /\ UNCHANGED <<db, ckpt, replaced>>

\* uvicorn lets the requests finish; the entry that lifespan writes before is an
\* OtherRequest.
Stop ==
    /\ phase = "up"
    /\ \A t \in Threads : pc[t] = "idle"
    /\ Leave("down")
    /\ Close
    /\ UNCHANGED <<ckpt, copy, local, replaced, torn>>

Crash ==
    /\ phase # "down"
    /\ Leave("down")
    /\ Lose
    /\ pc' = [t \in Threads |-> "idle"]
    /\ arg' = [t \in Threads |-> Nothing]
    /\ Abandon(Threads)
    /\ torn' = (torn \/ \E t \in Threads : pc[t] \in Writing)
    /\ UNCHANGED <<ckpt, replaced>>

Next ==
    \/ StartServer \/ MigrationStep \/ SqliteStep \/ Stop \/ Crash
    \/ \E t \in Threads :
        \/ Log(t) \/ OtherRequest(t) \/ SaveRow(t)
        \/ \E m \in Models : SaveFile(t, m)
        \/ \E c \in Copies, kind \in {"backup", "bundle"} : NewCopy(t, c, kind)
        \/ CopyDb(t) \/ CopyRest(t) \/ CopyFiles(t) \/ BuildManifest(t) \/ InsertRow(t)
        \/ \E c \in Copies : Restore(t, c) \/ Verify(t, c)
        \/ LogVerify(t) \/ ReadAgain(t) \/ ReplaceDb(t) \/ ReplaceFront(t) \/ ReplaceRest(t)
        \/ ReplaceFiles(t) \/ Mark(t) \/ Raise(t)

Spec == Init /\ [][Next]_vars

-----------------------------------------------------------------------------

Values(p) ==
    CASE p = "schema" -> [objs : SUBSET UNION {StatementsOf(m) : m \in 1..CURRENT_SCHEMA_VERSION},
                          versions : SUBSET (1..CURRENT_SCHEMA_VERSION)]
      [] p = "models" -> SUBSET Models
      [] p = "copies" -> SUBSET Copies
      [] p = "audit" -> {"ok", "broken"}

Partial(f) == DOMAIN f \subseteq Pages /\ \A p \in DOMAIN f : f[p] \in Values(p)
Whole(f) == DOMAIN f = Pages /\ Partial(f)

\* Types: the pages of every file and of the connection's view hold rows of
\* their tables, and a thread at work knows what on.
TypeOK ==
    /\ Partial(file) /\ Whole(view) /\ Partial(wal)
    /\ flushed \in BOOLEAN /\ replaced \in BOOLEAN /\ torn \in BOOLEAN
    /\ phase \in {"down", "migrating", "up"}
    /\ ckpt \subseteq Models
    /\ pc \in [Threads -> Labels]
    /\ arg \in [Threads -> Models \union Copies \union {Nothing}]
    /\ \A c \in Copies :
        /\ copy[c].kind \in {"none", "backup", "bundle"}
        /\ Partial(copy[c].image)
        /\ copy[c].files \subseteq Models

\* The next start can finish, whatever a crash or an older snapshot left: there
\* is a database to read, unless a restore was cut off while it wrote the file
\* (manager.py:48, 201), and no statement of migrate() raises for what it finds.
StartCanFinish ==
    /\ StatementsCanRun
    /\ phase = "down" /\ ~torn => Readable

\* A listed backup or bundle that holds a model's row with a checkpoint has the
\* checkpoint too, although the rows are copied first and models are saved
\* meanwhile (manager.py:29-31, 112-114).
SnapshotHasCheckpoints ==
    \A c \in view["copies"] :
        "models" \in DOMAIN copy[c].image => copy[c].image["models"] \subseteq copy[c].files

\* No model loses its checkpoint: neither restores, which write rows of another
\* day, nor the log, which may bring later rows back, name a missing file
\* (manager.py:202, the import adds to the directory).
RowsHaveFiles == view["models"] \subseteq ckpt

\* What is listed is complete, whatever crash or exception cut a copy off
\* (manager.py:32 and 119, the row is the last thing written); a database file
\* that a restore is writing, or left unfinished, is copied as it is.
ListedIsComplete ==
    \A c \in view["copies"] :
        /\ torn \/ DOMAIN copy[c].image = Pages
        /\ copy[c].kind = "bundle" => copy[c].manifest # NoManifest

\* A bundle that verifies holds a chain that verifies, although the manifest
\* describes a later state than the file that was copied (manager.py:171),
\* until the database file is written over.
VerifiedChain ==
    \A c \in view["copies"] :
        copy[c].kind = "bundle" /\ Ok(c) /\ ~replaced => copy[c].image["audit"] = "ok"

\* "a whole OmniAI state can be verified, ported, and restored later"
\* (manager.py:4-5): when an import has written the database file, and no other
\* request is under way, a clean restart finds the models of the bundle.
RestoreGivesBack ==
    \A t \in Threads :
        pc[t] = "replaceFiles" /\ ~torn /\ (\A u \in Threads \ {t} : pc[u] = "idle")
            => Overlay(IF flushed THEN NoFrames ELSE wal, file)["models"] = copy[arg[t]].image["models"]
=============================================================================
