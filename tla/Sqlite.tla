-------------------------------- MODULE Sqlite --------------------------------
(***************************************************************************)
(* What the backend relies on of SQLite in WAL mode (database.py:21): a    *)
(* main file, a write-ahead log beside it, and the connection's view of    *)
(* both.  A table and its indexes are one page here.  A commit appends a   *)
(* frame to the log; a checkpoint copies the frames into the file and      *)
(* leaves them in the log, where the next commit overwrites them.          *)
(***************************************************************************)
EXTENDS Integers, Sequences, FiniteSets

VARIABLES
    file,      \* the main file: page -> value; cut short, it lacks pages
    wal,       \* the log: the last frame of each page that has one
    flushed,   \* the log was checkpointed since the last commit
    view       \* what the connection sees: page -> value

db == <<file, wal, flushed, view>>

Pages == {"schema", "models", "copies", "audit"}

NoFrames == [p \in {} |-> {}]

Overlay(w, f) == [p \in DOMAIN w \union DOMAIN f |-> IF p \in DOMAIN w THEN w[p] ELSE f[p]]

EmptyDatabase ==
    [p \in Pages |-> CASE p = "schema" -> [objs |-> {}, versions |-> {}]
                       [] p = "audit" -> "ok"
                       [] OTHER -> {}]

\* The file and the log hold every page between them.
Readable == DOMAIN Overlay(wal, file) = Pages

\* The pages that a reader takes from the log.
Live == IF flushed THEN {} ELSE DOMAIN wal

\* One statement and its commit.
Write(p, v) ==
    /\ view' = [view EXCEPT ![p] = v]
    /\ wal' = [q \in Live \union {p} |-> IF q = p THEN v ELSE wal[q]]
    /\ flushed' = FALSE
    /\ UNCHANGED file

\* A commit that finds the log long checkpoints it.
Checkpoint ==
    /\ Live # {}
    /\ file' = Overlay(wal, file)
    /\ flushed' = TRUE
    /\ UNCHANGED <<wal, view>>

\* The connection reads a page that it had cached from the file again.
Evict(p) ==
    /\ p \in DOMAIN file \ Live
    /\ view[p] # file[p]
    /\ view' = [view EXCEPT ![p] = file[p]]
    /\ UNCHANGED <<file, wal, flushed>>

\* What the next open finds in the file f and the log w. A file of length zero
\* is a new database, and the log that lies beside it is dropped.
Reopen(f, w) ==
    /\ file' = IF DOMAIN f = {} THEN EmptyDatabase ELSE f
    /\ wal' = IF DOMAIN f = {} THEN NoFrames ELSE w
    /\ flushed' = FALSE
    /\ view' = IF Readable' THEN Overlay(wal', file') ELSE view

\* The last connection closes: a checkpoint, and the log is deleted.
Close == Reopen(Overlay(IF flushed THEN NoFrames ELSE wal, file), NoFrames)

\* The process ends without closing: the next open finds every frame in the
\* log valid, those that were checkpointed too.
Lose == Reopen(file, wal)
=============================================================================
