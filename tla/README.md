# Omniai in TLA+

TLA+ models of the Omniai backend (`src/backend/app`), the TLC configurations
that check them on small instances, and TLAPS proofs of what matters most for
every instance. Paths below are relative to `src/backend/app` unless they say
otherwise. `PROJECT.json` maps every definition to the lines it translates and
lists the runs, the mutants of each property, the hazards and the theorems.

## 1. The system

Omniai is a personal AI server with one owner. A small neural model is trained
in cycles by an orchestrator; a candidate that passes the regression gate is
put before the owner, who approves it; chat always answers with the *current*
model. Around that core sit owner sessions, a tamper-evident audit log, owner
controls with a kill switch, budgets, tools, a code-patching agent, memory,
state bundles, schema migrations, and an Android client.

**Concurrency.** FastAPI runs the `def` endpoints in a thread pool; the
orchestrator adds one background thread, the GPU worker another. All share one
SQLite connection. `database.py` takes one lock around each `execute` and
`query` and commits after each `execute`: **one statement is atomic, two
statements never are.** There is no transaction anywhere over more than one
statement. So in every module here one statement is one step, a call is a
thread whose `pc` walks from statement to statement, the call's Python locals
are variables of their own, and a crash may come between any two steps: it
erases the calls and leaves the committed rows. The one exception to the thread
pool is `require_owner`, an `async def` that never awaits: it runs on the event
loop and so never beside another instance of itself.

| component | state | operations | makes it correct |
|---|---|---|---|
| Model registry `models_core/registry.py` | table `models` (status, approved_at, metrics, checkpoint) | register_model, save_checkpoint, adopt_model, rollback, mark_rejected | one current model, never none once there was one; the best old model is kept for rollback |
| Approvals `approval/system.py` | table `approvals` | request, decide, execute_if_approved | nothing the owner did not decide takes effect |
| Training cycle `orchestrator/core.py`, `training/trainer.py` | tables `training_cycles`, `datasets`, `training_samples`; the loop's thread and stop flag | run_cycle, bootstrap, start/stop/halt | only a trained, tested candidate reaches the owner; the loop ends when told to; cycle and version numbers are unique |
| Evaluation gate `evaluation/engine.py` | table `evaluations` | full_eval, compare_models | a candidate that regresses is never adopted |
| Audit chain `security/audit.py` | table `audit_log` | log, verify_chain | append-only; verifies exactly when nobody tampered |
| Sessions `security/sessions.py`, `auth.py` | table `sessions` | create, verify, revoke, revoke_device, cleanup | the cap per device, finality of revocation, expiry |
| Login rate limit `security/rate_limit.py` | attempts per address | allowed, record, clear | a bound on attempts per window |
| Controls, kill switch, emergency stop `security/policy.py`, `database.py`, `api/routes.py` | table `controls` | set_controls, kill_switch, emergency_stop, emergency_resume | after a stop nothing starts until the owner says so |
| Budget `security/budget.py`, `tools/external_models.py` | budget_spent, table `costs` | check, charge | spent equals the recorded costs and stays within the limit |
| Tool gateway `tools/gateway.py` | table `tool_audit` | call | no call while the kill switch is on |
| Migrations `migrations/manager.py` | schema, table `schema_migrations` | migrate | each step takes effect once and in order, over restarts |
| Backups and bundles `backup/manager.py` | files, database file and its log | backup, restore, export, verify, import | what is restored is one consistent state |
| Coding agent, self-improvement `agents/*.py` | source files, backups | propose, apply, rollback | a patch that fails its tests leaves no trace |
| Memory, knowledge `memory/store.py`, `knowledge/base.py` | memories, documents | remember, pin, ingest, search | pinned memories survive, no document twice |
| LLM engine `llm/engine.py` | the loaded model | load, unload, generate, stream | nothing runs on a model being unloaded |
| Sandbox `sandbox/runner.py` | child processes | run_python, run_pytest | every child ends, by itself, by time or by the kill switch |
| GPU worker `workers/gpu_worker.py` | job queue, thread | start, submit, shutdown | no call site submits a job: its queue is always empty |
| HTTP API, Android client, metrics, scripts | - | - | the endpoints are the operations above; the client calls them |

**Interactions.** chat, the cycle endpoint and the background loop all reach
`run_cycle`/`_bootstrap_seed_model`; those write the registry through the
trainer and raise approvals; the approvals endpoint decides and executes, and
`execute` calls `registry.adopt_model`. Everything writes the audit log. The
controls are read at the start of work and hardly ever again. Bundles copy the
database and the checkpoints, and an import checks the audit chain in them.

**What is hard**: read-then-write over two statements (adopt_model, rollback,
decide, audit.log, create's trim, verify, set_controls, charge, cycle numbers,
the memory cap, ingestion); crashes between two commits (swap of the current
model, row and checkpoint, INSERT and trim, migration script and version row);
calls that may legally be repeated (execute); time (expiry against a touch);
a stop request that races a start or a running cycle.

## 2. Modules

| module | models | composed from |
|---|---|---|
| `ModelRegistry` | the registry: rows, `adopt_model`, `rollback` | |
| `Promotion` | training cycle, bootstrap and approvals around the registry | EXTENDS `ModelRegistry`, refines `ProductionCell` |
| `ProductionCell` | what the registry promises while its swaps are undisturbed (abstract) | |
| `AuditLog` | `audit.log`, `verify_chain` | refines `AppendOnlyLog` |
| `AppendOnlyLog` | what an audit log promises (abstract) | |
| `Sessions` | session life cycle | |
| `Controls` | the controls and the endpoints that write them | |
| `Runtime` | background loop, requested cycles, start, stop and halt | EXTENDS `Controls` |
| `Sqlite` | what the backend relies on of SQLite in WAL mode (external): the file, its log, the connection's view | |
| `Migrations` | the migrations of every start, statement by statement | EXTENDS `Sqlite` |
| `Bundles` | backups, bundles, restores and imports around checkpoints and the log; stops and crashes | EXTENDS `Migrations` |
| `CodeChange` | drafted, approved, applied, tested and rolled-back patches of the server's source | |
| `Memory` | memories, the short-term cap, ingestion | |
| `RateLimit` | the login rate limit between the threads of the login endpoint | |
| `Budget` | check and charge around the work they pay for | |
| `TrainingCycle` | the data of a cycle: cycle numbers, samples, data set versions, the model's row | |
| `EvaluationGate` | `compare_models` and the scores of `full_eval`, over chains of adoptions | |
| `LLMEngine` | the one language model in memory: load, unload, stream | |
| `Sandbox` | running code: child, poll loop, deadline, kill switch, pipes; the tool gateway around it | |
| `OwnerApp` | the Android app's decision on an approval, and the two requests it makes | |
| `MC...` | the instances TLC checks: scores, request bodies, documents, symmetry | `MCServices`, `MCProgress`: several modules |
| `..._proofs` | the theorems; `Services_proofs` has those of the last seven | |

`MCServices` and `MCProgress` are *sums*: a variable `part` says which module a
behaviour is about, and the others stay in one initial state. The modules put
together in this way share no state, and each property is about the state of
one module, so that a product would check nothing that the sum does not.

A definition whose comment says *Variant of X* is not part of the model: it is
a plausible bug in the code that X models, and breaks a property when it is put
in X's place (`mutants` in `PROJECT.json`). Every property has one.

### ModelRegistry and Promotion

`status`, `promoted` (approved_at is set), `score` (the stored overall metric)
and `checkpoint` are columns of `models`, numbered in the order of created_at;
`approval` is the approvals table, identified with its candidate because a
cycle raises exactly one. `seed` says that a bootstrap trained the model. `pc`,
`target`, `curRow` and `bestRow` are the calls in flight and their locals.

`adopt_model` is six steps, as in the code: read the current row, read the best
one, archive the current, archive the best, name the better of the two the best
historical one (by the scores *read before*), promote the candidate. `rollback`
is three. `RunCycle`, `Baseline`, `Register`, `SaveCheckpoint`, `Test`,
`Compare`, and then `RequestApproval` or `Reject`, are `run_cycle`; `Bootstrap`,
`Register`, `SaveCheckpoint`, `Test` and the adoption are the bootstrap.
`compare_models` is a free choice between the last two; what it computes is in
`EvaluationGate`, and what a cycle's data goes through in `TrainingCycle`. `CycleRaises` is any exception on the way.
`DecideRead`/`DecideWrite` are `decide`, whose UPDATE has no condition, and
`Execute` is `execute_if_approved`, which may be repeated.

`past` is history: whether two swaps ever overlapped or a crash tore one. Some
properties hold only before that, and say so.

- `OneProduction`: no two current and no two best models while swaps neither
  overlap nor are torn. After an overlap there really can be two: nothing
  serialises adoptions (hazard at registry.py:193).
- `ProductionKept`: whatever overlaps, without a torn swap the registry never
  rests without a current model once one was promoted, except when the cycle
  rejects a candidate the owner had already rolled back to.
- `ApprovableIsTrained`: every approval names a candidate that was trained,
  saved and not rejected, over crashes and exceptions.
- `OwnerDecides`: a candidate becomes current only as a seed, after a decision
  of the owner, or because a rollback names it.
- `AdoptKeepsBest`: after an adoption the better of the two old models is *the*
  best historical one, unless it is the adopted model itself: `execute` repeated
  after a rollback can do that, and then there is nothing to roll back to.
- `SwapsAreAtomic`: as long as swaps neither overlap nor are torn the registry
  implements `ProductionCell`, where the current and the best model change in one
  step. The mapping shows what a swap has archived (`curRow`, `bestRow`) until it
  promotes, and from then on what the rows say. Nothing that runs beside a swap
  leaves a mixture of before and after.
- `ProductionReturns` (liveness): a registry caught without a current model gets
  one again.
- `SeedIsFirst` (an action property about the moment a call sets out to bootstrap;
  violated, section 5).

### AuditLog

`rows` is the table, `last` what each caller has read, `busy` the callers
between SELECT and INSERT. A hash is the seq and time it was computed from and
the time of the row whose hash went in, which identifies that row: SHA-256 has no
collisions here, and no two entries share a time stamp. `LogInsert` hashes a
seq *predicted* from the row read and stores the one the table assigns, as the
code does. `ChainOk` is `verify_chain`.

- `BreakNamesRace`: a chain that does not verify contains two rows built on the
  same predecessor. That is, only a race breaks it, no crash does.
- `AppendOnly`: races or not, the table implements `AppendOnlyLog` (only grows,
  at its end, no entry twice). The refinement maps each row to its time stamp.
  So a chain that is broken once stays broken (`BreaksStay`, a theorem only).
- `NoFalseAlarm` (violated, section 5).

### Sessions

`row`, `device`, `created` and `seen` are the columns of `sessions`; `clock` is
time.time(). `create` is five steps: cleanup, taking created_at, INSERT, the
trim's SELECT, and one UPDATE for each row it found. `verify` is one process,
for the reason given above, of up to four steps: cleanup, SELECT, the decision
on the row *as it was read*, and the touch or the revocation. `revoke`,
`revoke_device` and `get` are one statement each besides the cleanup, whose own
statement is idempotent and is folded into `Get` and `VerifyBegin`. The controls
that set the three limits are constants. A crash forgets the calls; `cut`
remembers the devices whose trim it cut off.

- `CapHolds`: once none of a device's logins is on its way, it has no more live
  sessions than the limit, unless a crash cut a trim since.
- `NoLateEntry`: a request whose session was revoked, expired or idle when the
  request came is not let in, although verify decides from an old row.
- `EndsForAReason`: a live session ends by logout, with its device, by time, or
  because the device has as many *newer* logins as the limit. A login never
  throws out a newer one although trims work from stale lists.

`RevokedStays`, that nothing revives a revoked session, is a theorem only: no
single slip of the code breaks it, for no statement writes a zero.

### Controls and Runtime

`kill` and `on` are the rows of `controls` that decide whether training runs.
`SetControls` is the validation, one reading of the controls, and `WriteControl`
each write after it; a key `set_control` does not know passes the validation and
raises in between (`WriteUnknown`). `EmergencyStop`, `StopTraining`, `StopAuto`
and `EmergencyHalt` are `emergency_stop`, statement by statement.

A loop is the thread that `start_background` creates: `LoopTest`, `LoopRead`,
`LoopGate` (run_cycle reads the controls again), `LoopTrained`, `LoopSlept`. `stop`
and `thread` are the orchestrator's `_stop` and `_thread`. `start_background` is
four steps: is `_thread` alive, clear the flag, assign a new thread, start
*whatever `_thread` is by then*. `Chat` is a chat that finds no current model and
begins the cycle of a seed, with no control between; `current` is whether the
registry shows one, which swaps change as they like (`Registry`). Joining a loop for a second changes nothing and
may end either way, so it is no step. A crash loses the loops and the flag and
keeps the controls.

- `OnlySeedsAfterStop`: once an emergency stop has disabled training and while the
  kill switch stays on, no cycle begins, whoever read the controls before, except
  the seed of a chat, which asks no control. The other exception is named by the
  history variable `overtaken`: a set_controls call that had been validated, and
  not written, when the switch went on.
- `OneLoop`: two loops only live after two starts that ran at once.
- `WorkDrains` (liveness): cycles of `run_cycle` that were training when the stop
  came end.
- `LoopsEnd` (liveness): a stop that no start takes back ends every loop, also
  one `_thread` no longer names.
- `KillBlocksWork` (violated, section 5).

### Sqlite, Migrations and Bundles

A table is one page here, and four pages matter: `schema` (the objects that
exist, and the rows of `schema_migrations`), `models`, `copies` (the tables
`backups` and `state_bundles`) and `audit` (whether the chain verifies). `file`
is the main database file, `wal` the log, `view` what the connection sees.
`Write` is a commit; `Checkpoint` copies the log into the file and leaves its
frames in place (`flushed`) until the next commit; `Evict` is the page cache
reading a page again; `Close` and `Lose` are an orderly and an abrupt end.

`Script` lists the statements of the five migrations, a run of equal ones by its
first and its last; `IF NOT EXISTS` and `add_column_if_missing` do nothing to
what is there. `RunStatement` is one statement with its own commit;
`executescript` begins with a COMMIT of its own (`CommitFirst`);
`RecordVersion` is the version row. A crash or `MigrationRaises` may come
anywhere, and the next start runs what is not recorded.

`create` and `export_state_bundle` are `NewCopy`, `CopyDb` and `CopyRest` (a copy
of a file in two parts, between which other requests commit and SQLite
checkpoints), `CopyFiles`, `BuildManifest`, `InsertRow`, `Log`; `After` is their
order. `restore` and `import_state_bundle` are `Restore`/`Verify`, `LogVerify`,
`ReadAgain`, `ReplaceDb` (opening the file for writing, which truncates it),
`ReplaceFront`, `ReplaceRest`, `ReplaceFiles`, `Mark`, `Log`. The file
is written over *under* the open connection: `wal` and `view` stay. `torn` is
history: a restore was cut off between its first and its last write, and left a
file that is empty or cut short, or such a file was copied. A start on it makes
an empty database, or raises (`StartRaises`). `Init` is an
empty database or one of an earlier release with a copy that release made.
A directory whose row was never inserted is never read and counts as not made.

- `StartCanFinish`: no statement of a start fails for what it finds, whatever
  crash or older snapshot came before, and there is a database to read unless a
  restore was cut off while it wrote the file. After such a cut there may be
  none, and nothing in the code notices.
- `VersionMeansDone`: a version row means that its migration, and those before
  it, are really there - also after a snapshot of an older release was restored
  and log pages of a newer schema came back over it.
- `SnapshotHasCheckpoints`, `ListedIsComplete`: what is listed can be restored; a
  file that a restore is writing, or left unfinished, is copied as it is.
- `RowsHaveFiles`: no model row ever names a checkpoint that is missing.
- `VerifiedChain`: a bundle that verifies holds a database whose audit chain
  verifies, although the manifest is made from a later state; until the database
  file has been replaced once, after which the connection and the file are two
  different databases.
- `RestoreGivesBack` (violated, section 5).

### CodeChange

`fixed` is production: the set of source files that have their fix. Each patch
fixes one file. `ReadSource`, `Diff` (which reads the file *again*), `Verify` and
`Request` are `propose_fixes` for one finding; `DecideRead`/`DecideWrite` are
`decide`; `Execute` is the code_change branch of `execute_if_approved`; `Backup`
to `Restore`, and `Branch` to `Commit`, are `apply_approved_patch`. `Good` says
with which sets of fixes the test suite passes; the suite reads the files while
it runs, so `Tested` sees each file as it was when it began or when it ended.
`tree`, `index`, `head` and `tips` are the git workspace, which all requests
share. Any git command may fail unnoticed (`GitOr`): another one's lock, a lock
that a crash left, a full disk; `lost` records the approvals it happened to. `past`
records that two executions overlapped, or that one was cut off before its
tests were over (`torn`).

- `ProductionPasses`: with neither, production that nobody is changing passes
  its tests. After an overlap it need not: the backup of one call can hold the
  failing patch of the other. After a crash it need not: nothing rolls back at
  the next start.
- `OwnerApproved`: whatever overlaps or crashes, a file only ever gets a fix
  that the owner approved - also when it is a rollback that writes it.
- `BranchHoldsChange`: what was reported as applied is committed on its branch, as
  long as executions do not overlap and unless one of its own git commands failed.
  The failed commands of one approval take nothing from the branch of another,
  although a failed checkout or add leaves the shared head and index behind.

### Memory

`mem` is the table `memory` in the order of insertion, `work` the locals of each
call. `Remember`, `Insert`, `Trim` (the SELECT and the sort), `Delete` and
`LogDecay` are `remember`; decayed importance orders the rows of a trim, and is a
free choice, as is whether the owner has disabled learning. `Ingest`, `Doc`, `Piece` and `Chunk` are `ingest`, which calls
`remember` for each piece of a document. A hash stands for its text, and `Notes` are
what POST /memory and chat bring: a note may be the text of a document and then has
its hash. `ingested` (history) marks the rows that an ingestion inserted.

- `PinnedSurvive`: decay takes no pinned row, except one pinned after the trim
  had listed it.
- `CapHolds`: trims that ran at once, from lists of different times, leave at
  most the cap, or only pinned rows.
- `DeletedIsLogged`: every deleted row is named in the audit log, or its entry
  was cut off by a crash or an exception just then.
- `NoDocumentTwice`: a document of one piece is ingested once, whatever was written
  down, forgotten or trimmed meanwhile, unless two ingestions ran at once. A note
  with its text is a row of its own: `remember` compares no hashes.

### RateLimit

One address of `FixedWindowRateLimiter` under the login endpoint, its only
caller. `hits` is `_hits[key]`, `time` the clock. `allowed` reads the clock
before it takes the lock (`BeginLogin`), prunes the queue and compares under it
(`Allowed`); the token is tested between the two critical sections
(`WrongToken`, `RightToken`); `record` reads the clock again (`Stamp`) and appends
under the lock (`Record`), so the queue need not be sorted, and `Prune` takes
from its left end only; `ClearHits` is `clear`. A restart forgets everything.

- `AttemptsBounded`: within a window the owner's token can be guessed wrong at
  most `Limit - 1 + threads` times, however the requests overlap. `Limit` itself
  is not the bound: attempts in flight pass `allowed` before any of them has
  left a hit.

### Budget

`credits` and `spent` are the controls `budget_credits` and `budget_spent`,
`costs` the sum of the rows of the table `costs`. `BeginChat` and `BeginTraining`
are the two callers, `CheckEstimate` and `Exceeded` are `check`, and `CheckCharge`,
`ReadSpent`, `WriteSpent`, `InsertCost` are `charge`, four statements without a
lock. `SetCredits` and `SetSpent` are POST /controls, which takes any value for
either; from there counting begins anew. `books` is history: charges
overlapped, or a crash came between the counter and the row.

- `BooksBalance`: with neither, the counter that every check trusts is the sum
  of the recorded costs, plus the one whose row is still to come.
- `WithinCredits`: a cost recorded without an overlap keeps the sum within the
  credits its own check has read, whatever the owner sets meanwhile.

### TrainingCycle

`cycles`, `datasets`, `approved` (the rows of `training_samples`) and `models` are
the tables; `row`, `data`, `number`, `samples`, `left` and `noted` a call's locals.
`Text` says which samples have the same text for the dedup, which keeps the first
of them, and counts a `Poor` one as seen although it does not keep it.
`RunTraining` to `FinishCycle` are `run_cycle` and `_bootstrap_seed_model` with
`collect_new_data`, `clean_and_version_dataset` and `train_candidate`. Cycle and
version numbers are `MAX + 1`, read in one statement and inserted in another;
`datasets` has a UNIQUE constraint, on which the slower thread raises, and
`training_cycles` has none, so that two cycles may have one number.
`TrainAndRegister` trains on the samples of the cycle and on a replay, any of those
stored in some data set by then (`ReplayBuffer.mixed_batch`). `SwapShows` is what
the cycle sees of the registry: a swap may hide the current model at any time, so
that bootstraps begin beside other cycles.

- `VersionNamesData`: the data set that a model's row names is the one its own cycle
  stored: nothing is in it but the cycle's new samples that pass the filters, and
  every text of these is, unless a poor sample brought the same text first; and
  every usable text the model has learned, the replayed ones too, is with the same
  exception in some stored data set, where later replays find it. Whichever cycles overlap, raise
  or die.

### EvaluationGate

A report counts the cases that a model passes of each suite; `Score`, `Overall`,
`Regresses` and `Adopts` are the scores of `full_eval` and the rule of
`compare_models`, with its four thresholds and its integer rounding to four
places. `BeginCycle` takes the current model to compare with, `Verdict` reads the
best historical one when the candidate is ready, `Adopt` is the owner's approval,
at any time later, and `RollbackTo` the owner's rollback. `TrainSeed` and
`AdoptSeedOf` are a bootstrap that found no current row (the first use, twice, or
the gap of a swap): its seed is adopted with any report and over whatever is
current. `seeds` is history. How a case is answered
is a free choice; that a model answers the same way twice is assumed only as
long as `settled` says so, for the answers also depend on the knowledge base.

- `NeverForgets`: after any chain of adoptions, with cycles that overlap and a
  comparison that is out of date when the owner approves, the model in
  production passes as many cases of every suite as some adopted seed did. So only
  the adoption of a further seed can lose a case. The tolerance
  of 2 % per adoption does not add up because it is less than one case of the
  suites there are (`Cases` is at most 5; 49 would do, with 50 it is false).

### LLMEngine

`model`, `tokenizer`, `loadedKey`, `backend` are the class attributes of
`LLMEngine` and `lock` its lock; `load` and `unload` are one action for each
assignment, because `stream` reads the same attributes without the lock.
`generate`, which holds the lock throughout, reads nothing that `LoadedIsWhole`
does not speak of. A load may fail at each of its slow steps (`LoadFails`), and
what is assigned by then stays.

- `LoadedIsWhole`: whenever the lock is free, the model is that of the key, has
  its own tokenizer, and the backend that `generate` goes by is the model's,
  whatever was loaded and failed half-way before.
- `StreamIsOneModel`: a stream answers with one model and its own tokenizer, and
  ends, unless an attribute was assigned while it ran (`disturbed`). If one was it
  can mix two models, raise, or wait for ever (`StreamHangs`).

### Sandbox

`loop` is where a call of `ToolGateway.call` (`CallTool`, `AllowTool`,
`InsertAudit`) or of the sandbox endpoint (`RunDirectly`) is; `Spawn` to
`Communicate` are `run_python`. The child may end, block on a full pipe, for the
parent reads the pipes only when the loop is over, or start a process outside
its group, which keeps the pipes open (`ChildStep`). `Poll`, `Deadline` and `Switch`
are the three tests of the loop. Where the tool or its bookkeeping raises, the
gateway passes the exception on (`RunRaises`). A crash of the server leaves an orphan.

- `ReturnMeansOver`: when `run_python` returns its child is dead, it reports an
  outcome as the program's own only if the program ended by itself, and as a
  kill whenever the loop killed it, a stray process aside.
- `KillEndsChildren` (liveness): a run that the kill switch finds alive is killed
  if the switch stays on, whatever the program waits for.
- `OverdueRunsReturn` (liveness): a run whose deadline has passed returns.

### OwnerApp

`listed` is the card on the screen; each tap is a coroutine of its own (`request`,
`decision`, `waiting`), and nothing disables the card while one runs. `Tap`,
`SendExecute` and `TapEnds` are `decide` of `ViewModels.kt`; `ReadStatus`,
`WriteStatus`, `Execute` and `NotApproved` are what its two requests meet in the
server. Requests and answers can be lost, the app can stop waiting or end.

- `ApprovedIsApplied`: an approval that was given is applied once no tap is in
  progress, whatever other buttons were tapped beside it, unless a request or
  an answer was lost or the change could not be applied (`trouble`).

## 3. Runs

| run | instance | shows |
|---|---|---|
| `promotion` | 2 threads, 3 models | `OneProduction`, `ProductionKept`, `ApprovableIsTrained`, `OwnerDecides`, `AdoptKeepsBest`, `SwapsAreAtomic` |
| `progress` | `MCProgress`: `Promotion` with 2 threads and 2 models, `Sandbox` with 2 calls; fair | `ProductionReturns`; `ReturnMeansOver`, `KillEndsChildren`, `OverdueRunsReturn` |
| `seed_is_first` | as `promotion` | violation, section 5 |
| `services` | `MCServices`, bounds below | `BreakNamesRace`, `AppendOnly`; `AttemptsBounded`; `BooksBalance`, `WithinCredits`; `VersionNamesData`; `NeverForgets`; `LoadedIsWhole`, `StreamIsOneModel`; `ApprovedIsApplied` |
| `no_false_alarm` | `AuditLog`: 2 threads, 4 entries | violation, section 5 |
| `sessions` | 2 threads, 1 device, limit 1, 3 logins, 3 ticks | `CapHolds`, `NoLateEntry`, `EndsForAReason` |
| `runtime` | 2 threads, 2 loops, 3 request bodies, fair | `OnlySeedsAfterStop`, `OneLoop`, `WorkDrains`, `LoopsEnd` |
| `kill_blocks_work` | 2 threads, 1 loop | violation, section 5 |
| `bundles` | 2 threads, 1 model, 1 copy, from an empty database or one of migration 3 | the six invariants above |
| `restore_gives_back` | 1 thread | violation, section 5 |
| `code_change` | 2 threads, 2 files, 2 approvals | `ProductionPasses`, `OwnerApproved`, `BranchHoldsChange` |
| `memory` | 2 threads, 3 rows, cap 1, a document of one piece and one of two | `PinnedSurvive`, `CapHolds`, `DeletedIsLogged`, `NoDocumentTwice` |

Type invariants are no properties of a run: they are theorems, or parts of the
inductive invariants of section 4.

**Bounds.** Three models are the fewest with an old best, an old current and a
candidate at once, which is what `adopt_model` chooses between; `MCOverall`
gives them scores that are better, worse and tied. Two threads are the fewest
that race; every race in the code is between a reader and one writer, and the
theorems of section 4 hold for any number. Six audit entries and three threads
allow two separate races and entries after them. Three logins with a limit of
one make a trim that revokes two rows, and a device-less login beside it; a
lifetime of 3 and an idle time of 2 within 3 ticks let a session go idle, be
touched and expire. Two threads and two loops are the fewest for two starts at
once and a loop that `_thread` forgot; the bodies enable both controls in either
order, disable one, and hold a misspelt key. In `bundles` one copy and one model
are enough for a save that falls into a copy; migration 3 is the last release
without the bundle tables and without the newest columns of `sessions`; `Front`
puts the schema and the list of copies in the part of the file that is copied
first. Two copies at once are left to the proofs; one restore is enough to be cut
off in each of its three writes. In `code_change` each fix
passes by itself and the two together do not, so that a rollback happens beside
an applied change; two approvals let the failed commands of one leave the
workspace to the other. In `memory` three rows over a cap of one make a trim that
deletes two, and one of the notes has the text of a document.

In `services` the limiter has limit 2, a window of 2 within 3 ticks and 4
attempts, so that the window moves past a recorded attempt and both threads
guess once the limit is nearly reached. Amounts of 1 and 2 against credits of 1
and 3 make checks that pass and fail on either side of a charge. Five samples
(one of the seed, two usable ones and a poor one with one text, and a refused one)
and three cycles let a bootstrap be followed by two cycles that race for a version,
meet duplicates and replay. Two Hugging Face models and one
GGUF model are the fewest for a mix of two tokenizers and of two libraries.
Three models with suites of 2 and 1 cases are a seed and two candidates, or a
candidate and a second seed, each better or worse on either suite, that two
threads train at once. Two taps are two
buttons of one card.

`MaxApprovals`, `MaxRows`, `MaxModels`, `MaxCalls`, `MaxSessions`, `MaxTime`,
`MaxLoops`, `MaxAttempts`, `MaxCosts`, `MaxCycles` and `LastModel` only end the
behaviours; the guards that use them say *bound*. Where a bound stops everything
(`AuditLog`, in `services`), the configuration switches the deadlock check off;
in the other runs something can always happen, and TLC checks that too.
Threads are interchangeable, so the safety runs use symmetry; the runs that check
liveness do not.

**Fairness.** `progress` (for `Promotion`) and `runtime` assume weak fairness of
`Continue(t)`, that a thread in the middle of a call is scheduled until it
returns, and `runtime` the same of each loop: a cycle ends (its epochs and suites
are counted loops) and so does a sleep. The statements neither block nor wait for each other (the database's
lock is held for one statement), so that is what an operating system's scheduler
gives. No call is assumed ever to begin. `ProductionReturns` is weakened by
`past = "torn"` because after a crash nobody is left to finish the swap.
For `Sandbox` weak fairness of `SandboxStep(t)` is the same assumption, that the
thread of a call is scheduled; each of its statements returns (`communicate` has
a time limit). Nothing is assumed of the program, which may do nothing for ever,
nor of the deadline, which may never come, nor of the owner.

## 4. Proofs

TLAPS proves the following for every number of threads, models, entries,
devices, every limit and every score; the only assumptions are the named
`ASSUME`s on the constants, which say that bounds are numbers and that the
limits are positive. TLC evaluates them in every run.

**Promotion_proofs** - `TypeCorrect`, `AlwaysOne`, `AlwaysKept`,
`SeedsComeFromGaps`, `AlwaysTrained`, `AlwaysOwner`, `BestIsKept`,
`SwapsRefineTheCell`.
`OneProduction` is not inductive: from a state with one current model a thread
that holds an outdated `curRow` could promote a second. The invariant adds what
a thread knows at each label of a swap while `past` is clean: that it is alone
in one, that the row it read is still the current one, that after the archive
there is no current one until the promotion. `ProductionKept` needs that every
thread past its archive has a target that was registered, and that a thread
before it still leaves a current row. `OwnerDecides` is proved from an
invariant that ties a thread in adopt_model to an approval that was decided, or
to a seed; `ApprovableIsTrained` from one that ties every label of a cycle to
what it has done to its candidate, and that the candidates of two cycles are
distinct.
`SeedsComeFromGaps` is the other side of the violated `SeedIsFirst`: without a
crash or a late rejection a bootstrap that begins when a model has been in
production begins inside another thread's swap: short of these two the violation has no
other source.
`BestIsKept` and `SwapsRefineTheCell` need `HeirInv`: until it archives them the
rows that a swap has read are still the current and the best one (`Stands`, where
`Clean` only says that there is no *other*), and before the promotion the
better of the two is the one best historical row, or there is none if none was
read (`HeirPlaced`). `OutsideSwaps` says once what all steps outside a swap leave
alone. The refinement is then shown step by step: the statements before the last
one leave the mapped cell as it is (`AdoptHides`, `RollbackHides`), the last one
is a step of it (`AdoptShows`, `RollbackShows`), and overlaps and crashes are its
`Disturb`.

**AuditLog_proofs** - `TypeCorrect`, `OnlyARaceBreaks`, `BreaksStay`,
`LogIsAppendOnly`.
The invariant `ChainInv` says that row *i* has seq *i* and time *i*, that the
row's hash was computed from the prev_hash it stores (with whatever seq was
predicted), and that each reader's `last` is an earlier state of the table's end.
A row whose link is wrong was then built on an earlier row than the one before
it; the first such row shares its predecessor with the row that was built on
it in its turn, which is the race `BreakNamesRace` names. The argument takes a
least bad row, with `WFMin` of the library.

**Sessions_proofs** - `TypeCorrect`, `RevocationIsFinal`, `NobodyComesLate`,
`EveryEndHasAReason`, `TheCapHolds`.
`Base` places each session with the thread that creates it. `LateRevoked` says
that a verify whose session was over before it came finds it revoked by its own
cleanup: that is why deciding from the old row is harmless. `RevokeDue` says
that every id in a trim's list still has at least the limit of newer rows on its
device: rows never disappear, so a stale list stays valid. `CapInv` says of a
device with no crash in between that the live rows not yet listed in some trim
are within the limit as soon as no login is before its own SELECT (`Settled`);
when the last list is worked off the cap follows.

**Runtime_proofs** - `TypeCorrect`, `StopHolds`, `OneLoopOnly`.
`StopInv` says that with the kill switch on and nothing overtaken no call has an
enabling write left: set_controls validated with the switch off, and when it
went on the call was overtaken. So nothing can write training back, and every
cycle but a chat's seed asks for it when it begins. `LoopInv`
says that without two starts at once only one start is on its way, that no loop
lives meanwhile, and that a loop that lives is the one `_thread` names.

**Bundles_proofs** - `Invariance`, `Completeness`, `SnapshotsHoldCheckpoints`,
`NoCheckpointLost`, `VersionsMeanDone`, `StartsCanFinish`, `ChainOrder`,
`VerifiedChainHolds`, `ListedCopiesStay`, for any number of threads, models and copies and any cut of
the file into two parts. A list of copies can come back from anywhere: the file,
the log, or the image inside an older copy. So the invariant says the same of
*all* of them: every page image (`PagesOk`) lists only copies that are complete
(`Done`) and models that have a checkpoint. It is preserved because both sets
only grow: a copy is complete before its row is inserted and never changed
afterwards, and checkpoints are added and never removed. `ThreadInv` ties each
label of a copy to what it has copied so far, and `Working` keeps two calls off
one directory. A copy in that set is never changed again (`ListedCopiesStay`).
The schema is a page like the others: every image of it has the version rows of a
prefix of the script and all the statements of these migrations (`SchemaOk`), for
statements only add and a version row is written after them. `MigInv` says how far migrate() is in its
script, whose statements need nothing that earlier ones do not create
(`ScriptNeeds`, read off the script once). `VersionsMeanDone` and
`StartsCanFinish` follow, from whatever schema a crash or a restore left; the
latter also from `FileInv`, which says that a page is missing from the file only
while a restore writes it or after one was cut off.
`ChainInv` puts the places that hold the audit chain in order, as long as no file
was written over: the image of a copy is not ahead of the file, the file not
ahead of what the connection sees, a manifest not behind its image. So
`VerifiedChainHolds`: the file is copied first and the chain verified afterwards, in
what the connection sees by then. A chain never mends, so one that verifies late
verified when its file was copied.

**CodeChange_proofs** - `TypeCorrect`, `ProductionSafe`, `OnlyApproved`, `BranchesHold`, for any
threads, files and test suite (`Good` is any set of sets of fixes that has the
empty one). `OwnInv` ties an execution to an approval that was decided, and its
backup to the one file of that approval, so that a rollback cannot bring in
anything else. `PassInv` says, while nothing overlapped or was torn, that at most
one execution is on its way and what it knows at each label: that the backup is
what production was, that without the patch the tests passed, that the test run
saw one and the same production. `BranchInv` needs only that nothing overlapped:
it holds after a call was cut off too, when production holds a patch that was
never tested. It says that what was applied is still in production (`Kept`), that
the file a call changes belongs to no applied approval, so that its rollback
takes nothing away and an approval applied twice stops at the dry run, and that
from the checkout on `head` is the call's own branch unless the checkout failed,
whatever was left checked out. `Kept` also says that the workspace and the index
hold what other approvals have applied, as far as their commands took effect: a
commit on a branch that a failed checkout left behind takes nothing from it.

**Memory_proofs** - `TypeCorrect`, `NothingIsSilent`, `TheCapHolds`,
`DecaySparesPinned`, `NoDuplicates`, for any threads, rows, cap and documents.
`MemInv` ties each call to its locals (`ThreadInv`), and `CapInv` counts the short
term rows that no trim's list names: they are within the cap, or none of them may
be deleted, once nobody is about to list rows. Lists of different times may name
the same row, or one that is gone, so that the lists themselves bound nothing.
`DocsInv` says, until two ingestions overlapped, that a document of one piece that
an ingestion has stored is among the hashes the ingestion has met, or is the one it is
storing (`IngestInv`).

**Services_proofs** - one to three theorems for each of seven modules, from an
inductive invariant of its own:
`ApprovalsApplied` (`AppInv`: an approved status that is not applied has a tap on
its way that will execute it, or there was trouble);
`RunsAreOver` (the invariant says at each label of a run what its child can be);
`AttributesFit` and `OneModelAnswers` (`EngineInv`: `LockInv`, who is past the lock
holds it; `SlotInv`, what the four attributes are at each assignment; `StreamInv`,
what an undisturbed stream has read is what is there);
`VersionsNameTheirData` (`TrainInv`: a version that was stored is never stored
again, a thread that stored it still has its samples, and `noted` has every text of
the samples it has looked at and not refused);
`SpentIsTheSum` and `ChargesFit` (`BudgetInv`: while the books are clean one thread
at most is in a charge, and the counter it read is the counter);
`AdoptionsNeverForget` (`GateInv`: every model that was adopted, is approvable, or
is compared with, passes as many cases as some seed; `NoCaseIsLost`: a drop within
the tolerance is no drop);
`GuessesAreBounded` (`RateInv`: the hits in the queue together with the threads that
were let in are at most `Limit - 1 + threads`, and each wrong attempt of the
window is in the queue, or on its way there). The last one needs that `Prune`,
which cuts at the first time inside the window of an unsorted queue, drops no
hit that is inside it.

**Model-checked only.** `ProductionReturns`, `WorkDrains`, `LoopsEnd`,
`KillEndsChildren` and `OverdueRunsReturn`, because liveness under fairness is
beyond the prover. Every other property of a run that passes is a theorem.
The violations are found by TLC.

## 5. Where the code differs from what it says

- `SeedIsFirst`. orchestrator/core.py:271: "first model is adopted automatically
  (there is nothing to regress against)". The code takes "no current row" for
  "first", and between the two commits of a swap there is no current row. A chat
  at that moment trains a fresh seed and adopts it over the model the owner
  approved. Two first uses that race, before the owner has approved anything, do not
  count: the property asks for an approved model that has been promoted when the
  call sets out.
- `NoFalseAlarm`. security/audit.py: "verify_chain() re-computes the chain to
  detect tampering". Two calls of `log` that read the same last row leave a chain
  that does not verify, though nobody tampered; bundles exported from then on are
  refused at import.
- `KillBlocksWork`. SECURITY.md:9: "Kill switch blocks new work". The switch by
  itself does not: run_cycle asks for `training_enabled` only, so a requested
  cycle, and the loop, go on training. The emergency stop disables that too.
- `RestoreGivesBack`. backup/manager.py:4: "a whole OmniAI state can be verified,
  ported, and restored later". An import copies the bundle's database over the
  main file while the connection and its log stay open. What the log holds then
  overlays the restored file: when the connection closes, or at the next start
  after a crash. The run exports a bundle, imports it with no other request under
  way, and a clean restart finds other models than the bundle's.

Further differences met while modelling, which no run is spent on:

- orchestrator/core.py:302, "CLEAN -> FILTER -> DEDUP -> QUALITY -> PRIVACY ->
  versioned store": the model is trained on the samples as they were collected
  (core.py:361), also on those that the filters kept out of the stored version.
  `VersionNamesData` therefore speaks of the usable ones.
- anti_forgetting.py:5 has the replay keep "samples from every dataset version ever
  trained on". It draws from the versions as stored, so what the filters kept out
  is trained on when it comes and never replayed.
- A chat that finds no current model trains and adopts a seed also while an emergency
  stop has disabled training (core.py:229-231): `OnlySeedsAfterStop` names it.
- A restore that is cut off leaves a truncated database file (backup/manager.py:48,
  201); the next start creates an empty database, or raises.
- POST /memory with a text that was ingested stores it again under the same hash
  (memory/store.py:30); only `ingest` compares hashes.
- SECURITY.md:11 and `SANDBOX_MAX_OUTPUT_BYTES` promise up to 512 KiB of output:
  the pipes are read only when the loop is over (sandbox/runner.py:85-94), so a
  program that writes more than a pipe holds waits for its deadline and is killed.
- compare_models compares with the model that was current when the cycle began;
  the adoption, which may come much later, does not compare again
  (evaluation/engine.py:8-11). `NeverForgets` holds all the same, against the
  adopted seeds; a bootstrap's own adoption is compared with nothing.
- A stream that has read its tokenizer when a GGUF model is loaded, and then reads
  that model, waits for ever (llm/engine.py:112).
- An emergency stop unloads the language model under the engine's lock and so
  waits for a generation that is under way.
- A value that the owner sets for `budget_spent` beside a charge is overwritten by it
  (budget.py:9).
- The app shows "applied" for every answer to its second request, also when the
  change was not applied; and when the answer to the first one is lost the card
  is gone and the app has no way to apply what was approved
  (android ViewModels.kt:148-156).

## 6. Not modelled

Neural training (`neural_core`, `adapters`, `hf_trainer`, EWC and distillation) is
numeric; the models take any score. What a replay draws is modelled, as a free
choice among the stored samples. The GPU worker's queue: no code calls
`submit`, so that the queue is always empty and only `start` and `shutdown` run.
Metrics, serialisation, routing, load scripts, and the client's screens are I/O or
layout; of the client's view models only the approvals make a decision in two
requests. In `Sessions` the limits do not change while logins are in flight. In
`AuditLog` a state import, which replaces the whole database file, is left out:
`Bundles` has it, with the chain as one page that is whole or broken. The
read-only queries of the registry (lineage, listing) change nothing. The branch
config_change of `execute_if_approved`, which no code requests, is left out. In
`Runtime` the other controls, the emergency stop's time stamps and bundle, and the
GPU worker's idle threads are left out. In `Migrations` the types and defaults of
columns are left out, and a start's commits are too few for SQLite to checkpoint
the log. In `CodeChange` the table improvement_proposals, which nothing reads, is
left out; the sandbox that parses the new text is a free choice; patches that
create files or touch more than one are not drafted by any code. In `Memory`
`recall` is left out: it writes only last_access, whose order is a free choice; so
are the table rag_chunks, which nothing reads, and the quality and privacy checks.
A document of more than 800 characters is stored under the hashes of its pieces
and looked up under the hash of the whole, so it is never found again:
`NoDocumentTwice` is about documents of one piece.

In `RateLimit` there is one address, for addresses share nothing but the lock.
In `Budget` estimates and costs are any of a few amounts. In `TrainingCycle`
the order of a cycle's samples is a free choice, and so is how many of the stored
ones a replay draws. In `EvaluationGate` a swap
is one step, and the free form suites beside `CORE_SUITES` are not part of the
verdict. In `LLMEngine` prompts and answers are left out. In `Sandbox` the
resource limits are the child's free choice to end, and the tools of the gateway
other than running code are I/O.

## 7. Plan

What is left, in the order of importance.

1. Controls that change the limits of `Sessions` while logins are in flight.
2. The emergency stop's bundle export (`Bundles`) and unload (`LLMEngine`) beside
   `Runtime`, as one composed module instead of a sum.
3. The client's chat: an answer that arrives after another conversation was
   opened.
