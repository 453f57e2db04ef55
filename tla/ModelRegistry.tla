---------------------------- MODULE ModelRegistry ----------------------------
(***************************************************************************)
(* The model registry of src/backend/app/models_core/registry.py: the rows *)
(* of table `models` and the two calls that move a model in and out of     *)
(* production, adopt_model and rollback.                                   *)
(*                                                                         *)
(* The endpoints run in a thread pool and share one SQLite connection.     *)
(* Every db.execute / db.query takes a lock and commits by itself, so one  *)
(* statement is one step and other calls run between two statements.       *)
(* A call is a thread whose pc walks through the statements; `target`,     *)
(* `curRow` and `bestRow` are the call's Python locals.                    *)
(*                                                                         *)
(* Models are numbered in the order of created_at, 0 stands for no row.    *)
(***************************************************************************)
EXTENDS Integers, FiniteSets

CONSTANTS
    Threads,    \* the threads that serve requests, the orchestrator's included
    MaxModels,  \* bound: how many models are ever registered
    Overall     \* Overall[m]: what full_eval may find as metrics["overall"] of m

Models == 1 .. MaxModels

ASSUME MaxModelsAssumption == MaxModels \in Nat \ {0}
ASSUME OverallAssumption == Overall \in [Models -> SUBSET Nat]

NoModel == 0
Status == {"absent", "candidate", "rejected", "current", "best_historical", "archived"}

VARIABLES
    status,     \* models.status, "absent" before the row is inserted
    promoted,   \* models.approved_at IS NOT NULL
    score,      \* models.metrics["overall"], 0 until full_eval has stored one
    pc,         \* the statement each thread runs next, "idle" outside a call
    target,     \* candidate_id of adopt_model, target of rollback
    curRow,     \* the row a call read as current
    bestRow,    \* the row a call read as best_historical
    past        \* history of the status swaps of adopt_model and rollback: "clean",
                \* or some two "overlapped", or a crash cut one and it is "torn"

registryVars == <<status, promoted, score>>
callVars == <<pc, target, curRow, bestRow>>

\* A row as a call reads it, with its _overall_score (0.0 for a missing one).
Row(m) == [id |-> m, score |-> score[m]]
NoRow == [id |-> NoModel, score |-> 0]
Rows == [id : Models \cup {NoModel}, score : Nat]

With(s) == {m \in Models : status[m] = s}

\* SELECT ... WHERE status=s ORDER BY created_at DESC LIMIT 1
Newest(s) ==
    IF With(s) = {} THEN NoRow
    ELSE Row(CHOOSE m \in With(s) : \A k \in With(s) : k <= m)

-----------------------------------------------------------------------------
(* The statements that write a row.                                        *)

\* approved_at is stamped on a promotion and never cleared.
SetStatus(m, s) ==
    /\ status' = [status EXCEPT ![m] = s]
    /\ promoted' = [promoted EXCEPT ![m] = @ \/ s \in {"current", "best_historical"}]
    /\ UNCHANGED score

\* EvaluationEngine.full_eval stores the report it measured in models.metrics.
FullEval(m) ==
    /\ \E s \in Overall[m] : score' = [score EXCEPT ![m] = s]
    /\ UNCHANGED <<status, promoted>>

-----------------------------------------------------------------------------
(* Calls.                                                                  *)

Goto(t, label) == pc' = [pc EXCEPT ![t] = label]

\* The call returns: its locals are gone.
Return(t) ==
    /\ Goto(t, "idle")
    /\ target' = [target EXCEPT ![t] = NoModel]
    /\ curRow' = [curRow EXCEPT ![t] = NoRow]
    /\ bestRow' = [bestRow EXCEPT ![t] = NoRow]

AdoptLabels == {"adopt", "adopt_best", "adopt_archive", "adopt_unbest",
                "adopt_heir", "adopt_promote"}
RollbackLabels == {"rollback", "rollback_archive", "rollback_promote"}
SwapLabels == AdoptLabels \cup RollbackLabels

\* t enters adopt_model or rollback: is another thread inside one of them?
EnterSwap(t) ==
    past' = IF past = "clean" /\ \E u \in Threads \ {t} : pc[u] \in SwapLabels
            THEN "overlapped" ELSE past

-----------------------------------------------------------------------------
(* adopt_model(candidate_id)                                               *)

AdoptReadCurrent(t) ==
    /\ pc[t] = "adopt"
    /\ curRow' = [curRow EXCEPT ![t] = Newest("current")]
    /\ Goto(t, "adopt_best")
    /\ UNCHANGED <<registryVars, target, bestRow, past>>

AdoptReadBest(t) ==
    /\ pc[t] = "adopt_best"
    /\ bestRow' = [bestRow EXCEPT ![t] = Newest("best_historical")]
    /\ Goto(t, IF curRow[t] # NoRow THEN "adopt_archive"
               ELSE IF Newest("best_historical") # NoRow THEN "adopt_unbest"
               ELSE "adopt_promote")
    /\ UNCHANGED <<registryVars, target, curRow, past>>

AdoptArchive(t) ==
    /\ pc[t] = "adopt_archive"
    /\ SetStatus(curRow[t].id, "archived")
    /\ Goto(t, IF bestRow[t] # NoRow THEN "adopt_unbest" ELSE "adopt_heir")
    /\ UNCHANGED <<target, curRow, bestRow, past>>

AdoptUnbest(t) ==
    /\ pc[t] = "adopt_unbest"
    /\ SetStatus(bestRow[t].id, "archived")
    /\ Goto(t, "adopt_heir")
    /\ UNCHANGED <<target, curRow, bestRow, past>>

\* Variant of HeirOf: min for max.
WorseHeir(t) ==
    IF curRow[t] = NoRow THEN bestRow[t]
    ELSE IF bestRow[t] = NoRow THEN curRow[t]
    ELSE IF curRow[t].score > bestRow[t].score THEN bestRow[t] ELSE curRow[t]

\* max((prev_best, prev_current), key=_overall_score): prev_best wins a tie.
HeirOf(t) ==
    IF curRow[t] = NoRow THEN bestRow[t]
    ELSE IF bestRow[t] = NoRow THEN curRow[t]
    ELSE IF curRow[t].score > bestRow[t].score THEN curRow[t] ELSE bestRow[t]

AdoptHeir(t) ==
    /\ pc[t] = "adopt_heir"
    /\ SetStatus(HeirOf(t).id, "best_historical")
    /\ Goto(t, "adopt_promote")
    /\ UNCHANGED <<target, curRow, bestRow, past>>

AdoptPromote(t) ==
    /\ pc[t] = "adopt_promote"
    /\ SetStatus(target[t], "current")
    /\ Return(t)
    /\ UNCHANGED past

AdoptStep(t) ==
    \/ AdoptReadCurrent(t) \/ AdoptReadBest(t) \/ AdoptArchive(t)
    \/ AdoptUnbest(t) \/ AdoptHeir(t) \/ AdoptPromote(t)

-----------------------------------------------------------------------------
(* rollback(to_model_id)                                                   *)

\* The owner names a row, or takes best_historical when there is one.
RollbackTargets ==
    {m \in Models : status[m] # "absent"}
        \* with to_model_id=None the target is Newest("best_historical"), a row too

Rollback(t) ==
    /\ pc[t] = "idle"
    /\ \E m \in RollbackTargets : target' = [target EXCEPT ![t] = m]
    /\ Goto(t, "rollback")
    /\ EnterSwap(t)
    /\ UNCHANGED <<registryVars, curRow, bestRow>>

RollbackReadCurrent(t) ==
    /\ pc[t] = "rollback"
    /\ curRow' = [curRow EXCEPT ![t] = Newest("current")]
    /\ Goto(t, IF Newest("current") # NoRow THEN "rollback_archive" ELSE "rollback_promote")
    /\ UNCHANGED <<registryVars, target, bestRow, past>>

\* Variant of RollbackArchive: the target is promoted before the old one is archived.
RollbackPromoteFirst(t) ==
    /\ pc[t] = "rollback_archive"
    /\ SetStatus(target[t], "current")
    /\ Goto(t, "rollback_promote")
    /\ UNCHANGED <<target, curRow, bestRow, past>>

\* Variant of RollbackArchive: the model that is replaced becomes the best one.
RollbackTrades(t) ==
    /\ pc[t] = "rollback_archive"
    /\ SetStatus(curRow[t].id, "best_historical")
    /\ Goto(t, "rollback_promote")
    /\ UNCHANGED <<target, curRow, bestRow, past>>

RollbackArchive(t) ==
    /\ pc[t] = "rollback_archive"
    /\ SetStatus(curRow[t].id, "archived")
    /\ Goto(t, "rollback_promote")
    /\ UNCHANGED <<target, curRow, bestRow, past>>

\* Variant of RollbackPromote: the target is validated after the first write.
RollbackValidateLate(t) ==
    /\ pc[t] = "rollback_promote"
    /\ IF status[target[t]] = "archived"
       THEN UNCHANGED registryVars
       ELSE SetStatus(target[t], "current")
    /\ Return(t)
    /\ UNCHANGED past

RollbackPromote(t) ==
    /\ pc[t] = "rollback_promote"
    /\ SetStatus(target[t], "current")
    /\ Return(t)
    /\ UNCHANGED past

RollbackStep(t) == RollbackReadCurrent(t) \/ RollbackArchive(t) \/ RollbackPromote(t)

-----------------------------------------------------------------------------
RegistryInit ==
    /\ status = [m \in Models |-> "absent"]
    /\ promoted = [m \in Models |-> FALSE]
    /\ score = [m \in Models |-> 0]
    /\ pc = [t \in Threads |-> "idle"]
    /\ target = [t \in Threads |-> NoModel]
    /\ curRow = [t \in Threads |-> NoRow]
    /\ bestRow = [t \in Threads |-> NoRow]
    /\ past = "clean"
=============================================================================
