------------------------------ MODULE Promotion ------------------------------
(***************************************************************************)
(* Everything that puts a model into production: the training cycle and    *)
(* the bootstrap of src/backend/app/orchestrator/core.py, the approvals of *)
(* src/backend/app/approval/system.py and the registry they write          *)
(* (ModelRegistry). Any thread may run any call: the orchestrator's loop,  *)
(* the cycle endpoint and chat all reach the same code.                    *)
(*                                                                         *)
(* A cycle raises one approval, for the candidate it registered, so an     *)
(* approval is identified with its candidate_model_id.                     *)
(***************************************************************************)
EXTENDS ModelRegistry

\* "refused" stands for rejected and more_tests, which the code treats alike.
Decision == {"approved", "refused"}
ApprovalStatus == {"none", "pending"} \cup Decision

VARIABLES
    approval,   \* approvals.status of the adoption request for each model
    seed,       \* the model was trained by _bootstrap_seed_model
    checkpoint  \* models.checkpoint_path is set

trainVars == <<seed, checkpoint>>
vars == <<registryVars, callVars, past, approval, trainVars>>

CycleLabels == {"bootstrap", "baseline", "register", "save", "test", "compare", "verdict"}
Labels == {"idle", "decide"} \cup CycleLabels \cup SwapLabels

-----------------------------------------------------------------------------
(* Training: _bootstrap_seed_model and run_cycle share train_candidate.    *)
(* `target` is the base model until Register makes it the candidate.       *)

\* Bound: a call starts only while a row number is left for its candidate.
RoomForModel ==
    Cardinality({t \in Threads : pc[t] \in {"bootstrap", "baseline", "register"}})
        < Cardinality(With("absent"))

\* chat, or run_cycle, finds no current model.
Bootstrap(t) ==
    /\ pc[t] = "idle" /\ RoomForModel
    /\ With("current") = {}
    /\ Goto(t, "bootstrap")
    /\ UNCHANGED <<registryVars, target, curRow, bestRow, past, approval, trainVars>>

RunCycle(t) ==
    /\ pc[t] = "idle" /\ RoomForModel
    /\ With("current") # {}
    /\ target' = [target EXCEPT ![t] = Newest("current").id]
    /\ Goto(t, "baseline")
    /\ UNCHANGED <<registryVars, curRow, bestRow, past, approval, trainVars>>

\* full_eval of the current model; its responder needs the checkpoint.
Baseline(t) ==
    /\ pc[t] = "baseline"
    /\ checkpoint[target[t]]
    /\ FullEval(target[t])
    /\ Goto(t, "register")
    /\ UNCHANGED <<target, curRow, bestRow, past, approval, trainVars>>

\* train_candidate ends by registering a fresh row ...
Register(t) ==
    /\ pc[t] \in {"bootstrap", "register"}
    /\ \E m \in With("absent") :
        /\ \A k \in With("absent") : m <= k
        /\ SetStatus(m, "candidate")
        /\ target' = [target EXCEPT ![t] = m]
        /\ seed' = [seed EXCEPT ![m] = (pc[t] = "bootstrap")]
    /\ Goto(t, "save")
    /\ UNCHANGED <<curRow, bestRow, past, approval, checkpoint>>

\* ... and saving its checkpoint, in another commit.
SaveCheckpoint(t) ==
    /\ pc[t] = "save"
    /\ checkpoint' = [checkpoint EXCEPT ![target[t]] = TRUE]
    /\ Goto(t, "test")
    /\ UNCHANGED <<registryVars, target, curRow, bestRow, past, approval, seed>>

\* full_eval of the candidate. A bootstrap adopts it next, unconditionally.
Test(t) ==
    /\ pc[t] = "test"
    /\ FullEval(target[t])
    /\ IF seed[target[t]]
       THEN Goto(t, "adopt") /\ EnterSwap(t)
       ELSE Goto(t, "compare") /\ UNCHANGED past
    /\ UNCHANGED <<target, curRow, bestRow, approval, trainVars>>

\* The best historical model, when there is one, is evaluated again too.
Compare(t) ==
    /\ pc[t] = "compare"
    /\ IF With("best_historical") = {}
       THEN UNCHANGED registryVars
       ELSE LET best == Newest("best_historical").id
            IN  checkpoint[best] /\ FullEval(best)
    /\ Goto(t, "verdict")
    /\ UNCHANGED <<target, curRow, bestRow, past, approval, trainVars>>

\* compare_models adopts: the owner is asked.
RequestApproval(t) ==
    /\ pc[t] = "verdict"
    /\ approval' = [approval EXCEPT ![target[t]] = "pending"]
    /\ Return(t)
    /\ UNCHANGED <<registryVars, past, trainVars>>

\* Variant of Reject: the approval is requested before the verdict is looked at.
RejectAfterRequest(t) ==
    /\ pc[t] = "verdict"
    /\ SetStatus(target[t], "rejected")
    /\ approval' = [approval EXCEPT ![target[t]] = "pending"]
    /\ Return(t)
    /\ UNCHANGED <<past, trainVars>>

\* compare_models rejects: mark_rejected overwrites whatever the row says by now.
Reject(t) ==
    /\ pc[t] = "verdict"
    /\ SetStatus(target[t], "rejected")
    /\ past' = IF past = "clean" /\ status[target[t]] # "candidate" THEN "overlapped" ELSE past
    /\ Return(t)
    /\ UNCHANGED <<approval, trainVars>>

\* An exception leaves run_cycle: no checkpoint to load, a budget that check() or
\* charge() finds exceeded, a data set version taken by another cycle.
CycleRaises(t) ==
    /\ pc[t] \in {"bootstrap", "baseline", "register", "test", "compare"}
    /\ Return(t)
    /\ UNCHANGED <<registryVars, past, approval, trainVars>>

-----------------------------------------------------------------------------
(* Approvals: decide and execute_if_approved.                              *)

DecideRead(t) ==
    /\ pc[t] = "idle"
    /\ \E m \in Models :
        /\ approval[m] = "pending"
        /\ target' = [target EXCEPT ![t] = m]
    /\ Goto(t, "decide")
    /\ UNCHANGED <<registryVars, curRow, bestRow, past, approval, trainVars>>

\* The UPDATE has no WHERE status='pending'.
DecideWrite(t) ==
    /\ pc[t] = "decide"
    /\ \E d \in Decision : approval' = [approval EXCEPT ![target[t]] = d]
    /\ Return(t)
    /\ UNCHANGED <<registryVars, past, trainVars>>

\* Variant of Execute: the status of the approval is not looked at.
ExecuteAny(t) ==
    /\ pc[t] = "idle"
    /\ \E m \in Models :
        /\ approval[m] # "none"
        /\ target' = [target EXCEPT ![t] = m]
    /\ Goto(t, "adopt")
    /\ EnterSwap(t)
    /\ UNCHANGED <<registryVars, curRow, bestRow, approval, trainVars>>

\* execute_if_approved reads the row and calls adopt_model. Nothing marks the
\* approval as used, so it can be executed again.
Execute(t) ==
    /\ pc[t] = "idle"
    /\ \E m \in Models :
        /\ approval[m] = "approved"
        /\ target' = [target EXCEPT ![t] = m]
    /\ Goto(t, "adopt")
    /\ EnterSwap(t)
    /\ UNCHANGED <<registryVars, curRow, bestRow, approval, trainVars>>

-----------------------------------------------------------------------------
\* The process dies and starts again: the calls are gone, committed rows stay.
Crash ==
    /\ past' = IF \E t \in Threads : pc[t] \in SwapLabels THEN "torn" ELSE past
    /\ pc' = [t \in Threads |-> "idle"]
    /\ target' = [t \in Threads |-> NoModel]
    /\ curRow' = [t \in Threads |-> NoRow]
    /\ bestRow' = [t \in Threads |-> NoRow]
    /\ UNCHANGED <<registryVars, approval, trainVars>>

Init ==
    /\ RegistryInit
    /\ approval = [m \in Models |-> "none"]
    /\ seed = [m \in Models |-> FALSE]
    /\ checkpoint = [m \in Models |-> FALSE]

CycleStep(t) ==
    \/ Baseline(t) \/ Register(t) \/ SaveCheckpoint(t) \/ Test(t) \/ Compare(t)
    \/ RequestApproval(t) \/ Reject(t) \/ CycleRaises(t)

SwapStep(t) == (AdoptStep(t) \/ RollbackStep(t)) /\ UNCHANGED <<approval, trainVars>>

\* What a thread does by itself once its call has begun.
Continue(t) == CycleStep(t) \/ DecideWrite(t) \/ SwapStep(t)

Begin(t) ==
    \/ Bootstrap(t) \/ RunCycle(t) \/ DecideRead(t) \/ Execute(t)
    \/ Rollback(t) /\ UNCHANGED <<approval, trainVars>>

Next == Crash \/ \E t \in Threads : Begin(t) \/ Continue(t)

\* A thread that has begun a call is scheduled again and again until it returns.
Fairness == \A t \in Threads : WF_vars(Continue(t))

Spec == Init /\ [][Next]_vars
FairSpec == Spec /\ Fairness

-----------------------------------------------------------------------------
(* Properties.                                                             *)

TypeOK ==
    /\ status \in [Models -> Status]
    /\ promoted \in [Models -> BOOLEAN]
    /\ score \in [Models -> Nat]
    /\ pc \in [Threads -> Labels]
    /\ target \in [Threads -> Models \cup {NoModel}]
    /\ curRow \in [Threads -> Rows]
    /\ bestRow \in [Threads -> Rows]
    /\ past \in {"clean", "overlapped", "torn"}
    /\ approval \in [Models -> ApprovalStatus]
    /\ seed \in [Models -> BOOLEAN]
    /\ checkpoint \in [Models -> BOOLEAN]

\* As long as no swap of adopt_model or rollback was overlapped by another or
\* cut by a crash, the table never shows two current models nor two best ones,
\* in the middle of a swap neither (registry.py: archive first, promote last).
OneProduction ==
    past = "clean" => \A s \in {"current", "best_historical"} :
                      \A m, k \in With(s) : m = k

\* A thread between the write that archives the current model and the one that
\* promotes its own target.
Promising(t) == pc[t] \in {"adopt_unbest", "adopt_heir", "adopt_promote", "rollback_promote"}

\* However calls interleave, without a crash the system never comes to rest
\* without a current model once it had one: whoever archives it still has a
\* model to promote. The one exception is a candidate the owner rolled back to
\* and the cycle that trained it rejects afterwards (mark_rejected looks at
\* nothing).
ProductionKept ==
    past # "torn" /\ (\E m \in Models : promoted[m]) =>
        \/ With("current") # {}
        \/ \E t \in Threads : Promising(t)
        \/ \E m \in With("rejected") : promoted[m]

\* An approval is only ever asked for a model the cycle has trained, saved and
\* not rejected, whatever crashed or raised between its statements.
ApprovableIsTrained ==
    \A m \in Models : approval[m] # "none" =>
        /\ checkpoint[m] /\ ~seed[m]
        /\ status[m] \notin {"absent", "rejected"}

GoesLive(m) == status[m] = "candidate" /\ status'[m] = "current"

Justified(m) ==
    \/ seed[m]
    \/ approval[m] \in Decision
    \/ \E t \in Threads : pc[t] = "rollback_promote" /\ target[t] = m

\* A candidate reaches production in three ways only: the bootstrap adopts its
\* own seed, the owner has decided its approval, or the owner named it in a
\* rollback. (The decision may since have been overwritten by another one.)
OwnerDecides == [][\A m \in Models : GoesLive(m) => Justified(m)]_vars

\* adopt_model keeps the better of the old best and the old current model as
\* the one best_historical, so rollback() has somewhere to go, unless the model
\* it adopts is that model itself.
AdoptKeepsBest ==
    [][\A t \in Threads :
        LET old == {curRow[t], bestRow[t]} \ {NoRow}
        IN  AdoptPromote(t) /\ past = "clean" /\ old # {} =>
                \E best \in old :
                    /\ \A r \in old : r.score <= best.score
                    /\ \/ best.id = target[t]
                       \/ {m \in Models : status'[m] = "best_historical"} = {best.id}]_vars

\* What a reader should take for the model in production: the current row, or
\* the one a swap on its way has archived and is about to replace.
InProduction ==
    {m \in Models : \/ status[m] = "current"
                    \/ \E t \in Threads : Promising(t) /\ curRow[t].id = m}

\* Likewise for the best historical model, which only adopt_model replaces.
BestOfPast ==
    LET Adopting == {t \in Threads : Promising(t) /\ pc[t] # "rollback_promote"}
    IN  IF Adopting = {} THEN With("best_historical")
        ELSE {m \in Models : \E t \in Adopting : bestRow[t].id = m}

Cell == INSTANCE ProductionCell WITH
    current <- IF past = "clean" THEN InProduction ELSE {},
    best <- IF past = "clean" THEN BestOfPast ELSE {},
    calm <- past = "clean"

\* The two to four commits of a swap amount to one step that replaces the model
\* in production and the best one of the past together: no cycle, decision or
\* bootstrap beside it can tell, or leave, a mixture of before and after, until
\* a second swap or a crash comes in between.
SwapsAreAtomic == Cell!Spec

\* While nothing crashes, a registry that lost its current model in the middle
\* of a swap gets one again, from the thread that took it.
ProductionReturns ==
    (\E m \in Models : promoted[m]) ~>
        (With("current") # {} \/ past = "torn" \/ \E m \in With("rejected") : promoted[m])

\* orchestrator/core.py:271 says of the bootstrap: "first model is adopted
\* automatically (there is nothing to regress against)". So chat and run_cycle
\* never set out to bootstrap (core.py:229, 338) when a model the owner approved
\* has already been in production, at least as long as no crash tears a swap.
SeedIsFirst ==
    [][\A t \in Threads :
        pc[t] = "idle" /\ pc'[t] = "bootstrap" /\ past # "torn" =>
            ~ \E k \in Models : promoted[k] /\ approval[k] = "approved"]_vars
=============================================================================
