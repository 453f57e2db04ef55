-------------------------- MODULE Promotion_proofs --------------------------
(***************************************************************************)
(* What Promotion guarantees for any set of threads, any number of models  *)
(* and any scores, proved from TypeOK upwards:                             *)
(*   TypeCorrect       the type invariant                                  *)
(*   AlwaysKept        no interleaving loses the current model             *)
(*   AlwaysTrained     approvals are about trained, unrejected candidates  *)
(*   AlwaysOwner       a candidate goes live only by the owner's decision  *)
(*   AlwaysOne         undisturbed, one current and one best model         *)
(*   SeedsComeFromGaps a bootstrap over a model is one in a swap's gap     *)
(*   BestIsKept        undisturbed, an adoption keeps the better old model *)
(*   SwapsRefineTheCell undisturbed, a swap is one step of ProductionCell  *)
(***************************************************************************)
EXTENDS Promotion, WellFoundedInduction, TLAPS

(***************************************************************************)
(* The rows. Newest picks an existing row of that status if there is one.  *)
(***************************************************************************)

\* A set of models has a largest one: MaxModels minus it is the least of its
\* mirror image, and < is well-founded on Nat.
LEMMA NewestExists ==
    ASSUME NEW S, S \subseteq Models, S # {}
    PROVE  \E m \in S : \A k \in S : k <= m
<1>1. MaxModels \in Nat
  BY MaxModelsAssumption
<1> DEFINE Mirror == {MaxModels - m : m \in S}
<1>2. Mirror \subseteq Nat /\ Mirror # {}
  <2>1. \A m \in S : MaxModels - m \in Nat
    BY <1>1 DEF Models
  <2>2. PICK m \in S : TRUE
    OBVIOUS
  <2> QED BY <2>1, <2>2
<1>3. PICK x \in Mirror : \A y \in Mirror : ~ (<<y, x>> \in OpToRel(<, Nat))
  <2> HIDE DEF Mirror
  <2> QED BY <1>2, NatLessThanWellFounded, WFMin
<1>4. \A y \in Mirror : ~ (y < x)
  BY <1>2, <1>3 DEF OpToRel
<1>5. PICK m \in S : x = MaxModels - m
  BY <1>3
<1>6. \A k \in S : k <= m
  BY <1>1, <1>4, <1>5 DEF Models
<1> QED BY <1>6

LEMMA NewestRow ==
    ASSUME TypeOK, NEW s
    PROVE  /\ Newest(s) \in Rows
           /\ Newest(s) = NoRow <=> With(s) = {}
           /\ Newest(s) # NoRow => /\ Newest(s).id \in Models
                                   /\ status[Newest(s).id] = s
<1>1. CASE With(s) = {}
  BY <1>1 DEF Newest, NoRow, Rows, NoModel
<1>2. CASE With(s) # {}
  <2> DEFINE m == CHOOSE m \in With(s) : \A k \in With(s) : k <= m
  <2>1. With(s) \subseteq Models
    BY DEF With
  <2>2. m \in With(s)
    BY <1>2, <2>1, NewestExists
  <2> HIDE DEF m
  <2>3. m \in Models /\ status[m] = s /\ m # NoModel
    BY <2>2, MaxModelsAssumption DEF With, Models, NoModel
  <2>4. Newest(s) = [id |-> m, score |-> score[m]]
    BY <1>2 DEF Newest, Row, m
  <2>5. Newest(s).id = m
    BY <2>4
  <2> QED BY <1>2, <2>3, <2>4, <2>5 DEF TypeOK, Rows, NoRow
<1> QED BY <1>1, <1>2

(***************************************************************************)
(* Type correctness.                                                       *)
(***************************************************************************)

\* A score that full_eval measures is a number.
LEMMA ScoreType ==
    ASSUME TypeOK, NEW m, \E v \in Overall[m] : score' = [score EXCEPT ![m] = v]
    PROVE  score' \in [Models -> Nat]
<1>1. CASE m \in Models
  BY <1>1, OverallAssumption DEF TypeOK
<1>2. CASE m \notin Models
  BY <1>2 DEF TypeOK
<1> QED BY <1>1, <1>2

LEMMA ReturnType ==
    ASSUME TypeOK, NEW t \in Threads, Return(t)
    PROVE  /\ pc' \in [Threads -> Labels]
           /\ target' \in [Threads -> Models \cup {NoModel}]
           /\ curRow' \in [Threads -> Rows]
           /\ bestRow' \in [Threads -> Rows]
BY DEF TypeOK, Return, Goto, Labels, Rows, NoRow

LEMMA GotoType ==
    ASSUME TypeOK, NEW t \in Threads, NEW l \in Labels, Goto(t, l)
    PROVE  pc' \in [Threads -> Labels]
BY DEF TypeOK, Goto

LEMMA TypeAdopt ==
    ASSUME TypeOK, NEW t \in Threads, AdoptStep(t), UNCHANGED <<approval, trainVars>>
    PROVE  TypeOK'
<1> USE DEF trainVars, registryVars
<1> DEFINE L == Labels
<1>0. AdoptLabels \subseteq L /\ "idle" \in L
  BY DEF Labels, SwapLabels
<1>1. CASE AdoptReadCurrent(t)
  BY <1>0, <1>1, NewestRow, GotoType DEF AdoptReadCurrent, AdoptLabels, TypeOK
<1>2. CASE AdoptReadBest(t)
  BY <1>0, <1>2, NewestRow, GotoType DEF AdoptReadBest, AdoptLabels, TypeOK
<1>3. CASE AdoptArchive(t)
  BY <1>0, <1>3, GotoType DEF SetStatus, AdoptArchive, AdoptLabels, Status, TypeOK
<1>4. CASE AdoptUnbest(t)
  BY <1>0, <1>4, GotoType DEF SetStatus, AdoptUnbest, AdoptLabels, Status, TypeOK
<1>5. CASE AdoptHeir(t)
  BY <1>0, <1>5, GotoType DEF SetStatus, AdoptHeir, AdoptLabels, Status, TypeOK
<1>6. CASE AdoptPromote(t)
  BY <1>6, ReturnType DEF SetStatus, AdoptPromote, Status, TypeOK
<1> QED BY <1>1, <1>2, <1>3, <1>4, <1>5, <1>6 DEF AdoptStep

LEMMA TypeRollback ==
    ASSUME TypeOK, NEW t \in Threads, Rollback(t) \/ RollbackStep(t),
           UNCHANGED <<approval, trainVars>>
    PROVE  TypeOK'
<1> USE DEF trainVars, registryVars
<1>0. RollbackLabels \subseteq Labels
  BY DEF Labels, SwapLabels
<1>1. CASE Rollback(t)
  BY <1>0, <1>1, GotoType DEF Rollback, RollbackTargets, EnterSwap, RollbackLabels, TypeOK
<1>2. CASE RollbackReadCurrent(t)
  BY <1>0, <1>2, NewestRow, GotoType DEF RollbackReadCurrent, RollbackLabels, TypeOK
<1>3. CASE RollbackArchive(t)
  BY <1>0, <1>3, GotoType DEF SetStatus, RollbackArchive, RollbackLabels, Status, TypeOK
<1>4. CASE RollbackPromote(t)
  BY <1>4, ReturnType DEF SetStatus, RollbackPromote, Status, TypeOK
<1> QED BY <1>1, <1>2, <1>3, <1>4 DEF RollbackStep

LEMMA TypeCycle ==
    ASSUME TypeOK, NEW t \in Threads, Bootstrap(t) \/ RunCycle(t) \/ CycleStep(t)
    PROVE  TypeOK'
<1> USE DEF trainVars, registryVars
<1>0. CycleLabels \subseteq Labels /\ "adopt" \in Labels
  BY DEF Labels, SwapLabels, AdoptLabels
<1>1. CASE Bootstrap(t)
  BY <1>0, <1>1, GotoType DEF Bootstrap, CycleLabels, TypeOK
<1>2. CASE RunCycle(t)
  <2>1. Newest("current").id \in Models \cup {NoModel}
    BY NewestRow DEF Rows
  <2> QED BY <1>0, <1>2, <2>1, GotoType DEF RunCycle, CycleLabels, TypeOK
<1>3. CASE Baseline(t)
  BY <1>0, <1>3, ScoreType, GotoType DEF Baseline, FullEval, CycleLabels, TypeOK
<1>4. CASE Register(t)
  BY <1>0, <1>4, GotoType DEF Register, SetStatus, With, CycleLabels, Status, TypeOK
<1>5. CASE SaveCheckpoint(t)
  BY <1>0, <1>5, GotoType DEF SaveCheckpoint, CycleLabels, TypeOK
<1>6. CASE Test(t)
  BY <1>0, <1>6, ScoreType, GotoType DEF Test, FullEval, EnterSwap, CycleLabels, TypeOK
<1>7. CASE Compare(t)
  BY <1>0, <1>7, ScoreType, GotoType DEF Compare, FullEval, CycleLabels, TypeOK
<1>8. CASE RequestApproval(t)
  BY <1>8, ReturnType DEF RequestApproval, ApprovalStatus, TypeOK
<1>9. CASE Reject(t)
  BY <1>9, ReturnType DEF Reject, SetStatus, Status, TypeOK
<1>10. CASE CycleRaises(t)
  BY <1>10, ReturnType DEF CycleRaises, TypeOK
<1> QED BY <1>1, <1>2, <1>3, <1>4, <1>5, <1>6, <1>7, <1>8, <1>9, <1>10 DEF CycleStep

LEMMA TypeApproval ==
    ASSUME TypeOK, NEW t \in Threads, DecideRead(t) \/ DecideWrite(t) \/ Execute(t)
    PROVE  TypeOK'
<1> USE DEF trainVars, registryVars
<1>0. "decide" \in Labels /\ "adopt" \in Labels
  BY DEF Labels, SwapLabels, AdoptLabels
<1>1. CASE DecideRead(t)
  BY <1>0, <1>1, GotoType DEF DecideRead, TypeOK
<1>2. CASE DecideWrite(t)
  BY <1>2, ReturnType DEF DecideWrite, ApprovalStatus, TypeOK
<1>3. CASE Execute(t)
  BY <1>0, <1>3, GotoType DEF Execute, EnterSwap, TypeOK
<1> QED BY <1>1, <1>2, <1>3

LEMMA TypeStep == TypeOK /\ [Next]_vars => TypeOK'
<1> SUFFICES ASSUME TypeOK, [Next]_vars PROVE TypeOK'
  OBVIOUS
<1>1. CASE Crash
  BY <1>1 DEF Crash, TypeOK, trainVars, registryVars, Labels, Rows, NoRow
<1>2. ASSUME NEW t \in Threads, Begin(t) PROVE TypeOK'
  BY <1>2, TypeCycle, TypeApproval, TypeRollback DEF Begin
<1>3. ASSUME NEW t \in Threads, Continue(t) PROVE TypeOK'
  BY <1>3, TypeCycle, TypeApproval, TypeAdopt, TypeRollback DEF Continue, SwapStep
<1>4. CASE UNCHANGED vars
  BY <1>4 DEF vars, registryVars, callVars, trainVars, TypeOK
<1> QED BY <1>1, <1>2, <1>3, <1>4 DEF Next

\* Every reachable state is well typed.
THEOREM TypeCorrect == Spec => []TypeOK
<1>1. Init => TypeOK
  BY DEF Init, RegistryInit, TypeOK, Status, Labels, Rows, NoRow, ApprovalStatus
<1> QED BY <1>1, TypeStep, PTL DEF Spec

(***************************************************************************)
(* A call that is past its first statement works on an existing row, and   *)
(* a row in production carries approved_at.                                *)
(***************************************************************************)

TargetKnown == \A t \in Threads : pc[t] \notin {"idle", "bootstrap"} => target[t] \in Models

Stamped == \A m \in Models : status[m] \in {"current", "best_historical"} => promoted[m]

LEMMA TargetKnownStep == TypeOK /\ TargetKnown /\ [Next]_vars => TargetKnown'
<1> SUFFICES ASSUME TypeOK, TargetKnown, [Next]_vars PROVE TargetKnown'
  OBVIOUS
<1> USE DEF TypeOK, TargetKnown, Goto, Return
<1>1. CASE Crash
  BY <1>1 DEF Crash
<1>2. ASSUME NEW t \in Threads, Begin(t) PROVE TargetKnown'
  <2>1. CASE Bootstrap(t)
    BY <2>1 DEF Bootstrap
  <2>2. CASE RunCycle(t)
    <3>1. With("current") # {}
      BY <2>2 DEF RunCycle
    <3>2. Newest("current").id \in Models
      BY <3>1, NewestRow
    <3> QED BY <2>2, <3>2 DEF RunCycle
  <2>3. CASE DecideRead(t)
    BY <2>3 DEF DecideRead
  <2>4. CASE Execute(t)
    BY <2>4 DEF Execute
  <2>5. CASE Rollback(t)
    BY <2>5 DEF Rollback, RollbackTargets
  <2> QED BY <1>2, <2>1, <2>2, <2>3, <2>4, <2>5 DEF Begin
<1>3. ASSUME NEW t \in Threads, Continue(t) PROVE TargetKnown'
  <2>1. CASE CycleStep(t)
    BY <2>1 DEF CycleStep, Baseline, Register, SaveCheckpoint, Test, Compare,
                RequestApproval, Reject, CycleRaises, With
  <2>2. CASE DecideWrite(t)
    BY <2>2 DEF DecideWrite
  <2>3. CASE AdoptStep(t)
    BY <2>3 DEF AdoptStep, AdoptReadCurrent, AdoptReadBest, AdoptArchive, AdoptUnbest,
                AdoptHeir, AdoptPromote
  <2>4. CASE RollbackStep(t)
    BY <2>4 DEF RollbackStep, RollbackReadCurrent, RollbackArchive, RollbackPromote
  <2> QED BY <1>3, <2>1, <2>2, <2>3, <2>4 DEF Continue, SwapStep
<1>4. CASE UNCHANGED vars
  BY <1>4 DEF vars, callVars
<1> QED BY <1>1, <1>2, <1>3, <1>4 DEF Next

\* Every write of a row goes through SetStatus or touches the score only.
LEMMA StampedStep == TypeOK /\ Stamped /\ [Next]_vars => Stamped'
<1> SUFFICES ASSUME TypeOK, Stamped, [Next]_vars PROVE Stamped'
  OBVIOUS
<1> USE DEF TypeOK, Stamped, SetStatus, FullEval, registryVars
<1>1. CASE Crash
  BY <1>1 DEF Crash
<1>2. ASSUME NEW t \in Threads, Begin(t) PROVE Stamped'
  BY <1>2 DEF Begin, Bootstrap, RunCycle, DecideRead, Execute, Rollback
<1>3. ASSUME NEW t \in Threads, Continue(t) PROVE Stamped'
  <2>1. CASE CycleStep(t)
    BY <2>1 DEF CycleStep, Baseline, Register, SaveCheckpoint, Test, Compare,
                RequestApproval, Reject, CycleRaises
  <2>2. CASE DecideWrite(t)
    BY <2>2 DEF DecideWrite
  <2>3. CASE AdoptStep(t)
    BY <2>3 DEF AdoptStep, AdoptReadCurrent, AdoptReadBest, AdoptArchive, AdoptUnbest,
                AdoptHeir, AdoptPromote
  <2>4. CASE RollbackStep(t)
    BY <2>4 DEF RollbackStep, RollbackReadCurrent, RollbackArchive, RollbackPromote
  <2> QED BY <1>3, <2>1, <2>2, <2>3, <2>4 DEF Continue, SwapStep
<1>4. CASE UNCHANGED vars
  BY <1>4 DEF vars
<1> QED BY <1>1, <1>2, <1>3, <1>4 DEF Next

(***************************************************************************)
(* ProductionKept, with TargetKnown and Stamped as its strengthening.      *)
(***************************************************************************)

\* A step that leaves the statuses alone and takes nobody out of its promise.
LEMMA KeptQuietly ==
    ASSUME ProductionKept, UNCHANGED <<status, promoted>>,
           past' # "torn" => past # "torn",
           past' # "torn" => \A t \in Threads : Promising(t) => Promising(t)'
    PROVE  ProductionKept'
BY DEF ProductionKept, With

LEMMA KeptStep ==
    TypeOK /\ TargetKnown /\ Stamped /\ ProductionKept /\ [Next]_vars => ProductionKept'
<1> SUFFICES ASSUME TypeOK, TargetKnown, Stamped, ProductionKept, [Next]_vars
             PROVE  ProductionKept'
  OBVIOUS
<1> USE DEF Goto, Return, registryVars
<1>1. CASE Crash
  BY <1>1, KeptQuietly DEF Crash, TypeOK, Promising, SwapLabels, AdoptLabels, RollbackLabels
<1>2. ASSUME NEW t \in Threads, Begin(t) PROVE ProductionKept'
  <2>1. pc[t] = "idle" /\ \E l \in Labels : pc' = [pc EXCEPT ![t] = l]
    BY <1>2 DEF Begin, Bootstrap, RunCycle, DecideRead, Execute, Rollback, Labels,
                CycleLabels, SwapLabels, AdoptLabels, RollbackLabels
  <2>2. UNCHANGED <<status, promoted>>
    BY <1>2 DEF Begin, Bootstrap, RunCycle, DecideRead, Execute, Rollback
  <2>3. past' # "torn" => past # "torn"
    BY <1>2 DEF Begin, Bootstrap, RunCycle, DecideRead, Execute, Rollback, EnterSwap
  <2> QED BY <2>1, <2>2, <2>3, KeptQuietly DEF TypeOK, Promising
<1>3. ASSUME NEW t \in Threads, CycleStep(t) PROVE ProductionKept'
  <2>1. \A u \in Threads : Promising(u) => Promising(u)'
    BY <1>3 DEF CycleStep, Baseline, Register, SaveCheckpoint, Test, Compare,
                RequestApproval, Reject, CycleRaises, TypeOK, Promising
  <2>2. past' # "torn" => past # "torn"
    BY <1>3 DEF CycleStep, Baseline, Register, SaveCheckpoint, Test, Compare,
                RequestApproval, Reject, CycleRaises, EnterSwap
  <2>3. CASE Register(t)
    BY <2>1, <2>2, <2>3 DEF Register, SetStatus, With, ProductionKept, TypeOK
  <2>4. CASE Reject(t)
    <3>1. target[t] \in Models
      BY <2>4 DEF Reject, TargetKnown
    <3> QED BY <2>1, <2>2, <2>4, <3>1 DEF Reject, SetStatus, With, ProductionKept, Stamped, TypeOK
  <2>5. CASE ~ Register(t) /\ ~ Reject(t)
    <3>1. UNCHANGED <<status, promoted>>
      BY <1>3, <2>5 DEF CycleStep, Baseline, SaveCheckpoint, Test, Compare,
                        RequestApproval, CycleRaises, FullEval
    <3> QED BY <2>1, <2>2, <3>1, KeptQuietly
  <2> QED BY <2>3, <2>4, <2>5
<1>4. ASSUME NEW t \in Threads, DecideWrite(t) PROVE ProductionKept'
  BY <1>4, KeptQuietly DEF DecideWrite, TypeOK, Promising
<1>5. ASSUME NEW t \in Threads, AdoptReadCurrent(t) \/ AdoptReadBest(t) \/ RollbackReadCurrent(t)
      PROVE  ProductionKept'
  BY <1>5, KeptQuietly DEF AdoptReadCurrent, AdoptReadBest, RollbackReadCurrent, TypeOK, Promising
<1>6. ASSUME NEW t \in Threads,
             AdoptArchive(t) \/ AdoptUnbest(t) \/ AdoptHeir(t) \/ RollbackArchive(t)
      PROVE  ProductionKept'
  <2>1. Promising(t)'
    BY <1>6 DEF AdoptArchive, AdoptUnbest, AdoptHeir, RollbackArchive, TypeOK, Promising
  <2> QED BY <2>1 DEF ProductionKept
<1>7. ASSUME NEW t \in Threads, AdoptPromote(t) \/ RollbackPromote(t)
      PROVE  ProductionKept'
  <2>1. target[t] \in Models
    BY <1>7 DEF AdoptPromote, RollbackPromote, TargetKnown
  <2>2. target[t] \in With("current")'
    BY <1>7, <2>1 DEF AdoptPromote, RollbackPromote, SetStatus, With, TypeOK
  <2> QED BY <2>2 DEF ProductionKept
<1>8. CASE UNCHANGED vars
  BY <1>8, KeptQuietly DEF vars, callVars, Promising
<1> QED BY <1>1, <1>2, <1>3, <1>4, <1>5, <1>6, <1>7, <1>8
        DEF Next, Continue, SwapStep, AdoptStep, RollbackStep

\* Without a crash in the middle of a swap, no interleaving of adoptions,
\* rollbacks, cycles and decisions leaves the registry at rest without a
\* current model.
THEOREM AlwaysKept == Spec => []ProductionKept
<1>1. Init => TargetKnown /\ Stamped /\ ProductionKept
  BY DEF Init, RegistryInit, TargetKnown, Stamped, ProductionKept
<1> QED BY <1>1, TypeCorrect, TargetKnownStep, StampedStep, KeptStep, PTL DEF Spec

\* Why SeedIsFirst fails, and the only way: a bootstrap begins although there has
\* been a current model only while a swap of another thread is in its middle, or
\* once a crash cut one, or a cycle rejected a model that was in production.
BootstrapInGap ==
    [][\A t \in Threads :
        Bootstrap(t) /\ (\E m \in Models : promoted[m]) =>
            \/ past = "torn"
            \/ \E u \in Threads \ {t} : Promising(u)
            \/ \E m \in With("rejected") : promoted[m]]_vars

\* chat and run_cycle take the gap in a swap, and nothing else short of a crash
\* or a late rejection, for an empty registry (orchestrator/core.py:229-232).
THEOREM SeedsComeFromGaps == Spec => BootstrapInGap
<1>1. ASSUME ProductionKept, NEW t \in Threads, Bootstrap(t), \E m \in Models : promoted[m]
      PROVE  \/ past = "torn"
             \/ \E u \in Threads \ {t} : Promising(u)
             \/ \E m \in With("rejected") : promoted[m]
  <2>1. With("current") = {} /\ ~ Promising(t)
    BY <1>1 DEF Bootstrap, Promising
  <2> QED BY <1>1, <2>1 DEF ProductionKept
<1>2. ProductionKept /\ [Next]_vars
      => [\A t \in Threads :
            Bootstrap(t) /\ (\E m \in Models : promoted[m]) =>
                \/ past = "torn"
                \/ \E u \in Threads \ {t} : Promising(u)
                \/ \E m \in With("rejected") : promoted[m]]_vars
  BY <1>1
<1> QED BY <1>2, AlwaysKept, PTL DEF Spec, BootstrapInGap

(***************************************************************************)
(* Approvals. A cycle owns its candidate from Register on: no approval for *)
(* it exists and no other cycle works on it, until RequestApproval.        *)
(***************************************************************************)

InCycle(t) == pc[t] \in {"save", "test", "compare", "verdict"}

CandidateOwned ==
    /\ \A t \in Threads : InCycle(t) =>
            /\ status[target[t]] \notin {"absent", "rejected"}
            /\ approval[target[t]] = "none"
    /\ \A t, u \in Threads : InCycle(t) /\ InCycle(u) /\ target[t] = target[u] => t = u

CandidateReady ==
    \A t \in Threads :
        /\ pc[t] \in {"test", "compare", "verdict"} => checkpoint[target[t]]
        /\ pc[t] \in {"compare", "verdict"} => ~seed[target[t]]

\* decide and execute work on an approval that exists; what adopt_model was
\* called with is a seed or has been decided.
CallJustified ==
    \A t \in Threads :
        /\ pc[t] = "decide" => approval[target[t]] # "none"
        /\ pc[t] \in AdoptLabels =>
            /\ status[target[t]] # "absent"
            /\ seed[target[t]] \/ approval[target[t]] \in Decision

ApprovalInv == /\ TypeOK /\ TargetKnown
               /\ CandidateOwned /\ CandidateReady /\ CallJustified
               /\ ApprovableIsTrained

\* A swap, a crash and the start of a call write neither approvals nor training
\* results, and no row becomes absent or rejected by them.
LEMMA ApprovalCrash == ApprovalInv /\ Crash => ApprovalInv'
<1> SUFFICES ASSUME ApprovalInv, Crash PROVE ApprovalInv'
  OBVIOUS
<1>1. TypeOK' /\ TargetKnown'
  BY TypeStep, TargetKnownStep DEF ApprovalInv, Next
<1>2. UNCHANGED <<status, approval, seed, checkpoint>> /\ \A t \in Threads : pc'[t] = "idle"
  BY DEF Crash, registryVars, trainVars
<1>3. CandidateOwned' /\ CandidateReady' /\ CallJustified' /\ ApprovableIsTrained'
  BY <1>2 DEF ApprovalInv, CandidateOwned, CandidateReady, CallJustified,
              ApprovableIsTrained, InCycle, AdoptLabels
<1> QED BY <1>1, <1>3 DEF ApprovalInv

LEMMA ApprovalBegin ==
    ASSUME ApprovalInv, NEW t \in Threads, Begin(t) PROVE ApprovalInv'
<1>1. TypeOK' /\ TargetKnown'
  BY TypeStep, TargetKnownStep DEF ApprovalInv, Next
<1> USE DEF ApprovalInv, TypeOK, CandidateOwned, CandidateReady, CallJustified,
            ApprovableIsTrained, InCycle, AdoptLabels, Goto, registryVars, trainVars
<1>2. CASE Bootstrap(t)
  BY <1>1, <1>2 DEF Bootstrap
<1>3. CASE RunCycle(t)
  BY <1>1, <1>3 DEF RunCycle
<1>4. CASE DecideRead(t)
  BY <1>1, <1>4 DEF DecideRead
<1>5. CASE Execute(t)
  BY <1>1, <1>5 DEF Execute, Decision
<1>6. CASE Rollback(t) /\ UNCHANGED <<approval, trainVars>>
  BY <1>1, <1>6 DEF Rollback
<1> QED BY <1>2, <1>3, <1>4, <1>5, <1>6 DEF Begin

LEMMA ApprovalCycle ==
    ASSUME ApprovalInv, NEW t \in Threads, CycleStep(t) PROVE ApprovalInv'
<1>1. TypeOK' /\ TargetKnown'
  BY TypeStep, TargetKnownStep DEF ApprovalInv, Next, Continue
<1>0. pc[t] = "verdict" => checkpoint[target[t]] /\ ~seed[target[t]]
  BY DEF ApprovalInv, CandidateReady
<1> USE DEF ApprovalInv, TypeOK, CandidateOwned, CandidateReady, CallJustified,
            ApprovableIsTrained, InCycle, AdoptLabels, Goto, Return, FullEval, SetStatus,
            registryVars, trainVars
<1>2. CASE Baseline(t)
  BY <1>1, <1>2 DEF Baseline
<1>3. CASE Register(t)
  <2>1. PICK m \in Models :
            /\ status[m] = "absent"
            /\ SetStatus(m, "candidate")
            /\ target' = [target EXCEPT ![t] = m]
            /\ seed' = [seed EXCEPT ![m] = (pc[t] = "bootstrap")]
    BY <1>3 DEF Register, With
  <2>2. approval[m] = "none"
    BY <2>1
  <2>3. /\ pc' = [pc EXCEPT ![t] = "save"]
        /\ status' = [status EXCEPT ![m] = "candidate"]
        /\ UNCHANGED <<approval, checkpoint>>
    BY <1>3, <2>1 DEF Register
  <2>4. CandidateOwned'
    BY <2>1, <2>2, <2>3
  <2>5. CandidateReady'
    BY <2>1, <2>3
  <2>6. CallJustified'
    BY <2>1, <2>2, <2>3, <1>1 DEF TargetKnown
  <2>7. ApprovableIsTrained'
    BY <2>1, <2>2, <2>3
  <2> QED BY <1>1, <2>4, <2>5, <2>6, <2>7
<1>4. CASE SaveCheckpoint(t)
  BY <1>1, <1>4 DEF SaveCheckpoint, TargetKnown
<1>5. CASE Test(t)
  BY <1>1, <1>5 DEF Test, EnterSwap
<1>6. CASE Compare(t)
  BY <1>1, <1>6 DEF Compare
<1>7. CASE RequestApproval(t)
  <2>1. /\ pc[t] = "verdict" /\ pc' = [pc EXCEPT ![t] = "idle"]
        /\ target' = [target EXCEPT ![t] = NoModel]
        /\ approval' = [approval EXCEPT ![target[t]] = "pending"]
        /\ UNCHANGED <<status, seed, checkpoint>>
        /\ target[t] \in Models
    BY <1>7 DEF RequestApproval, TargetKnown
  <2>2. CandidateOwned'
    BY <2>1 DEF TargetKnown
  <2>3. CandidateReady'
    BY <2>1
  <2>4. CallJustified'
    BY <2>1 DEF TargetKnown, Decision
  <2>5. ApprovableIsTrained'
    <3>1. status[target[t]] \notin {"absent", "rejected"}
      BY <2>1
    <3> QED BY <1>0, <2>1, <3>1
  <2> QED BY <1>1, <2>2, <2>3, <2>4, <2>5
<1>8. CASE Reject(t)
  BY <1>1, <1>8 DEF Reject, TargetKnown
<1>9. CASE CycleRaises(t)
  BY <1>1, <1>9 DEF CycleRaises
<1> QED BY <1>2, <1>3, <1>4, <1>5, <1>6, <1>7, <1>8, <1>9 DEF CycleStep

LEMMA ApprovalDecide ==
    ASSUME ApprovalInv, NEW t \in Threads, DecideWrite(t) PROVE ApprovalInv'
<1>1. TypeOK' /\ TargetKnown'
  BY TypeStep, TargetKnownStep DEF ApprovalInv, Next, Continue
<1> QED BY <1>1 DEF ApprovalInv, TypeOK, CandidateOwned, CandidateReady, CallJustified,
            ApprovableIsTrained, InCycle, AdoptLabels, Goto, Return, registryVars, trainVars,
            DecideWrite, TargetKnown, Decision

\* Inside a swap a row only changes to a status that is neither absent nor rejected.
LEMMA SwapEffect ==
    ASSUME TypeOK, NEW t \in Threads, AdoptStep(t) \/ RollbackStep(t)
    PROVE  /\ \A m \in Models : status'[m] # status[m] => status'[m] \notin {"absent", "rejected"}
           /\ \E l \in SwapLabels \cup {"idle"} : pc' = [pc EXCEPT ![t] = l]
           /\ pc[t] \in SwapLabels
           /\ pc'[t] \in AdoptLabels => pc[t] \in AdoptLabels
           /\ pc'[t] # "idle" => target' = target
           /\ \A u \in Threads : u # t => target'[u] = target[u]
<1> USE DEF TypeOK, Goto, Return, SetStatus, registryVars, SwapLabels, AdoptLabels, RollbackLabels
<1>1. CASE AdoptStep(t)
  BY <1>1 DEF AdoptStep, AdoptReadCurrent, AdoptReadBest, AdoptArchive, AdoptUnbest,
              AdoptHeir, AdoptPromote
<1>2. CASE RollbackStep(t)
  BY <1>2 DEF RollbackStep, RollbackReadCurrent, RollbackArchive, RollbackPromote
<1> QED BY <1>1, <1>2

LEMMA ApprovalSwap ==
    ASSUME ApprovalInv, NEW t \in Threads, SwapStep(t) PROVE ApprovalInv'
<1>1. TypeOK' /\ TargetKnown'
  BY TypeStep, TargetKnownStep DEF ApprovalInv, Next, Continue
<1>2. UNCHANGED <<approval, seed, checkpoint>>
  BY DEF SwapStep, trainVars
<1> DEFINE Kept(m) == status'[m] # status[m] => status'[m] \notin {"absent", "rejected"}
<1>3. /\ \A m \in Models : Kept(m)
      /\ \E l \in SwapLabels \cup {"idle"} : pc' = [pc EXCEPT ![t] = l]
      /\ pc[t] \in SwapLabels
      /\ pc'[t] \in AdoptLabels => pc[t] \in AdoptLabels
      /\ pc'[t] # "idle" => target' = target
      /\ \A u \in Threads : u # t => target'[u] = target[u]
  BY SwapEffect DEF SwapStep, ApprovalInv
<1>4. pc'[t] \notin {"save", "test", "compare", "verdict", "decide"}
  BY <1>3 DEF ApprovalInv, TypeOK, SwapLabels, AdoptLabels, RollbackLabels
<1>5. \A u \in Threads : u # t => pc'[u] = pc[u]
  BY <1>3 DEF ApprovalInv, TypeOK
<1>6. CandidateOwned' /\ CandidateReady'
  BY <1>2, <1>3, <1>4, <1>5 DEF ApprovalInv, CandidateOwned, CandidateReady, InCycle, TargetKnown
<1>7. CallJustified'
  BY <1>2, <1>3, <1>4, <1>5
     DEF ApprovalInv, CallJustified, TargetKnown, SwapLabels, AdoptLabels, RollbackLabels
<1>8. ApprovableIsTrained'
  BY <1>2, <1>3 DEF ApprovalInv, ApprovableIsTrained
<1> QED BY <1>1, <1>6, <1>7, <1>8 DEF ApprovalInv

LEMMA ApprovalInvariant == Spec => []ApprovalInv
<1>1. Init => ApprovalInv
  BY DEF Init, RegistryInit, ApprovalInv, TypeOK, Status, Labels, Rows, NoRow, ApprovalStatus,
         TargetKnown, CandidateOwned, CandidateReady, CallJustified, InCycle, AdoptLabels,
         ApprovableIsTrained
<1>2. ApprovalInv /\ [Next]_vars => ApprovalInv'
  <2> SUFFICES ASSUME ApprovalInv, [Next]_vars PROVE ApprovalInv'
    OBVIOUS
  <2>1. CASE UNCHANGED vars
    <3>1. TypeOK' /\ TargetKnown'
      BY TypeStep, TargetKnownStep DEF ApprovalInv
    <3> QED BY <2>1, <3>1 DEF vars, registryVars, callVars, trainVars, ApprovalInv, CandidateOwned,
               CandidateReady, CallJustified, InCycle, ApprovableIsTrained
  <2> QED BY <2>1, ApprovalCrash, ApprovalBegin, ApprovalCycle, ApprovalDecide, ApprovalSwap
          DEF Next, Continue
<1> QED BY <1>1, <1>2, PTL DEF Spec

\* Whatever crashes or raises between two statements, an approval names a
\* candidate that was trained, saved and not rejected.
THEOREM AlwaysTrained == Spec => []ApprovableIsTrained
<1>1. ApprovalInv => ApprovableIsTrained
  BY DEF ApprovalInv
<1> QED BY <1>1, ApprovalInvariant, PTL

\* No interleaving puts a candidate into production that is neither a bootstrap
\* seed nor decided by the owner nor named in a rollback.
THEOREM AlwaysOwner == Spec => OwnerDecides
<1>1. ASSUME ApprovalInv, Next, NEW m \in Models, GoesLive(m) PROVE Justified(m)
  <2> USE DEF GoesLive, Justified, ApprovalInv, TypeOK, SetStatus, FullEval, registryVars
  <2>1. CASE Crash
    BY <1>1, <2>1 DEF Crash
  <2>2. ASSUME NEW t \in Threads, Begin(t) PROVE FALSE
    BY <1>1, <2>2 DEF Begin, Bootstrap, RunCycle, DecideRead, Execute, Rollback
  <2>3. ASSUME NEW t \in Threads, CycleStep(t) \/ DecideWrite(t) PROVE FALSE
    BY <1>1, <2>3 DEF CycleStep, Baseline, Register, SaveCheckpoint, Test, Compare,
                      RequestApproval, Reject, CycleRaises, DecideWrite
  <2>4. ASSUME NEW t \in Threads, AdoptStep(t) PROVE Justified(m)
    <3>1. pc[t] \in AdoptLabels /\ m = target[t]
      BY <1>1, <2>4 DEF AdoptStep, AdoptReadCurrent, AdoptReadBest, AdoptArchive, AdoptUnbest,
                        AdoptHeir, AdoptPromote, AdoptLabels
    <3> QED BY <1>1, <3>1 DEF CallJustified
  <2>5. ASSUME NEW t \in Threads, RollbackStep(t) PROVE Justified(m)
    BY <1>1, <2>5 DEF RollbackStep, RollbackReadCurrent, RollbackArchive, RollbackPromote
  <2> QED BY <1>1, <2>1, <2>2, <2>3, <2>4, <2>5 DEF Next, Continue, SwapStep
<1>2. ApprovalInv /\ [Next]_vars
      => [\A m \in Models : GoesLive(m) => Justified(m)]_vars
  BY <1>1 DEF GoesLive, Justified
<1> QED BY <1>2, ApprovalInvariant, PTL DEF Spec, OwnerDecides

(***************************************************************************)
(* OneProduction. While no swap has been disturbed at most one thread is   *)
(* inside one, and what it read bounds the rows it still has to replace.   *)
(***************************************************************************)

NoneIs(s) == \A m \in Models : status[m] # s
OnlyIs(s, k) == \A m \in Models : status[m] = s => m = k
AtMostOne(s) == \A m, k \in Models : status[m] = s /\ status[k] = s => m = k

Alone == \A t, u \in Threads : pc[t] \in SwapLabels /\ pc[u] \in SwapLabels => t = u

\* The current row, if any, is the one the call has read, until it archives it.
CurrentBound(t) ==
    /\ pc[t] \in {"adopt_best", "adopt_archive", "rollback_archive"} =>
            OnlyIs("current", curRow[t].id)
    /\ pc[t] \in {"adopt_unbest", "adopt_heir", "adopt_promote", "rollback_promote"} =>
            NoneIs("current")

\* Likewise for the best historical row, which AdoptHeir replaces.
BestBound(t) ==
    /\ pc[t] \in {"adopt_archive", "adopt_unbest"} => OnlyIs("best_historical", bestRow[t].id)
    /\ pc[t] = "adopt_heir" => NoneIs("best_historical")

Clean == /\ AtMostOne("current") /\ AtMostOne("best_historical")
         /\ Alone
         /\ \A t \in Threads : CurrentBound(t) /\ BestBound(t)

OneInv == TypeOK /\ (past = "clean" => Clean)

LEMMA OnlyNewest ==
    ASSUME TypeOK, NEW s, AtMostOne(s)
    PROVE  /\ OnlyIs(s, Newest(s).id)
           /\ Newest(s) = NoRow => NoneIs(s)
<1>1. CASE With(s) = {}
  BY <1>1 DEF With, OnlyIs, NoneIs
<1>2. CASE With(s) # {}
  BY <1>2, NewestRow DEF OnlyIs, AtMostOne
<1> QED BY <1>1, <1>2

\* Rows that leave production, or enter the table, keep Clean when no thread
\* enters a swap label or moves inside a swap.
LEMMA CleanShrinks ==
    ASSUME Clean,
           \A m \in Models : status'[m] \in {"current", "best_historical"} => status'[m] = status[m],
           \A t \in Threads : pc'[t] \in SwapLabels =>
               pc'[t] = pc[t] /\ curRow'[t] = curRow[t] /\ bestRow'[t] = bestRow[t]
    PROVE  Clean'
<1>1. AtMostOne("current")' /\ AtMostOne("best_historical")'
  BY DEF Clean, AtMostOne
<1>2. Alone'
  BY DEF Clean, Alone
<1>3. ASSUME NEW t \in Threads PROVE CurrentBound(t)' /\ BestBound(t)'
  <2>1. CASE pc'[t] \in SwapLabels
    BY <2>1 DEF Clean, CurrentBound, BestBound, OnlyIs, NoneIs
  <2>2. CASE pc'[t] \notin SwapLabels
    BY <2>2 DEF CurrentBound, BestBound, SwapLabels, AdoptLabels, RollbackLabels
  <2> QED BY <2>1, <2>2
<1> QED BY <1>1, <1>2, <1>3 DEF Clean

\* A thread that enters a swap undisturbed is the only one.
LEMMA CleanEnters ==
    ASSUME TypeOK, Clean, NEW t \in Threads, NEW l \in {"adopt", "rollback"},
           UNCHANGED <<curRow, bestRow, status>>, pc' = [pc EXCEPT ![t] = l],
           \A u \in Threads \ {t} : pc[u] \notin SwapLabels
    PROVE  Clean'
<1>1. AtMostOne("current")' /\ AtMostOne("best_historical")'
  BY DEF Clean, AtMostOne
<1>2. Alone'
  BY DEF TypeOK, Alone
<1>3. ASSUME NEW u \in Threads PROVE CurrentBound(u)' /\ BestBound(u)'
  BY <1>3 DEF TypeOK, CurrentBound, BestBound, SwapLabels, AdoptLabels, RollbackLabels
<1> QED BY <1>1, <1>2, <1>3 DEF Clean

LEMMA NoModelIsNone ==
    ASSUME NEW s, OnlyIs(s, NoModel) PROVE NoneIs(s)
BY DEF OnlyIs, NoneIs, NoModel, Models

\* A step inside a swap: t keeps every other thread out, so only its own bounds
\* have to be shown again.
LEMMA CleanInside ==
    ASSUME TypeOK, Clean, NEW t \in Threads, pc[t] \in SwapLabels,
           \A u \in Threads \ {t} : pc'[u] = pc[u],
           AtMostOne("current")', AtMostOne("best_historical")',
           CurrentBound(t)', BestBound(t)'
    PROVE  Clean'
<1>1. \A u \in Threads \ {t} : pc'[u] \notin SwapLabels
  BY DEF Clean, Alone
<1>2. Alone'
  BY <1>1 DEF Alone
<1>3. ASSUME NEW u \in Threads, u # t PROVE CurrentBound(u)' /\ BestBound(u)'
  BY <1>1, <1>3 DEF CurrentBound, BestBound, SwapLabels, AdoptLabels, RollbackLabels
<1> QED BY <1>2, <1>3 DEF Clean

LEMMA CleanAdopt ==
    ASSUME TypeOK, Clean, NEW t \in Threads, AdoptStep(t) PROVE Clean'
<1> USE DEF TypeOK, Goto, Return, SetStatus, registryVars
<1>1. pc[t] \in SwapLabels /\ \A u \in Threads \ {t} : pc'[u] = pc[u]
  BY DEF AdoptStep, AdoptReadCurrent, AdoptReadBest, AdoptArchive, AdoptUnbest, AdoptHeir,
         AdoptPromote, SwapLabels, AdoptLabels
<1>2. AtMostOne("current") /\ AtMostOne("best_historical") /\ CurrentBound(t) /\ BestBound(t)
  BY DEF Clean
<1>3. CASE AdoptReadCurrent(t)
  <2>1. OnlyIs("current", Newest("current").id)
    BY <1>2, OnlyNewest
  <2>2. /\ pc' = [pc EXCEPT ![t] = "adopt_best"] /\ status' = status
        /\ curRow' = [curRow EXCEPT ![t] = Newest("current")]
    BY <1>3 DEF AdoptReadCurrent
  <2>3. CurrentBound(t)' /\ BestBound(t)'
    BY <2>1, <2>2 DEF CurrentBound, BestBound, OnlyIs
  <2>4. AtMostOne("current")' /\ AtMostOne("best_historical")'
    BY <1>2, <2>2 DEF AtMostOne
  <2> QED BY <1>1, <2>3, <2>4, CleanInside
<1>4. CASE AdoptReadBest(t)
  <2>1. OnlyIs("best_historical", Newest("best_historical").id)
    BY <1>2, OnlyNewest
  <2>2. /\ pc[t] = "adopt_best" /\ status' = status /\ curRow' = curRow
        /\ bestRow' = [bestRow EXCEPT ![t] = Newest("best_historical")]
        /\ pc' = [pc EXCEPT ![t] = IF curRow[t] # NoRow THEN "adopt_archive"
                                   ELSE IF Newest("best_historical") # NoRow THEN "adopt_unbest"
                                   ELSE "adopt_promote"]
    BY <1>4 DEF AdoptReadBest
  <2>3. curRow[t] = NoRow => NoneIs("current")
    BY <1>2, <2>2, NoModelIsNone DEF CurrentBound, NoRow
  <2>4. OnlyIs("current", curRow[t].id)
    BY <1>2, <2>2 DEF CurrentBound
  <2>5. CurrentBound(t)' /\ BestBound(t)'
    BY <2>1, <2>2, <2>3, <2>4 DEF CurrentBound, BestBound, OnlyIs, NoneIs
  <2>6. AtMostOne("current")' /\ AtMostOne("best_historical")'
    BY <1>2, <2>2 DEF AtMostOne
  <2> QED BY <1>1, <2>5, <2>6, CleanInside
<1>5. CASE AdoptArchive(t)
  <2>1. /\ OnlyIs("current", curRow[t].id) /\ OnlyIs("best_historical", bestRow[t].id)
        /\ status' = [status EXCEPT ![curRow[t].id] = "archived"]
        /\ bestRow' = bestRow
        /\ pc' = [pc EXCEPT ![t] = IF bestRow[t] # NoRow THEN "adopt_unbest" ELSE "adopt_heir"]
    BY <1>2, <1>5 DEF AdoptArchive, CurrentBound, BestBound
  <2>2. bestRow[t] = NoRow => NoneIs("best_historical")
    BY <2>1, NoModelIsNone DEF NoRow
  <2>3. NoneIs("current")' /\ OnlyIs("best_historical", bestRow[t].id)'
    BY <2>1 DEF NoneIs, OnlyIs
  <2>4. NoneIs("best_historical") => NoneIs("best_historical")'
    BY <2>1 DEF NoneIs
  <2>5. CurrentBound(t)' /\ BestBound(t)'
    BY <2>1, <2>2, <2>3, <2>4 DEF CurrentBound, BestBound
  <2>6. AtMostOne("current")' /\ AtMostOne("best_historical")'
    BY <2>3 DEF AtMostOne, NoneIs, OnlyIs
  <2> QED BY <1>1, <2>5, <2>6, CleanInside
<1>6. CASE AdoptUnbest(t)
  <2>1. /\ NoneIs("current") /\ OnlyIs("best_historical", bestRow[t].id)
        /\ status' = [status EXCEPT ![bestRow[t].id] = "archived"]
        /\ pc' = [pc EXCEPT ![t] = "adopt_heir"]
    BY <1>2, <1>6 DEF AdoptUnbest, CurrentBound, BestBound
  <2>2. NoneIs("current")' /\ NoneIs("best_historical")'
    BY <2>1 DEF NoneIs, OnlyIs
  <2>3. CurrentBound(t)' /\ BestBound(t)'
    BY <2>1, <2>2 DEF CurrentBound, BestBound
  <2>4. AtMostOne("current")' /\ AtMostOne("best_historical")'
    BY <2>2 DEF AtMostOne, NoneIs
  <2> QED BY <1>1, <2>3, <2>4, CleanInside
<1>7. CASE AdoptHeir(t)
  <2>1. /\ NoneIs("current") /\ NoneIs("best_historical")
        /\ status' = [status EXCEPT ![HeirOf(t).id] = "best_historical"]
        /\ pc' = [pc EXCEPT ![t] = "adopt_promote"]
    BY <1>2, <1>7 DEF AdoptHeir, CurrentBound, BestBound
  <2>2. NoneIs("current")'
    BY <2>1 DEF NoneIs
  <2>3. CurrentBound(t)' /\ BestBound(t)'
    BY <2>1, <2>2 DEF CurrentBound, BestBound
  <2>4. AtMostOne("current")' /\ AtMostOne("best_historical")'
    BY <2>1, <2>2 DEF AtMostOne, NoneIs
  <2> QED BY <1>1, <2>3, <2>4, CleanInside
<1>8. CASE AdoptPromote(t)
  <2>1. /\ NoneIs("current")
        /\ status' = [status EXCEPT ![target[t]] = "current"]
        /\ pc' = [pc EXCEPT ![t] = "idle"]
    BY <1>2, <1>8 DEF AdoptPromote, CurrentBound
  <2>2. CurrentBound(t)' /\ BestBound(t)'
    BY <2>1 DEF CurrentBound, BestBound
  <2>3. AtMostOne("current")' /\ AtMostOne("best_historical")'
    BY <1>2, <2>1 DEF AtMostOne, NoneIs
  <2> QED BY <1>1, <2>2, <2>3, CleanInside
<1> QED BY <1>3, <1>4, <1>5, <1>6, <1>7, <1>8 DEF AdoptStep

LEMMA CleanRollback ==
    ASSUME TypeOK, Clean, NEW t \in Threads, RollbackStep(t) PROVE Clean'
<1> USE DEF TypeOK, Goto, Return, SetStatus, registryVars
<1>1. pc[t] \in SwapLabels /\ \A u \in Threads \ {t} : pc'[u] = pc[u]
  BY DEF RollbackStep, RollbackReadCurrent, RollbackArchive, RollbackPromote,
         SwapLabels, RollbackLabels
<1>2. AtMostOne("current") /\ AtMostOne("best_historical") /\ CurrentBound(t)
  BY DEF Clean
<1>3. CASE RollbackReadCurrent(t)
  <2>1. /\ OnlyIs("current", Newest("current").id)
        /\ Newest("current") = NoRow => NoneIs("current")
    BY <1>2, OnlyNewest
  <2>2. /\ status' = status /\ curRow' = [curRow EXCEPT ![t] = Newest("current")]
        /\ pc' = [pc EXCEPT ![t] = IF Newest("current") # NoRow
                                   THEN "rollback_archive" ELSE "rollback_promote"]
    BY <1>3 DEF RollbackReadCurrent
  <2>3. CurrentBound(t)' /\ BestBound(t)'
    BY <2>1, <2>2 DEF CurrentBound, BestBound, OnlyIs, NoneIs
  <2>4. AtMostOne("current")' /\ AtMostOne("best_historical")'
    BY <1>2, <2>2 DEF AtMostOne
  <2> QED BY <1>1, <2>3, <2>4, CleanInside
<1>4. CASE RollbackArchive(t)
  <2>1. /\ OnlyIs("current", curRow[t].id)
        /\ status' = [status EXCEPT ![curRow[t].id] = "archived"]
        /\ pc' = [pc EXCEPT ![t] = "rollback_promote"]
    BY <1>2, <1>4 DEF RollbackArchive, CurrentBound
  <2>2. NoneIs("current")'
    BY <2>1 DEF NoneIs, OnlyIs
  <2>3. CurrentBound(t)' /\ BestBound(t)'
    BY <2>1, <2>2 DEF CurrentBound, BestBound
  <2>4. AtMostOne("current")' /\ AtMostOne("best_historical")'
    BY <1>2, <2>1, <2>2 DEF AtMostOne, NoneIs
  <2> QED BY <1>1, <2>3, <2>4, CleanInside
<1>5. CASE RollbackPromote(t)
  <2>1. /\ NoneIs("current")
        /\ status' = [status EXCEPT ![target[t]] = "current"]
        /\ pc' = [pc EXCEPT ![t] = "idle"]
    BY <1>2, <1>5 DEF RollbackPromote, CurrentBound
  <2>2. CurrentBound(t)' /\ BestBound(t)'
    BY <2>1 DEF CurrentBound, BestBound
  <2>3. AtMostOne("current")' /\ AtMostOne("best_historical")'
    BY <1>2, <2>1 DEF AtMostOne, NoneIs
  <2> QED BY <1>1, <2>2, <2>3, CleanInside
<1> QED BY <1>3, <1>4, <1>5 DEF RollbackStep

\* Outside a swap no row enters production and no thread changes its bounds.
LEMMA CleanCycle ==
    ASSUME TypeOK, Clean, NEW t \in Threads, CycleStep(t) \/ DecideWrite(t), ~ Test(t)
    PROVE  Clean'
<1> USE DEF TypeOK, Goto, Return, SetStatus, FullEval, registryVars
<1>1. \A m \in Models : status'[m] \in {"current", "best_historical"} => status'[m] = status[m]
  BY DEF CycleStep, Baseline, Register, SaveCheckpoint, Compare, RequestApproval, Reject,
         CycleRaises, DecideWrite
<1>2. \A u \in Threads : pc'[u] \in SwapLabels =>
          pc'[u] = pc[u] /\ curRow'[u] = curRow[u] /\ bestRow'[u] = bestRow[u]
  BY DEF CycleStep, Baseline, Register, SaveCheckpoint, Compare, RequestApproval, Reject,
         CycleRaises, DecideWrite, SwapLabels, AdoptLabels, RollbackLabels
<1> QED BY <1>1, <1>2, CleanShrinks

LEMMA OneStep == OneInv /\ [Next]_vars => OneInv'
<1> SUFFICES ASSUME OneInv, [Next]_vars, past' = "clean" PROVE Clean'
  BY TypeStep DEF OneInv
<1> USE DEF registryVars, trainVars
<1>1. TypeOK
  BY DEF OneInv
<1>2. CASE Crash
  <2>1. past = "clean" /\ status' = status /\ \A t \in Threads : pc'[t] = "idle"
    BY <1>2 DEF Crash
  <2>2. \A t \in Threads : pc'[t] \notin SwapLabels
    BY <2>1 DEF SwapLabels, AdoptLabels, RollbackLabels
  <2> QED BY <2>1, <2>2, CleanShrinks DEF OneInv
<1>3. ASSUME NEW t \in Threads, Bootstrap(t) \/ RunCycle(t) \/ DecideRead(t) PROVE Clean'
  <2>1. past = "clean" /\ status' = status /\ curRow' = curRow /\ bestRow' = bestRow
    BY <1>3 DEF Bootstrap, RunCycle, DecideRead
  <2>2. \A u \in Threads : pc'[u] \in SwapLabels => pc'[u] = pc[u]
    BY <1>1, <1>3 DEF Bootstrap, RunCycle, DecideRead, Goto, TypeOK, SwapLabels, AdoptLabels,
                      RollbackLabels
  <2> QED BY <2>1, <2>2, CleanShrinks DEF OneInv
<1>4. ASSUME NEW t \in Threads, Execute(t) \/ Rollback(t) \/ Test(t) PROVE Clean'
  <2>1. /\ past = "clean" /\ UNCHANGED <<curRow, bestRow, status>>
        /\ \E l \in {"adopt", "rollback", "compare"} :
              /\ pc' = [pc EXCEPT ![t] = l]
              /\ l # "compare" => \A u \in Threads \ {t} : pc[u] \notin SwapLabels
    BY <1>4 DEF Execute, Rollback, Test, EnterSwap, Goto, FullEval
  <2>2. PICK l \in {"adopt", "rollback", "compare"} :
            /\ pc' = [pc EXCEPT ![t] = l]
            /\ l # "compare" => \A u \in Threads \ {t} : pc[u] \notin SwapLabels
    BY <2>1
  <2>3. CASE l = "compare"
    <3>1. \A u \in Threads : pc'[u] \in SwapLabels => pc'[u] = pc[u]
      BY <1>1, <2>2, <2>3 DEF TypeOK, SwapLabels, AdoptLabels, RollbackLabels
    <3> QED BY <2>1, <3>1, CleanShrinks DEF OneInv
  <2>4. CASE l # "compare"
    BY <1>1, <2>1, <2>2, <2>4, CleanEnters DEF OneInv
  <2> QED BY <2>3, <2>4
<1>5. ASSUME NEW t \in Threads, CycleStep(t) \/ DecideWrite(t), ~ Test(t) PROVE Clean'
  <2>1. past = "clean"
    BY <1>5 DEF CycleStep, Baseline, Register, SaveCheckpoint, Compare, RequestApproval, Reject,
                CycleRaises, DecideWrite
  <2> QED BY <1>1, <1>5, <2>1, CleanCycle DEF OneInv
<1>6. ASSUME NEW t \in Threads, AdoptStep(t) \/ RollbackStep(t) PROVE Clean'
  <2>1. past = "clean"
    BY <1>6 DEF AdoptStep, AdoptReadCurrent, AdoptReadBest, AdoptArchive, AdoptUnbest, AdoptHeir,
                AdoptPromote, RollbackStep, RollbackReadCurrent, RollbackArchive, RollbackPromote
  <2> QED BY <1>1, <1>6, <2>1, CleanAdopt, CleanRollback DEF OneInv
<1>7. CASE UNCHANGED vars
  BY <1>7, CleanShrinks DEF vars, callVars, OneInv
<1> QED BY <1>2, <1>3, <1>4, <1>5, <1>6, <1>7 DEF Next, Begin, Continue, SwapStep

LEMMA OneInvariant == Spec => []OneInv
<1>1. Init => OneInv
  <2>1. Init => TypeOK
    BY DEF Init, RegistryInit, TypeOK, Status, Labels, Rows, NoRow, ApprovalStatus
  <2>2. Init => Clean
    BY DEF Init, RegistryInit, Clean, AtMostOne, Alone, CurrentBound, BestBound, SwapLabels,
           AdoptLabels, RollbackLabels
  <2> QED BY <2>1, <2>2 DEF OneInv
<1> QED BY <1>1, OneStep, PTL DEF Spec

\* As long as swaps do not overlap and no crash cuts one, there is at no moment
\* more than one current or more than one best historical model.
THEOREM AlwaysOne == Spec => []OneProduction
<1>1. OneInv => OneProduction
  BY DEF OneInv, Clean, AtMostOne, OneProduction, With
<1> QED BY <1>1, OneInvariant, PTL

(***************************************************************************)
(* AdoptKeepsBest. What a call of adopt_model read stands until it replaces *)
(* it, because nobody else moves a row in between; when it promotes, the   *)
(* better of the two rows is the one best historical model.                *)
(***************************************************************************)

\* The rows that a call has read.
Old(t) == {curRow[t], bestRow[t]} \ {NoRow}

\* A row that was read is a model, and each statement that follows has its row.
RowsRead ==
    \A t \in Threads :
        /\ curRow[t] # NoRow => curRow[t].id \in Models
        /\ bestRow[t] # NoRow => bestRow[t].id \in Models
        /\ pc[t] \in {"adopt_archive", "rollback_archive"} => curRow[t] # NoRow
        /\ pc[t] = "adopt_unbest" => bestRow[t] # NoRow
        /\ pc[t] = "adopt_heir" => Old(t) # {}

HeirPlaced(t) ==
    pc[t] = "adopt_promote" /\ Old(t) # {} => With("best_historical") = {HeirOf(t).id}

\* The row that was read is still what it was, until the call archives it; no row
\* was read as the best one because there was none.
Stands(t) ==
    /\ pc[t] \in {"adopt_best", "adopt_archive", "rollback_archive"} /\ curRow[t] # NoRow
            => status[curRow[t].id] = "current"
    /\ pc[t] \in {"adopt_archive", "adopt_unbest"} /\ bestRow[t] # NoRow
            => status[bestRow[t].id] = "best_historical"
    /\ pc[t] = "adopt_promote" /\ Old(t) = {} => NoneIs("best_historical")

HeirInv == past = "clean" => \A t \in Threads : HeirPlaced(t) /\ Stands(t)

\* The heir is one of the rows that were read, and none of them scores better.
LEMMA HeirIsBest ==
    ASSUME TypeOK, NEW t \in Threads, Old(t) # {}
    PROVE  HeirOf(t) \in Old(t) /\ \A r \in Old(t) : r.score <= HeirOf(t).score
<1>1. curRow[t].score \in Nat /\ bestRow[t].score \in Nat
  BY DEF TypeOK, Rows
<1>2. CASE curRow[t] = NoRow
  BY <1>1, <1>2 DEF Old, HeirOf
<1>3. CASE bestRow[t] = NoRow
  BY <1>1, <1>3 DEF Old, HeirOf
<1>4. CASE curRow[t] # NoRow /\ bestRow[t] # NoRow
  BY <1>1, <1>4 DEF Old, HeirOf
<1> QED BY <1>2, <1>3, <1>4

LEMMA RowsReadStep == TypeOK /\ RowsRead /\ [Next]_vars => RowsRead'
<1> SUFFICES ASSUME TypeOK, RowsRead, [Next]_vars PROVE RowsRead'
  OBVIOUS
<1> USE DEF TypeOK, RowsRead, Old, Goto, Return
<1>1. CASE Crash
  BY <1>1 DEF Crash
<1>2. ASSUME NEW t \in Threads, Begin(t) PROVE RowsRead'
  BY <1>2 DEF Begin, Bootstrap, RunCycle, DecideRead, Execute, Rollback
<1>3. ASSUME NEW t \in Threads, CycleStep(t) \/ DecideWrite(t) PROVE RowsRead'
  <2>1. \/ UNCHANGED <<curRow, bestRow>>
        \/ /\ curRow' = [curRow EXCEPT ![t] = NoRow]
           /\ bestRow' = [bestRow EXCEPT ![t] = NoRow]
    BY <1>3 DEF CycleStep, Baseline, Register, SaveCheckpoint, Test, Compare,
                RequestApproval, Reject, CycleRaises, DecideWrite
  <2>2. \E l \in {"idle", "register", "save", "test", "adopt", "compare", "verdict"} :
            pc[t] \notin SwapLabels /\ pc' = [pc EXCEPT ![t] = l]
    BY <1>3 DEF CycleStep, Baseline, Register, SaveCheckpoint, Test, Compare, RequestApproval,
                Reject, CycleRaises, DecideWrite, SwapLabels, AdoptLabels, RollbackLabels
  <2> QED BY <2>1, <2>2
<1>4. ASSUME NEW t \in Threads, AdoptReadCurrent(t) PROVE RowsRead'
  <2>1. Newest("current") # NoRow => Newest("current").id \in Models
    BY NewestRow
  <2> QED BY <1>4, <2>1 DEF AdoptReadCurrent
<1>5. ASSUME NEW t \in Threads, AdoptReadBest(t) PROVE RowsRead'
  <2>1. Newest("best_historical") # NoRow => Newest("best_historical").id \in Models
    BY NewestRow
  <2> QED BY <1>5, <2>1 DEF AdoptReadBest
<1>6. ASSUME NEW t \in Threads, AdoptArchive(t) \/ AdoptUnbest(t) \/ AdoptHeir(t)
      PROVE  RowsRead'
  BY <1>6 DEF AdoptArchive, AdoptUnbest, AdoptHeir
<1>7. ASSUME NEW t \in Threads, AdoptPromote(t) \/ RollbackPromote(t) PROVE RowsRead'
  BY <1>7 DEF AdoptPromote, RollbackPromote
<1>8. ASSUME NEW t \in Threads, RollbackReadCurrent(t) \/ RollbackArchive(t) PROVE RowsRead'
  <2>1. Newest("current") # NoRow => Newest("current").id \in Models
    BY NewestRow
  <2> QED BY <1>8, <2>1 DEF RollbackReadCurrent, RollbackArchive
<1>9. CASE UNCHANGED vars
  BY <1>9 DEF vars, callVars
<1> QED BY <1>1, <1>2, <1>3, <1>4, <1>5, <1>6, <1>7, <1>8, <1>9
        DEF Next, Continue, SwapStep, AdoptStep, RollbackStep

\* Steps outside a swap neither make nor unmake a current or a best model, as
\* long as no cycle rejects a model that is no candidate any more.
LEMMA HeirKeeps ==
    ASSUME TypeOK, RowsRead, NEW t \in Threads, HeirPlaced(t), Stands(t),
           pc'[t] \in SwapLabels \ {"adopt", "rollback"} =>
               /\ pc'[t] = pc[t]
               /\ curRow'[t] = curRow[t] /\ bestRow'[t] = bestRow[t],
           \A m \in Models, s \in {"current", "best_historical"} :
               status'[m] = s <=> status[m] = s
    PROVE  HeirPlaced(t)' /\ Stands(t)'
<1>1. CASE pc'[t] \in SwapLabels \ {"adopt", "rollback"}
  <2>1. HeirPlaced(t)'
    BY <1>1 DEF HeirPlaced, Old, HeirOf, With
  <2>2. Stands(t)'
    BY <1>1 DEF Stands, Old, NoneIs, RowsRead
  <2> QED BY <2>1, <2>2
<1>2. CASE pc'[t] \notin SwapLabels \ {"adopt", "rollback"}
  BY <1>2 DEF HeirPlaced, Stands, SwapLabels, AdoptLabels, RollbackLabels
<1> QED BY <1>1, <1>2

\* The call of adopt_model itself.
LEMMA StandsAdopt ==
    ASSUME TypeOK, Clean, RowsRead, NEW t \in Threads, Stands(t), AdoptStep(t)
    PROVE  Stands(t)'
<1> USE DEF TypeOK, Goto, Return, SetStatus
<1>1. BestBound(t) /\ CurrentBound(t)
  BY DEF Clean
<1>2. CASE AdoptReadCurrent(t)
  <2>1. Newest("current") # NoRow => status[Newest("current").id] = "current"
    BY NewestRow
  <2>2. /\ pc'[t] = "adopt_best" /\ curRow'[t] = Newest("current") /\ status' = status
    BY <1>2 DEF AdoptReadCurrent, registryVars
  <2> QED BY <2>1, <2>2 DEF Stands
<1>3. CASE AdoptReadBest(t)
  <2>1. /\ Newest("best_historical") # NoRow
               => status[Newest("best_historical").id] = "best_historical"
        /\ Newest("best_historical") = NoRow => NoneIs("best_historical")
    BY <1>1, OnlyNewest, NewestRow DEF Clean
  <2>2. /\ pc[t] = "adopt_best" /\ curRow' = curRow /\ status' = status
        /\ bestRow'[t] = Newest("best_historical")
        /\ pc'[t] = "adopt_promote" => Newest("best_historical") = NoRow
        /\ pc'[t] \in {"adopt_archive", "adopt_unbest", "adopt_promote"}
    BY <1>3 DEF AdoptReadBest, registryVars
  <2> QED BY <2>1, <2>2 DEF Stands, NoneIs
<1>4. CASE AdoptArchive(t)
  <2>1. /\ pc[t] = "adopt_archive" /\ bestRow' = bestRow
        /\ status' = [status EXCEPT ![curRow[t].id] = "archived"]
        /\ pc'[t] \in {"adopt_unbest", "adopt_heir"}
    BY <1>4 DEF AdoptArchive
  <2>2. status[curRow[t].id] = "current"
    BY <2>1 DEF RowsRead, Stands
  <2>3. bestRow[t] # NoRow => bestRow[t].id # curRow[t].id /\ bestRow[t].id \in Models
    BY <2>1, <2>2 DEF Stands, RowsRead
  <2> QED BY <2>1, <2>3 DEF Stands
<1>5. CASE AdoptUnbest(t) \/ AdoptHeir(t) \/ AdoptPromote(t)
  <2>1. /\ pc'[t] \in {"adopt_heir", "adopt_promote", "idle"}
        /\ pc'[t] = "adopt_promote" => curRow' = curRow /\ bestRow' = bestRow
                                       /\ pc[t] = "adopt_heir"
    BY <1>5 DEF AdoptUnbest, AdoptHeir, AdoptPromote
  <2> QED BY <2>1 DEF Stands, RowsRead, Old
<1> QED BY <1>2, <1>3, <1>4, <1>5 DEF AdoptStep

\* Whoever disturbed a swap has disturbed it for good.
LEMMA CleanBefore == [Next]_vars /\ past' = "clean" => past = "clean"
BY DEF Next, Begin, Continue, SwapStep, CycleStep, AdoptStep, RollbackStep, Crash, Bootstrap,
       RunCycle, DecideRead, Execute, Rollback, EnterSwap, Baseline, Register, SaveCheckpoint,
       Test, Compare, RequestApproval, Reject, CycleRaises, DecideWrite, AdoptReadCurrent,
       AdoptReadBest, AdoptArchive, AdoptUnbest, AdoptHeir, AdoptPromote, RollbackReadCurrent,
       RollbackArchive, RollbackPromote, vars

\* The steps outside a swap, in one: they leave the threads in a swap, what
\* those have read, and the current and the best model alone.
LEMMA OutsideSwaps ==
    ASSUME TypeOK, past = "clean", past' = "clean", NEW t \in Threads,
           Begin(t) \/ CycleStep(t) \/ DecideWrite(t)
    PROVE  /\ \A u \in Threads : pc'[u] \in SwapLabels \ {"adopt", "rollback"} =>
                  /\ pc'[u] = pc[u]
                  /\ curRow'[u] = curRow[u] /\ bestRow'[u] = bestRow[u]
           /\ \A m \in Models, s \in {"current", "best_historical"} :
                  status'[m] = s <=> status[m] = s
           /\ pc[t] \notin SwapLabels
           /\ \A u \in Threads \ {t} : pc'[u] = pc[u]
<1> USE DEF registryVars, trainVars
<1>1. CASE Begin(t)
  <2>1. /\ status' = status /\ curRow' = curRow /\ bestRow' = bestRow /\ pc[t] = "idle"
        /\ \E l \in {"bootstrap", "baseline", "decide", "adopt", "rollback"} :
              pc' = [pc EXCEPT ![t] = l]
    BY <1>1 DEF Begin, Bootstrap, RunCycle, DecideRead, Execute, Rollback, Goto
  <2> QED BY <2>1 DEF TypeOK, SwapLabels, AdoptLabels, RollbackLabels
<1>2. CASE CycleStep(t) \/ DecideWrite(t)
  <2>1. \E l \in {"idle", "register", "save", "test", "adopt", "compare", "verdict"} :
            pc[t] \notin SwapLabels /\ pc' = [pc EXCEPT ![t] = l]
    BY <1>2 DEF Goto, Return, CycleStep, Baseline, Register, SaveCheckpoint, Test, Compare,
                RequestApproval, Reject, CycleRaises, DecideWrite, SwapLabels, AdoptLabels,
                RollbackLabels
  <2>2. \A u \in Threads \ {t} : curRow'[u] = curRow[u] /\ bestRow'[u] = bestRow[u]
    BY <1>2 DEF TypeOK, Return, CycleStep, Baseline, Register, SaveCheckpoint, Test, Compare,
                RequestApproval, Reject, CycleRaises, DecideWrite
  <2>3. \A u \in Threads : pc'[u] \in SwapLabels \ {"adopt", "rollback"} =>
            pc'[u] = pc[u] /\ curRow'[u] = curRow[u] /\ bestRow'[u] = bestRow[u]
    BY <2>1, <2>2 DEF TypeOK, SwapLabels, AdoptLabels, RollbackLabels
  <2>4. \A m \in Models, s \in {"current", "best_historical"} : status'[m] = s <=> status[m] = s
    <3>1. CASE Register(t)
      BY <3>1 DEF TypeOK, Register, SetStatus, With
    <3>2. CASE Reject(t)
      <4>1. status[target[t]] = "candidate" /\ status' = [status EXCEPT ![target[t]] = "rejected"]
        BY <3>2 DEF Reject, SetStatus
      <4> QED BY <4>1 DEF TypeOK
    <3>3. CASE ~ Register(t) /\ ~ Reject(t)
      BY <1>2, <3>3 DEF CycleStep, Baseline, SaveCheckpoint, Test, Compare, RequestApproval,
                        CycleRaises, DecideWrite, FullEval
    <3> QED BY <3>1, <3>2, <3>3
  <2> QED BY <2>1, <2>3, <2>4 DEF TypeOK
<1> QED BY <1>1, <1>2

LEMMA HeirAdopt ==
    ASSUME TypeOK, Clean, RowsRead, NEW t \in Threads, AdoptStep(t)
    PROVE  HeirPlaced(t)'
<1> USE DEF TypeOK, Goto, Return, SetStatus
<1>1. BestBound(t) /\ HeirOf(t) \in Rows
  BY DEF Clean, HeirOf
<1>2. CASE AdoptReadCurrent(t) \/ AdoptArchive(t) \/ AdoptUnbest(t) \/ AdoptPromote(t)
  <2>1. pc'[t] # "adopt_promote"
    BY <1>2 DEF AdoptReadCurrent, AdoptArchive, AdoptUnbest, AdoptPromote
  <2> QED BY <2>1 DEF HeirPlaced
<1>3. CASE AdoptReadBest(t)
  <2>1. /\ curRow' = curRow
        /\ bestRow'[t] = Newest("best_historical")
        /\ pc'[t] = "adopt_promote" => curRow[t] = NoRow /\ Newest("best_historical") = NoRow
    BY <1>3 DEF AdoptReadBest
  <2> QED BY <2>1 DEF HeirPlaced, Old
<1>4. CASE AdoptHeir(t)
  <2>1. /\ status' = [status EXCEPT ![HeirOf(t).id] = "best_historical"]
        /\ curRow' = curRow /\ bestRow' = bestRow /\ pc[t] = "adopt_heir"
    BY <1>4 DEF AdoptHeir
  <2>2. NoneIs("best_historical")
    BY <1>1, <2>1 DEF BestBound
  <2>3. HeirOf(t).id \in Models
    <3>1. Old(t) # {}
      BY <2>1 DEF RowsRead
    <3>2. HeirOf(t) \in Old(t)
      BY <3>1, HeirIsBest
    <3> QED BY <3>2 DEF RowsRead, Old
  <2>4. PICK h : h = HeirOf(t).id
    OBVIOUS
  <2>5. HeirOf(t)' = HeirOf(t)
    BY <2>1 DEF HeirOf
  <2>6. {m \in Models : status'[m] = "best_historical"} = {h}
    BY <2>1, <2>2, <2>3, <2>4 DEF NoneIs
  <2> QED BY <2>4, <2>5, <2>6 DEF HeirPlaced, With
<1> QED BY <1>2, <1>3, <1>4 DEF AdoptStep

LEMMA HeirStep == OneInv /\ RowsRead /\ HeirInv /\ [Next]_vars => HeirInv'
<1> SUFFICES ASSUME OneInv, RowsRead, HeirInv, [Next]_vars, past' = "clean",
                    NEW u \in Threads
             PROVE  HeirPlaced(u)' /\ Stands(u)'
  BY DEF HeirInv
<1>1. TypeOK
  BY DEF OneInv
<1>2. past = "clean"
  BY CleanBefore
<1>3. Clean /\ HeirPlaced(u) /\ Stands(u)
  BY <1>2 DEF OneInv, HeirInv
<1>4. CASE Crash
  BY <1>4 DEF Crash, HeirPlaced, Stands
<1>5. ASSUME NEW t \in Threads, Begin(t) \/ CycleStep(t) \/ DecideWrite(t)
      PROVE  HeirPlaced(u)' /\ Stands(u)'
  BY <1>1, <1>2, <1>3, <1>5, OutsideSwaps, HeirKeeps
<1>6. ASSUME NEW t \in Threads, AdoptStep(t) \/ RollbackStep(t)
      PROVE  HeirPlaced(u)' /\ Stands(u)'
  <2>1. /\ pc[t] \in SwapLabels
        /\ \E l \in SwapLabels \cup {"idle"} : pc' = [pc EXCEPT ![t] = l]
    BY <1>1, <1>6, SwapEffect
  <2>2. CASE u # t
    <3>1. pc[u] \notin SwapLabels
      BY <1>3, <2>1, <2>2 DEF Clean, Alone
    <3>2. pc'[u] = pc[u]
      BY <1>1, <2>1, <2>2 DEF TypeOK
    <3> QED BY <3>1, <3>2 DEF HeirPlaced, Stands, SwapLabels, AdoptLabels, RollbackLabels
  <2>3. CASE u = t /\ AdoptStep(t)
    BY <1>1, <1>3, <2>3, HeirAdopt, StandsAdopt
  <2>4. CASE u = t /\ RollbackReadCurrent(t)
    <3>1. Newest("current") # NoRow => status[Newest("current").id] = "current"
      BY <1>1, NewestRow
    <3>2. /\ pc'[t] \in {"rollback_archive", "rollback_promote"}
          /\ curRow'[t] = Newest("current") /\ status' = status
      BY <1>1, <2>4 DEF TypeOK, Goto, RollbackReadCurrent, registryVars
    <3> QED BY <2>4, <3>1, <3>2 DEF HeirPlaced, Stands
  <2>5. CASE u = t /\ (RollbackArchive(t) \/ RollbackPromote(t))
    <3>1. pc'[t] \in {"rollback_promote", "idle"}
      BY <1>1, <2>5 DEF TypeOK, Goto, Return, RollbackArchive, RollbackPromote
    <3> QED BY <2>5, <3>1 DEF HeirPlaced, Stands
  <2> QED BY <1>6, <2>2, <2>3, <2>4, <2>5 DEF RollbackStep
<1>7. CASE UNCHANGED vars
  BY <1>1, <1>3, <1>7, HeirKeeps DEF vars, registryVars, callVars
<1> QED BY <1>4, <1>5, <1>6, <1>7 DEF Next, Continue, SwapStep

LEMMA HeirInvariant == Spec => [](TypeOK /\ TargetKnown /\ OneInv /\ RowsRead /\ HeirInv)
<1>1. Init => TargetKnown /\ RowsRead /\ HeirInv
  BY DEF Init, RegistryInit, TargetKnown, RowsRead, HeirInv, HeirPlaced, Stands, Old
<1> QED BY <1>1, TypeCorrect, TargetKnownStep, RowsReadStep, HeirStep, OneInvariant, PTL DEF Spec

\* When an undisturbed adopt_model promotes its model, the better of the two it
\* replaced is the one best_historical model, or is the model it promotes:
\* rollback() finds the best of the past (registry.py:165-181), for any scores,
\* with cycles, decisions and bootstraps of other threads in between.
THEOREM BestIsKept == Spec => AdoptKeepsBest
<1>1. ASSUME TypeOK, HeirInv, NEW t \in Threads, AdoptPromote(t), past = "clean", Old(t) # {}
      PROVE  \E best \in Old(t) :
                /\ \A r \in Old(t) : r.score <= best.score
                /\ \/ best.id = target[t]
                   \/ {m \in Models : status'[m] = "best_historical"} = {best.id}
  <2>1. HeirOf(t) \in Old(t) /\ \A r \in Old(t) : r.score <= HeirOf(t).score
    BY <1>1, HeirIsBest
  <2>2. /\ With("best_historical") = {HeirOf(t).id}
        /\ status' = [status EXCEPT ![target[t]] = "current"]
    BY <1>1 DEF HeirInv, HeirPlaced, AdoptPromote, SetStatus
  <2>3. CASE HeirOf(t).id = target[t]
    BY <2>1, <2>3
  <2>4. CASE HeirOf(t).id # target[t]
    <3>1. {m \in Models : status'[m] = "best_historical"} = {HeirOf(t).id}
      BY <1>1, <2>2, <2>4 DEF With, TypeOK
    <3> QED BY <2>1, <3>1
  <2> QED BY <2>3, <2>4
<1>2. TypeOK /\ HeirInv /\ [Next]_vars
      => [\A t \in Threads :
            LET old == {curRow[t], bestRow[t]} \ {NoRow}
            IN  AdoptPromote(t) /\ past = "clean" /\ old # {} =>
                    \E best \in old :
                        /\ \A r \in old : r.score <= best.score
                        /\ \/ best.id = target[t]
                           \/ {m \in Models : status'[m] = "best_historical"} = {best.id}]_vars
  BY <1>1 DEF Old
<1> QED BY <1>2, HeirInvariant, PTL DEF Spec, AdoptKeepsBest

(***************************************************************************)
(* SwapsAreAtomic. Undisturbed, the statements of a swap before its last   *)
(* one change nothing a reader of the cell can see, and the last one shows *)
(* the new current and the new best model at once.                         *)
(***************************************************************************)

\* What the cell shows while t alone may be in the middle of a swap.
CellShows(t) ==
    (\A u \in Threads \ {t} : ~ Promising(u)) =>
        /\ InProduction \subseteq Models /\ BestOfPast \subseteq Models
        /\ \A m \in Models : m \in InProduction <=>
               \/ status[m] = "current"
               \/ Promising(t) /\ curRow[t].id = m
        /\ \A m \in Models : m \in BestOfPast <=>
               IF Promising(t) /\ pc[t] # "rollback_promote"
               THEN bestRow[t].id = m ELSE status[m] = "best_historical"

LEMMA CellView == \A t \in Threads : CellShows(t)
<1> SUFFICES ASSUME NEW t \in Threads, \A u \in Threads \ {t} : ~ Promising(u)
             PROVE  /\ InProduction \subseteq Models /\ BestOfPast \subseteq Models
                    /\ \A m \in Models : m \in InProduction <=>
                           \/ status[m] = "current"
                           \/ Promising(t) /\ curRow[t].id = m
                    /\ \A m \in Models : m \in BestOfPast <=>
                           IF Promising(t) /\ pc[t] # "rollback_promote"
                           THEN bestRow[t].id = m ELSE status[m] = "best_historical"
  BY DEF CellShows
<1>1. \A m \in Models : m \in InProduction <=>
          \/ status[m] = "current"
          \/ Promising(t) /\ curRow[t].id = m
  BY DEF InProduction
<1>2. CASE Promising(t) /\ pc[t] # "rollback_promote"
  <2>1. {u \in Threads : Promising(u) /\ pc[u] # "rollback_promote"} = {t}
    BY <1>2
  <2>2. BestOfPast = {m \in Models : \E u \in {t} : bestRow[u].id = m}
    BY <2>1 DEF BestOfPast
  <2> QED BY <1>1, <1>2, <2>2 DEF InProduction
<1>3. CASE ~ (Promising(t) /\ pc[t] # "rollback_promote")
  <2>1. {u \in Threads : Promising(u) /\ pc[u] # "rollback_promote"} = {}
    BY <1>3
  <2>2. BestOfPast = With("best_historical")
    BY <2>1 DEF BestOfPast
  <2> QED BY <1>1, <1>3, <2>2 DEF InProduction, With
<1> QED BY <1>2, <1>3

\* It shows the same in the state that a step leads to.
LEMMA CellViewNext == (\A t \in Threads : CellShows(t))'
BY CellView, PTL

\* Steps that leave the threads in a swap, what those have read, and the current
\* and the best model alone leave the cell alone.
LEMMA CellKeeps ==
    ASSUME \A u \in Threads : Promising(u)' <=> Promising(u),
           \A u \in Threads : Promising(u) =>
               pc'[u] = pc[u] /\ curRow'[u] = curRow[u] /\ bestRow'[u] = bestRow[u],
           \A m \in Models, s \in {"current", "best_historical"} :
               status'[m] = s <=> status[m] = s
    PROVE  InProduction' = InProduction /\ BestOfPast' = BestOfPast
<1>1. InProduction' = InProduction
  BY DEF InProduction
<1>2. With("best_historical")' = With("best_historical")
  BY DEF With
<1> DEFINE Adopting == {u \in Threads : Promising(u) /\ pc[u] # "rollback_promote"}
<1>3. Adopting' = Adopting
  OBVIOUS
<1>4. {m \in Models : \E u \in Adopting : bestRow[u].id = m}'
        = {m \in Models : \E u \in Adopting : bestRow[u].id = m}
  BY <1>3
<1> QED BY <1>1, <1>2, <1>3, <1>4 DEF BestOfPast
\* A step inside a swap: nobody else is in one, before and after.
LEMMA CellAlone ==
    ASSUME TypeOK, Clean, NEW t \in Threads, AdoptStep(t) \/ RollbackStep(t)
    PROVE  CellShows(t)' /\ CellShows(t) /\ \A u \in Threads \ {t} : ~ Promising(u) /\ ~ Promising(u)'
<1>1. /\ pc[t] \in SwapLabels
      /\ \E l \in SwapLabels \cup {"idle"} : pc' = [pc EXCEPT ![t] = l]
  BY SwapEffect
<1>2. \A u \in Threads \ {t} : pc[u] \notin SwapLabels /\ pc'[u] = pc[u]
  BY <1>1 DEF TypeOK, Clean, Alone
<1>3. \A u \in Threads \ {t} : ~ Promising(u) /\ ~ Promising(u)'
  BY <1>2 DEF Promising, SwapLabels, AdoptLabels, RollbackLabels
<1> QED BY <1>3, CellView, CellViewNext

\* The statements of adopt_model before the last one.
LEMMA AdoptHides ==
    ASSUME TypeOK, Clean, RowsRead, NEW t \in Threads, Stands(t), AdoptStep(t), ~ AdoptPromote(t)
    PROVE  InProduction' = InProduction /\ BestOfPast' = BestOfPast
<1> USE DEF TypeOK, Goto, SetStatus, registryVars
<1>1. CellShows(t) /\ CellShows(t)' /\ \A u \in Threads \ {t} : ~ Promising(u) /\ ~ Promising(u)'
  BY CellAlone
<1>2. CurrentBound(t) /\ BestBound(t)
  BY DEF Clean
<1>3. \A m \in Models : m # NoModel
  BY DEF Models, NoModel
<1> SUFFICES /\ \A m \in Models :
                    (status'[m] = "current" \/ (Promising(t)' /\ curRow'[t].id = m))
                    <=> (status[m] = "current" \/ (Promising(t) /\ curRow[t].id = m))
             /\ \A m \in Models :
                    (IF Promising(t)' /\ pc'[t] # "rollback_promote"
                     THEN bestRow'[t].id = m ELSE status'[m] = "best_historical")
                    <=> (IF Promising(t) /\ pc[t] # "rollback_promote"
                         THEN bestRow[t].id = m ELSE status[m] = "best_historical")
  <2> DEFINE P(m) == status[m] = "current" \/ (Promising(t) /\ curRow[t].id = m)
             B(m) == IF Promising(t) /\ pc[t] # "rollback_promote"
                     THEN bestRow[t].id = m ELSE status[m] = "best_historical"
  <2>1. InProduction \subseteq Models /\ BestOfPast \subseteq Models
        /\ \A m \in Models : (m \in InProduction <=> P(m)) /\ (m \in BestOfPast <=> B(m))
    BY <1>1 DEF CellShows
  <2>2. InProduction' \subseteq Models /\ BestOfPast' \subseteq Models
        /\ \A m \in Models : (m \in InProduction' <=> P(m)') /\ (m \in BestOfPast' <=> B(m)')
    BY <1>1 DEF CellShows
  <2>3. (\A m \in Models : P(m)' <=> P(m)) /\ (\A m \in Models : B(m)' <=> B(m))
    OBVIOUS
  <2> HIDE DEF P, B
  <2> QED BY <2>1, <2>2, <2>3
<1>4. CASE AdoptReadCurrent(t)
  BY <1>4 DEF AdoptReadCurrent, Promising
<1>5. CASE AdoptReadBest(t)
  <2>1. /\ OnlyIs("best_historical", Newest("best_historical").id)
        /\ Newest("best_historical") = NoRow => NoneIs("best_historical")
        /\ Newest("best_historical") # NoRow
               => status[Newest("best_historical").id] = "best_historical"
    BY OnlyNewest, NewestRow DEF Clean
  <2>2. /\ pc[t] = "adopt_best" /\ curRow' = curRow /\ status' = status
        /\ bestRow'[t] = Newest("best_historical")
        /\ pc'[t] = (IF curRow[t] # NoRow THEN "adopt_archive"
                     ELSE IF Newest("best_historical") # NoRow THEN "adopt_unbest"
                     ELSE "adopt_promote")
    BY <1>5 DEF AdoptReadBest
  <2>3. PICK b : b = Newest("best_historical")
    OBVIOUS
  <2>4. curRow[t] = NoRow => NoneIs("current") /\ \A m \in Models : curRow[t].id # m
    BY <1>2, <1>3, <2>2, NoModelIsNone DEF CurrentBound, NoRow
  <2>5. \A m \in Models : status[m] = "best_historical" <=> b.id = m
    BY <1>3, <2>1, <2>3 DEF OnlyIs, NoneIs, NoRow
  <2>6. CASE curRow[t] # NoRow
    BY <2>2, <2>6 DEF Promising
  <2>7. CASE curRow[t] = NoRow
    <3>1. Promising(t)' /\ pc'[t] # "rollback_promote" /\ ~ Promising(t)
      BY <2>2, <2>7 DEF Promising
    <3> QED BY <2>2, <2>3, <2>4, <2>5, <2>7, <3>1
  <2> QED BY <2>6, <2>7
<1>6. CASE AdoptArchive(t)
  <2>1. /\ pc[t] = "adopt_archive" /\ bestRow' = bestRow /\ curRow' = curRow
        /\ status' = [status EXCEPT ![curRow[t].id] = "archived"]
        /\ pc'[t] \in {"adopt_unbest", "adopt_heir"}
    BY <1>6 DEF AdoptArchive
  <2>2. PICK c : c = curRow[t].id
    OBVIOUS
  <2>3. PICK b : b = bestRow[t].id
    OBVIOUS
  <2>4. c \in Models /\ \A m \in Models : status[m] = "current" <=> m = c
    BY <1>2, <2>1, <2>2 DEF RowsRead, Stands, CurrentBound, OnlyIs
  <2>5. \A m \in Models : status[m] = "best_historical" <=> m = b
    BY <1>2, <1>3, <2>1, <2>3 DEF RowsRead, Stands, BestBound, OnlyIs, NoRow
  <2>6. Promising(t)' /\ pc'[t] # "rollback_promote" /\ ~ Promising(t)
    BY <2>1 DEF Promising
  <2> QED BY <2>1, <2>2, <2>3, <2>4, <2>5, <2>6
<1>7. CASE AdoptUnbest(t) \/ AdoptHeir(t)
  <2>1. /\ pc[t] \in {"adopt_unbest", "adopt_heir"} /\ bestRow' = bestRow /\ curRow' = curRow
        /\ \A m \in Models : status'[m] \in {status[m], "archived", "best_historical"}
        /\ pc'[t] \in {"adopt_heir", "adopt_promote"}
    BY <1>7 DEF AdoptUnbest, AdoptHeir
  <2>2. NoneIs("current")
    BY <1>2, <2>1 DEF CurrentBound
  <2>3. \A m \in Models : status'[m] # "current"
    BY <2>1, <2>2 DEF NoneIs
  <2>4. /\ Promising(t) /\ pc[t] # "rollback_promote"
        /\ Promising(t)' /\ pc'[t] # "rollback_promote"
    BY <2>1 DEF Promising
  <2> QED BY <2>1, <2>2, <2>3, <2>4 DEF NoneIs
<1> QED BY <1>4, <1>5, <1>6, <1>7 DEF AdoptStep
\* The statements of rollback before the last one.
LEMMA RollbackHides ==
    ASSUME TypeOK, Clean, RowsRead, NEW t \in Threads, Stands(t), RollbackStep(t),
           ~ RollbackPromote(t)
    PROVE  InProduction' = InProduction /\ BestOfPast' = BestOfPast
<1> USE DEF TypeOK, Goto, SetStatus, registryVars
<1>1. CellShows(t) /\ CellShows(t)' /\ \A u \in Threads \ {t} : ~ Promising(u) /\ ~ Promising(u)'
  BY CellAlone
<1>2. CurrentBound(t)
  BY DEF Clean
<1>3. CASE RollbackReadCurrent(t)
  <2>1. /\ Newest("current") = NoRow => NoneIs("current")
        /\ \A m \in Models : NoRow.id # m
    BY OnlyNewest DEF Clean, NoRow, NoModel, Models
  <2>2. /\ pc[t] = "rollback" /\ status' = status /\ curRow'[t] = Newest("current")
        /\ pc'[t] = (IF Newest("current") # NoRow THEN "rollback_archive" ELSE "rollback_promote")
    BY <1>3 DEF RollbackReadCurrent
  <2>3. \A m \in Models : ~ (Promising(t)' /\ curRow'[t].id = m)
    BY <2>1, <2>2 DEF Promising
  <2>4. ~ Promising(t) /\ ~ (Promising(t)' /\ pc'[t] # "rollback_promote")
    BY <2>2 DEF Promising
  <2> QED BY <1>1, <2>2, <2>3, <2>4 DEF CellShows
<1>4. CASE RollbackArchive(t)
  <2>1. /\ pc[t] = "rollback_archive" /\ curRow' = curRow /\ pc'[t] = "rollback_promote"
        /\ status' = [status EXCEPT ![curRow[t].id] = "archived"]
    BY <1>4 DEF RollbackArchive
  <2>2. PICK c : c = curRow[t].id
    OBVIOUS
  <2>3. c \in Models /\ \A m \in Models : status[m] = "current" <=> m = c
    BY <1>2, <2>1, <2>2 DEF RowsRead, Stands, CurrentBound, OnlyIs
  <2>4. ~ Promising(t) /\ Promising(t)' /\ ~ (pc'[t] # "rollback_promote")
    BY <2>1 DEF Promising
  <2>5. /\ \A m \in Models : /\ (m \in InProduction <=> m = c)
                             /\ (m \in BestOfPast <=> status[m] = "best_historical")
        /\ InProduction \subseteq Models /\ BestOfPast \subseteq Models
    BY <1>1, <2>3, <2>4 DEF CellShows
  <2>6. \A m \in Models : status'[m] = IF m = c THEN "archived" ELSE status[m]
    BY <2>1, <2>2, <2>3
  <2>7. /\ \A m \in Models : /\ (m \in InProduction' <=> m = c)
                             /\ (m \in BestOfPast' <=> status'[m] = "best_historical")
        /\ InProduction' \subseteq Models /\ BestOfPast' \subseteq Models
    BY <1>1, <2>1, <2>2, <2>3, <2>4, <2>6 DEF CellShows
  <2>8. InProduction' = InProduction
    BY <2>5, <2>7
  <2>9. BestOfPast' = BestOfPast
    BY <2>3, <2>5, <2>6, <2>7
  <2> QED BY <2>8, <2>9
<1> QED BY <1>3, <1>4 DEF RollbackStep

\* The last statement of adopt_model.
LEMMA AdoptShows ==
    ASSUME TypeOK, Clean, TargetKnown, RowsRead, NEW t \in Threads, HeirPlaced(t), Stands(t),
           AdoptPromote(t)
    PROVE  /\ target[t] \in Models /\ InProduction' = {target[t]}
           /\ IF InProduction \cup BestOfPast = {}
              THEN BestOfPast' = {}
              ELSE \E old \in InProduction \cup BestOfPast : BestOfPast' = {old} \ {target[t]}
<1>1. CellShows(t) /\ CellShows(t)' /\ \A u \in Threads \ {t} : ~ Promising(u) /\ ~ Promising(u)'
  BY CellAlone DEF AdoptStep
<1>2. /\ pc[t] = "adopt_promote" /\ pc'[t] = "idle"
      /\ status' = [status EXCEPT ![target[t]] = "current"]
      /\ NoneIs("current")
  BY DEF AdoptPromote, SetStatus, Return, Goto, TypeOK, Clean, CurrentBound
<1>3. PICK k \in Models : k = target[t]
  BY <1>2 DEF TargetKnown
<1>4. /\ Promising(t) /\ pc[t] # "rollback_promote" /\ ~ Promising(t)'
  BY <1>2 DEF Promising
<1>5. /\ \A m \in Models : m \in InProduction <=> curRow[t].id = m
      /\ \A m \in Models : m \in BestOfPast <=> bestRow[t].id = m
      /\ \A m \in Models : m \in InProduction' <=> status'[m] = "current"
      /\ \A m \in Models : m \in BestOfPast' <=> status'[m] = "best_historical"
      /\ InProduction \subseteq Models /\ BestOfPast \subseteq Models
      /\ InProduction' \subseteq Models /\ BestOfPast' \subseteq Models
  BY <1>1, <1>2, <1>4 DEF CellShows, NoneIs
<1>6. \A m \in Models : status'[m] = IF m = k THEN "current" ELSE status[m]
  BY <1>2, <1>3 DEF TypeOK
<1>7. InProduction' = {k}
  BY <1>2, <1>5, <1>6 DEF NoneIs
<1>8. CASE Old(t) = {}
  <2>1. NoneIs("best_historical")
    BY <1>2, <1>8 DEF Stands
  <2>2. BestOfPast' = {}
    BY <1>5, <1>6, <2>1 DEF NoneIs
  <2>3. \A m \in Models : curRow[t].id # m /\ bestRow[t].id # m
    BY <1>8 DEF Old, NoRow, NoModel, Models
  <2>4. InProduction \cup BestOfPast = {}
    BY <1>5, <2>3
  <2> QED BY <1>3, <1>7, <2>2, <2>4
<1>9. CASE Old(t) # {}
  <2>1. PICK h : h = HeirOf(t).id
    OBVIOUS
  <2>2. HeirOf(t) \in Old(t) /\ h \in Models
    BY <1>9, <2>1, HeirIsBest DEF RowsRead, Old
  <2>3. With("best_historical") = {h}
    BY <1>2, <1>9, <2>1 DEF HeirPlaced
  <2>4. h \in InProduction \cup BestOfPast
    BY <1>5, <2>1, <2>2 DEF Old
  <2>5. BestOfPast' = {h} \ {k}
    BY <1>5, <1>6, <2>2, <2>3 DEF With
  <2> QED BY <1>3, <1>7, <2>4, <2>5
<1> QED BY <1>8, <1>9

\* The last statement of rollback.
LEMMA RollbackShows ==
    ASSUME TypeOK, Clean, TargetKnown, NEW t \in Threads, RollbackPromote(t)
    PROVE  /\ target[t] \in Models /\ InProduction' = {target[t]}
           /\ BestOfPast' = BestOfPast \ {target[t]}
<1>1. CellShows(t) /\ CellShows(t)' /\ \A u \in Threads \ {t} : ~ Promising(u) /\ ~ Promising(u)'
  BY CellAlone DEF RollbackStep
<1>2. /\ pc[t] = "rollback_promote" /\ pc'[t] = "idle"
      /\ status' = [status EXCEPT ![target[t]] = "current"]
      /\ NoneIs("current")
  BY DEF RollbackPromote, SetStatus, Return, Goto, TypeOK, Clean, CurrentBound
<1>3. PICK k \in Models : k = target[t]
  BY <1>2 DEF TargetKnown
<1>4. ~ (pc[t] # "rollback_promote") /\ ~ Promising(t)'
  BY <1>2 DEF Promising
<1>5. /\ \A m \in Models : m \in BestOfPast <=> status[m] = "best_historical"
      /\ \A m \in Models : m \in InProduction' <=> status'[m] = "current"
      /\ \A m \in Models : m \in BestOfPast' <=> status'[m] = "best_historical"
      /\ BestOfPast \subseteq Models
      /\ InProduction' \subseteq Models /\ BestOfPast' \subseteq Models
  BY <1>1, <1>4 DEF CellShows
<1>6. \A m \in Models : status'[m] = IF m = k THEN "current" ELSE status[m]
  BY <1>2, <1>3 DEF TypeOK
<1>7. InProduction' = {k}
  BY <1>2, <1>5, <1>6 DEF NoneIs
<1>8. BestOfPast' = BestOfPast \ {k}
  BY <1>5, <1>6
<1> QED BY <1>3, <1>7, <1>8
\* Every step is a swap of the cell, disturbs it, or leaves it alone.
LEMMA CellStep ==
    TypeOK /\ TargetKnown /\ OneInv /\ RowsRead /\ HeirInv /\ [Next]_vars =>
        \/ past' = past /\ InProduction' = InProduction /\ BestOfPast' = BestOfPast
        \/ past' # "clean"
        \/ /\ past = "clean" /\ past' = "clean"
           /\ \E m \in Models :
                 /\ InProduction' = {m}
                 /\ \/ IF InProduction \cup BestOfPast = {}
                       THEN BestOfPast' = {}
                       ELSE \E old \in InProduction \cup BestOfPast : BestOfPast' = {old} \ {m}
                    \/ BestOfPast' = BestOfPast \ {m}
<1> SUFFICES ASSUME TypeOK, TargetKnown, OneInv, RowsRead, HeirInv, [Next]_vars, past' = "clean"
             PROVE  \/ InProduction' = InProduction /\ BestOfPast' = BestOfPast
                    \/ \E m \in Models :
                          /\ InProduction' = {m}
                          /\ \/ IF InProduction \cup BestOfPast = {}
                                THEN BestOfPast' = {}
                                ELSE \E old \in InProduction \cup BestOfPast :
                                         BestOfPast' = {old} \ {m}
                             \/ BestOfPast' = BestOfPast \ {m}
  BY CleanBefore
<1>1. past = "clean" /\ Clean /\ \A t \in Threads : HeirPlaced(t) /\ Stands(t)
  BY CleanBefore DEF OneInv, HeirInv
<1>2. CASE Crash
  <2>1. \A t \in Threads : pc[t] \notin SwapLabels /\ pc'[t] = "idle"
    BY <1>1, <1>2 DEF Crash
  <2>2. \A t \in Threads : ~ Promising(t) /\ ~ Promising(t)'
    BY <2>1 DEF Promising, SwapLabels, AdoptLabels, RollbackLabels
  <2>3. status' = status
    BY <1>2 DEF Crash, registryVars
  <2> QED BY <2>2, <2>3, CellKeeps
<1>3. ASSUME NEW t \in Threads, Begin(t) \/ CycleStep(t) \/ DecideWrite(t)
      PROVE  InProduction' = InProduction /\ BestOfPast' = BestOfPast
  <2>1. /\ \A u \in Threads : pc'[u] \in SwapLabels \ {"adopt", "rollback"} =>
               /\ pc'[u] = pc[u]
               /\ curRow'[u] = curRow[u] /\ bestRow'[u] = bestRow[u]
        /\ \A m \in Models, s \in {"current", "best_historical"} :
               status'[m] = s <=> status[m] = s
        /\ pc[t] \notin SwapLabels
        /\ \A u \in Threads \ {t} : pc'[u] = pc[u]
    BY <1>1, <1>3, OutsideSwaps
  <2>2. \A u \in Threads : Promising(u)' <=> Promising(u)
    BY <2>1 DEF Promising, SwapLabels, AdoptLabels, RollbackLabels
  <2>3. \A u \in Threads : Promising(u) =>
            pc'[u] = pc[u] /\ curRow'[u] = curRow[u] /\ bestRow'[u] = bestRow[u]
    BY <2>1 DEF Promising, SwapLabels, AdoptLabels, RollbackLabels
  <2> QED BY <2>1, <2>2, <2>3, CellKeeps
<1>4. ASSUME NEW t \in Threads, AdoptStep(t), ~ AdoptPromote(t)
      PROVE  InProduction' = InProduction /\ BestOfPast' = BestOfPast
  BY <1>1, <1>4, AdoptHides
<1>5. ASSUME NEW t \in Threads, RollbackStep(t), ~ RollbackPromote(t)
      PROVE  InProduction' = InProduction /\ BestOfPast' = BestOfPast
  BY <1>1, <1>5, RollbackHides
<1>6. ASSUME NEW t \in Threads, AdoptPromote(t)
      PROVE  \E m \in Models :
                /\ InProduction' = {m}
                /\ IF InProduction \cup BestOfPast = {}
                   THEN BestOfPast' = {}
                   ELSE \E old \in InProduction \cup BestOfPast : BestOfPast' = {old} \ {m}
  BY <1>1, <1>6, AdoptShows
<1>7. ASSUME NEW t \in Threads, RollbackPromote(t)
      PROVE  \E m \in Models : InProduction' = {m} /\ BestOfPast' = BestOfPast \ {m}
  BY <1>1, <1>7, RollbackShows
<1>8. CASE UNCHANGED vars
  BY <1>8, CellKeeps DEF vars, registryVars, callVars, Promising
<1>9. CASE Next
  <2>1. CASE Crash
    BY <1>2, <2>1
  <2>2. ASSUME NEW t \in Threads, Begin(t) \/ CycleStep(t) \/ DecideWrite(t)
        PROVE  InProduction' = InProduction /\ BestOfPast' = BestOfPast
    BY <1>3, <2>2
  <2>3. ASSUME NEW t \in Threads, AdoptStep(t) \/ RollbackStep(t)
        PROVE  \/ InProduction' = InProduction /\ BestOfPast' = BestOfPast
               \/ AdoptPromote(t) \/ RollbackPromote(t)
    BY <1>4, <1>5, <2>3
  <2>4. Crash \/ \E t \in Threads : \/ Begin(t) \/ CycleStep(t) \/ DecideWrite(t)
                                    \/ AdoptStep(t) \/ RollbackStep(t)
    BY <1>9 DEF Next, Continue, SwapStep
  <2> QED BY <1>6, <1>7, <2>1, <2>2, <2>3, <2>4
<1> QED BY <1>8, <1>9

\* Undisturbed, a swap of adopt_model or rollback is one step of the abstract
\* ProductionCell, for any number of threads that train, decide, adopt and roll
\* back: the two to four commits replace the current and the best model at once.
THEOREM SwapsRefineTheCell == Spec => SwapsAreAtomic
<1>1. Init => Cell!Init
  BY DEF Init, RegistryInit, Cell!Init, InProduction, BestOfPast, Promising, With
<1>2. TypeOK /\ TargetKnown /\ OneInv /\ RowsRead /\ HeirInv /\ [Next]_vars
      => [Cell!Next]_<<IF past = "clean" THEN InProduction ELSE {},
                       IF past = "clean" THEN BestOfPast ELSE {}, past = "clean">>
  <2> SUFFICES ASSUME TypeOK, TargetKnown, OneInv, RowsRead, HeirInv, [Next]_vars
               PROVE  [Cell!Next]_<<IF past = "clean" THEN InProduction ELSE {},
                                    IF past = "clean" THEN BestOfPast ELSE {}, past = "clean">>
    OBVIOUS
  <2>1. CASE past' # "clean"
    BY <2>1 DEF Cell!Next, Cell!Disturb
  <2>2. CASE past' = "clean" /\ InProduction' = InProduction /\ BestOfPast' = BestOfPast
    BY <2>2, CleanBefore
  <2>3. ASSUME past = "clean", past' = "clean", NEW m \in Models, InProduction' = {m},
               \/ IF InProduction \cup BestOfPast = {}
                  THEN BestOfPast' = {}
                  ELSE \E old \in InProduction \cup BestOfPast : BestOfPast' = {old} \ {m}
               \/ BestOfPast' = BestOfPast \ {m}
        PROVE  Cell!Next
    <3>1. Cell!Adopt(m) \/ Cell!RollBack(m)
      BY <2>3 DEF Cell!Adopt, Cell!RollBack
    <3> QED BY <2>3, <3>1 DEF Cell!Next, Cell!Swap
  <2> QED BY <2>1, <2>2, <2>3, CellStep
<1> QED BY <1>1, <1>2, HeirInvariant, PTL DEF Spec, SwapsAreAtomic, Cell!Spec
=============================================================================
