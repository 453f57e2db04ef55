------------------------------ MODULE MCServices ------------------------------
(***************************************************************************)
(* The instance TLC checks of the parts that share no state with another   *)
(* one in these models: AuditLog, RateLimit, Budget, TrainingCycle,        *)
(* LLMEngine, EvaluationGate and OwnerApp.  `part` says which of them a    *)
(* behaviour is about; the others stay where they start, for the           *)
(* properties of each are about its own state.                             *)
(***************************************************************************)
EXTENDS AuditLog, RateLimit, Budget, TrainingCycle, LLMEngine, EvaluationGate, OwnerApp, TLC

CONSTANTS clean, spare, twin, faint, dirty, math, safety

VARIABLE part

\* Requests bring no sample, two with one text, or a known one beside one that is
\* refused and one that has that text too but is poor.
MCExtras == {{}, {spare, twin}, {clean, faint, dirty}}
MCText == [s \in {clean, spare, twin, faint, dirty} |->
           IF s \in {twin, faint} THEN spare ELSE s]

\* The safety suite has one case, the other one two.
MCCases == [s \in {math, safety} |-> IF s = safety THEN 1 ELSE 2]

\* The two threads of the other parts are two of the three that log.
MCSymmetry == Permutations(Callers)

Parts == {"audit", "limiter", "budget", "training", "engine", "gate", "app"}

\* A part that does not run has one state.
ServicesInit ==
    /\ part \in Parts
    /\ Init /\ LimiterInit /\ BudgetInit /\ TrainingInit /\ EngineInit /\ GateInit /\ AppInit
    /\ part # "budget" => \A c \in CreditLimits : c <= credits
    /\ part # "gate" => \A s \in Suites : passed[0][s] = Cases[s]

ServicesNext ==
    \/ /\ part = "audit" /\ Next
       /\ UNCHANGED <<part, limiterVars, budgetVars, trainingVars, engineVars, gateVars, appVars>>
    \/ /\ part = "limiter" /\ LimiterNext
       /\ UNCHANGED <<part, vars, budgetVars, trainingVars, engineVars, gateVars, appVars>>
    \/ /\ part = "budget" /\ BudgetNext
       /\ UNCHANGED <<part, vars, limiterVars, trainingVars, engineVars, gateVars, appVars>>
    \/ /\ part = "training" /\ TrainingNext
       /\ UNCHANGED <<part, vars, limiterVars, budgetVars, engineVars, gateVars, appVars>>
    \/ /\ part = "engine" /\ EngineNext
       /\ UNCHANGED <<part, vars, limiterVars, budgetVars, trainingVars, gateVars, appVars>>
    \/ /\ part = "gate" /\ GateNext
       /\ UNCHANGED <<part, vars, limiterVars, budgetVars, trainingVars, engineVars, appVars>>
    \/ /\ part = "app" /\ AppNext
       /\ UNCHANGED <<part, vars, limiterVars, budgetVars, trainingVars, engineVars, gateVars>>

servicesVars == <<part, vars, limiterVars, budgetVars, trainingVars, engineVars, gateVars, appVars>>

ServicesSpec == ServicesInit /\ [][ServicesNext]_servicesVars
=============================================================================
