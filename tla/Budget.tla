--------------------------------- MODULE Budget ---------------------------------
(***************************************************************************)
(* The owner's budget: check and charge of                                 *)
(* src/backend/app/security/budget.py over the controls budget_credits and *)
(* budget_spent and the table costs, as chat and train_candidate call them.*)
(* A charge is four statements, each with a commit of its own and no lock  *)
(* around them, and it comes after the work it pays for.                   *)
(***************************************************************************)
EXTENDS Integers

CONSTANTS
    Payers,       \* the threads that spend
    Amounts,      \* what a call may cost
    CreditLimits, \* what the owner may set budget_credits and budget_spent to
    MaxCosts      \* bound: no call begins and budget_spent is not set above it

ASSUME AmountsAssumption == Amounts \subseteq Nat /\ CreditLimits \subseteq Nat

VARIABLES
    credits,  \* the control budget_credits
    spent,    \* the control budget_spent
    costs,    \* history: what the owner last set budget_spent to, and the rows of
              \* costs since
    spend,    \* where each thread is
    due,      \* the amount each thread charges
    room,     \* budget_credits as the check of that charge has read it
    seen,     \* budget_spent as charge() has read it
    books     \* history: "overlapped" once two charges were in progress at once, or
              \* the owner set budget_spent beside one; "torn" once a crash cut one

accountVars == <<credits, spent, costs, books>>
chargeVars == <<due, room, seen>>
budgetVars == <<accountVars, chargeVars, spend>>

ChargeLabels == {"read", "write", "insert"}
SpendLabels == {"idle", "estimate", "work", "charge"} \cup ChargeLabels
Charging == {t \in Payers : spend[t] \in ChargeLabels}

BudgetInit ==
    /\ credits \in CreditLimits
    /\ spent = 0 /\ costs = 0 /\ books = "clean"
    /\ spend = [t \in Payers |-> "idle"]
    /\ due = [t \in Payers |-> 0]
    /\ room = [t \in Payers |-> 0]
    /\ seen = [t \in Payers |-> 0]

Move(t, from, to) == spend[t] = from /\ spend' = [spend EXCEPT ![t] = to]

\* Variant of Affordable: what is spent already is not looked at.
AffordableEver(cost) == cost <= credits

\* check() lets the cost pass.
Affordable(cost) == cost <= credits - spent

NothingDue(t) ==
    /\ due' = [due EXCEPT ![t] = 0]
    /\ room' = [room EXCEPT ![t] = 0]
    /\ seen' = [seen EXCEPT ![t] = 0]

\* chat answers, then charges; train_candidate checks an estimate, trains, then
\* charges. Bound: no call begins above MaxCosts.
BeginChat(t) ==
    /\ costs < MaxCosts
    /\ Move(t, "idle", "charge")
    /\ UNCHANGED <<accountVars, chargeVars>>

BeginTraining(t) ==
    /\ costs < MaxCosts
    /\ Move(t, "idle", "estimate")
    /\ UNCHANGED <<accountVars, chargeVars>>

\* check(estimated_cost): nothing is reserved.
CheckEstimate(t) ==
    /\ \E cost \in Amounts : Affordable(cost)
    /\ Move(t, "estimate", "work")
    /\ UNCHANGED <<accountVars, chargeVars>>

Work(t) ==
    /\ Move(t, "work", "charge")
    /\ UNCHANGED <<accountVars, chargeVars>>

\* check raises: "budget exceeded", also for work that is done.
Exceeded(t) ==
    /\ \E cost \in Amounts : ~Affordable(cost)
    /\ Move(t, "estimate", "idle") \/ Move(t, "charge", "idle")
    /\ UNCHANGED <<accountVars, chargeVars>>

\* charge() begins with a check of its own.
CheckCharge(t) == \E cost \in Amounts :
    /\ Affordable(cost)
    /\ Move(t, "charge", "read")
    /\ due' = [due EXCEPT ![t] = cost]
    /\ room' = [room EXCEPT ![t] = credits]
    /\ books' = IF books = "clean" /\ Charging # {} THEN "overlapped" ELSE books
    /\ UNCHANGED <<credits, spent, costs, seen>>

ReadSpent(t) ==
    /\ Move(t, "read", "write")
    /\ seen' = [seen EXCEPT ![t] = spent]
    /\ UNCHANGED <<accountVars, due, room>>

\* Variant of WriteSpent: the amount replaces what was spent.
WriteOnlyDue(t) ==
    /\ Move(t, "write", "insert")
    /\ spent' = due[t]
    /\ UNCHANGED <<credits, costs, books, chargeVars>>

WriteSpent(t) ==
    /\ Move(t, "write", "insert")
    /\ spent' = seen[t] + due[t]
    /\ UNCHANGED <<credits, costs, books, chargeVars>>

\* The row of costs.
InsertCost(t) ==
    /\ Move(t, "insert", "idle")
    /\ costs' = costs + due[t]
    /\ NothingDue(t)
    /\ UNCHANGED <<credits, spent, books>>

\* POST /controls.
SetCredits ==
    /\ credits' \in CreditLimits
    /\ UNCHANGED <<spent, costs, books, chargeVars, spend>>

\* budget_spent is a control like any other: the owner sets it to what he likes,
\* and counting begins there.
\* Bound: not above MaxCosts, where this beside charges could drive it for ever.
SetSpent ==
    /\ spent <= MaxCosts
    /\ spent' \in CreditLimits \cup {0} /\ costs' = spent'
    /\ books' = IF Charging = {} THEN "clean" ELSE "overlapped"
    /\ UNCHANGED <<credits, chargeVars, spend>>

\* A crash is harmless before budget_spent is written and after the row is there.
BudgetCrash ==
    /\ books' = IF books = "clean" /\ \E t \in Payers : spend[t] = "insert"
                THEN "torn" ELSE books
    /\ spend' = [t \in Payers |-> "idle"]
    /\ due' = [t \in Payers |-> 0]
    /\ room' = [t \in Payers |-> 0]
    /\ seen' = [t \in Payers |-> 0]
    /\ UNCHANGED <<credits, spent, costs>>

PayerStep(t) ==
    \/ BeginChat(t) \/ BeginTraining(t) \/ CheckEstimate(t) \/ Work(t) \/ Exceeded(t)
    \/ CheckCharge(t) \/ ReadSpent(t) \/ WriteSpent(t) \/ InsertCost(t)

BudgetNext == SetCredits \/ SetSpent \/ BudgetCrash \/ \E t \in Payers : PayerStep(t)

BudgetSpec == BudgetInit /\ [][BudgetNext]_budgetVars

-----------------------------------------------------------------------------
BudgetTypeOK ==
    /\ credits \in CreditLimits /\ spent \in Nat /\ costs \in Nat
    /\ books \in {"clean", "overlapped", "torn"}
    /\ spend \in [Payers -> SpendLabels]
    /\ due \in [Payers -> Amounts \cup {0}]
    /\ room \in [Payers -> CreditLimits \cup {0}]
    /\ seen \in [Payers -> Nat]

\* Unless two charges overlapped or a crash cut one, the counter the checks trust
\* is what the owner set it to and the sum of the costs recorded since, and of the
\* one whose row is still to come.
BooksBalance ==
    books = "clean" =>
        /\ \A t \in Payers : spend[t] = "insert" => spent = costs + due[t]
        /\ (\A t \in Payers : spend[t] # "insert") => spent = costs

\* A cost recorded while no other charge was in progress keeps the sum of all
\* costs within the credits its check has read, whatever the owner sets meanwhile.
WithinCredits ==
    [][\A t \in Payers :
        books = "clean" /\ spend[t] = "insert" /\ spend'[t] # "insert" /\ costs' # costs
            => costs' <= room[t]]_budgetVars
=============================================================================
