--------------------------- MODULE ProductionCell ---------------------------
(***************************************************************************)
(* What the model registry promises while its swaps do not disturb each    *)
(* other: the model in production and the best one of the past change      *)
(* together and in one step, although adopt_model and rollback take up to  *)
(* four commits for it. Once a swap was disturbed nothing is promised.     *)
(***************************************************************************)

CONSTANT Models

VARIABLES
    current,    \* the model in production: a set of one, or of none
    best,       \* the best model of the past, likewise
    calm        \* no swap has been disturbed

\* One of the two models that m replaces is remembered, unless it is m.
Adopt(m) ==
    /\ current' = {m}
    /\ IF current \cup best = {}
       THEN best' = {}
       ELSE \E old \in current \cup best : best' = {old} \ {m}

\* The replaced model is forgotten, and the best one is used up if it is m.
RollBack(m) ==
    /\ current' = {m}
    /\ best' = best \ {m}

Swap == /\ calm /\ UNCHANGED calm
        /\ \E m \in Models : Adopt(m) \/ RollBack(m)

Disturb == /\ calm /\ calm' = FALSE
           /\ current' = {} /\ best' = {}

Init == current = {} /\ best = {} /\ calm = TRUE
Next == Swap \/ Disturb
Spec == Init /\ [][Next]_<<current, best, calm>>
=============================================================================
