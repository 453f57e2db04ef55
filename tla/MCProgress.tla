------------------------------ MODULE MCProgress ------------------------------
(***************************************************************************)
(* The instance of Promotion and of Sandbox for what must happen in the    *)
(* end.  They share no state: `part` says which of them a behaviour is     *)
(* about, and the other one stays where it starts, where nothing its       *)
(* fairness speaks of is enabled.  No symmetry, for the run checks         *)
(* liveness.                                                               *)
(***************************************************************************)
EXTENDS Promotion, Sandbox

VARIABLE part

\* The scores two models may get.
MCOverallTwo == <<{1, 2}, {2}>>

ProgressInit ==
    /\ part \in {"promotion", "sandbox"}
    /\ Init /\ SandboxInit
    /\ part # "sandbox" => ~killSwitch

ProgressNext ==
    \/ part = "promotion" /\ Next /\ UNCHANGED <<part, sandboxVars>>
    \/ part = "sandbox" /\ SandboxNext /\ UNCHANGED <<part, vars>>

ProgressSpec ==
    /\ ProgressInit /\ [][ProgressNext]_<<part, vars, sandboxVars>>
    /\ Fairness /\ SandboxFairness
=============================================================================
