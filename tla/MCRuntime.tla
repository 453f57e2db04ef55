------------------------------ MODULE MCRuntime ------------------------------
(* Instance of Runtime for TLC. No symmetry: the run checks liveness.      *)
EXTENDS Runtime

\* Bodies that enable both controls in either order, disable one of them, and
\* contain a misspelt key.
MCBodies ==
    {[k \in Work |-> TRUE],
     [k \in {"autonomous_cycles"} |-> FALSE],
     [k \in {"training_enabled", Unknown} |-> FALSE]}
=============================================================================
