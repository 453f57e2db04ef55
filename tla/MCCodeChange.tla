----------------------------- MODULE MCCodeChange -----------------------------
(* The instance of CodeChange that TLC checks: each fix passes the tests by *)
(* itself, and the two together do not.                                     *)
EXTENDS CodeChange, TLC

CONSTANTS f1, f2

MCGood == {{}, {f1}, {f2}}
MCSymmetry == Permutations(Threads)
=============================================================================
