----------------------------- MODULE MCPromotion -----------------------------
(* Instance of Promotion for TLC: threads are interchangeable.             *)
EXTENDS Promotion, TLC

\* The retired models a heir is chosen from score better, worse and the same.
MCOverall == <<{2}, {3}, {2}>>

ThreadSymmetry == Permutations(Threads)
=============================================================================
