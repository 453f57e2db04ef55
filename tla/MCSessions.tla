------------------------------ MODULE MCSessions -----------------------------
(* Instance of Sessions for TLC: threads are interchangeable.              *)
EXTENDS Sessions, TLC

ThreadSymmetry == Permutations(Threads)
=============================================================================
