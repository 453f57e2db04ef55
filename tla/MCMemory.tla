------------------------------- MODULE MCMemory -------------------------------
(* The instance of Memory that TLC checks: a request ingests a document of *)
(* one piece twice, and then one of two pieces, and the owner puts down a  *)
(* turn and the text of the first document.                                *)
EXTENDS Memory, TLC

CONSTANTS d1, d2, h1, h2

MCPieces == [d \in Docs |-> IF d = d1 THEN <<d1>> ELSE <<h1, h2>>]
MCLists == {<<d1, d1, d2>>}
MCNotes == {[kind |-> "short_term", hash |-> "other", pinned |-> FALSE],
            [kind |-> "semantic", hash |-> d1, pinned |-> FALSE]}
MCSymmetry == Permutations(Threads)
=============================================================================
