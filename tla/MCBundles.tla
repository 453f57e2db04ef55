------------------------------ MODULE MCBundles ------------------------------
(* The instance of Bundles that TLC checks. *)
EXTENDS Bundles, TLC

MCReleases == {0, 3}
MCFront == {"schema", "copies"}
MCSymmetry == Permutations(Threads)
=============================================================================
