---------------------------- MODULE MCBuildCache ----------------------------
(* Instances of BuildCache for TLC. *)
EXTENDS BuildCache, TLC

\* The builders differ in nothing but their names; for the runs without liveness.
Symmetry == Permutations(Builders)
=============================================================================
