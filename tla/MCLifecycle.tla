---------------------------- MODULE MCLifecycle ----------------------------
(* The instances TLC checks: see the cfg files. *)
EXTENDS LifecycleRefinement, TLC

Symmetry == Permutations(Incident) \union Permutations(Content)
=============================================================================
