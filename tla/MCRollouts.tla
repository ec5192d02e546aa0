------------------------------ MODULE MCRollouts ------------------------------
(***************************************************************************)
(* Rollouts for TLC: threads, workflows and the versions of a model are    *)
(* interchangeable.  No property is about liveness.                        *)
(***************************************************************************)
EXTENDS Rollouts, TLC

Symmetry ==
  Permutations(Handlers) \cup Permutations(Workflows) \cup Permutations(Versions)
===============================================================================
