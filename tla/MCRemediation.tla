---------------------------- MODULE MCRemediation -----------------------------
(***************************************************************************)
(* Remediation for TLC: handler threads and alerts are interchangeable,    *)
(* and no property is about liveness.                                      *)
(***************************************************************************)
EXTENDS Remediation, TLC

Symmetry == Permutations(AlertIds) \cup Permutations(Evaluators) \cup Permutations(Workers)
===============================================================================
