----------------------------- MODULE MCWatchCache -----------------------------
(***************************************************************************)
(* WatchCache for TLC: clusters, and the requests that resync, are         *)
(* interchangeable, and no property is about liveness.                     *)
(***************************************************************************)
EXTENDS WatchCache, TLC

Symmetry == Permutations(Clusters) \cup Permutations(Resyncers)
===============================================================================
