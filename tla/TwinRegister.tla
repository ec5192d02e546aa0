----------------------------- MODULE TwinRegister -----------------------------
(***************************************************************************)
(* The twin of a cluster as one register that requests change one at a     *)
(* time: an actuation adds its change, a recommendation is applied to a    *)
(* twin that was synced, a rollback clears the mark of divergence and      *)
(* nothing else, a sync replaces the twin.  Requests that overlapped may   *)
(* mix the register up, but then only the changes of such requests are in  *)
(* it, before and after.                                                   *)
(*                                                                         *)
(* ActuationTwin, where a request copies the twin, changes the copy and    *)
(* saves it, implements this specification.                                *)
(***************************************************************************)
CONSTANTS
  Ops,           \* requests
  None           \* no twin

VARIABLES
  twin,          \* the twin, or None before there is one
  overlapped     \* requests whose copy of the twin met another's

registerVars == <<twin, overlapped>>

Twin == [effects : SUBSET Ops, nodes : BOOLEAN, full : BOOLEAN, diverged : BOOLEAN]

Empty == [effects |-> {}, nodes |-> FALSE, full |-> FALSE, diverged |-> FALSE]

Within(requests) == twin = None \/ twin.effects \subseteq requests

RegisterInit == twin = None /\ overlapped = {}

Actuated(o) ==
  /\ twin' = [(IF twin = None THEN Empty ELSE twin)
                EXCEPT !.effects = @ \cup {o}, !.full = FALSE, !.diverged = TRUE]
  /\ UNCHANGED overlapped

Applied(o) ==
  /\ twin # None /\ twin.full
  /\ twin' = [twin EXCEPT !.effects = @ \cup {o}, !.diverged = TRUE]
  /\ UNCHANGED overlapped

RolledBack ==
  /\ twin # None
  /\ twin' = [twin EXCEPT !.diverged = FALSE]
  /\ UNCHANGED overlapped

Synced ==
  /\ \E nodes \in BOOLEAN :
       twin' = [effects |-> {}, nodes |-> nodes, full |-> TRUE, diverged |-> FALSE]
  /\ UNCHANGED overlapped

Met(requests) ==
  /\ overlapped' = overlapped \cup requests
  /\ UNCHANGED twin

Mixed ==
  /\ Within(overlapped)
  /\ \E t \in Twin :
       /\ t.effects \subseteq overlapped
       /\ t.diverged => t.effects # {}
       /\ twin' = t
  /\ UNCHANGED overlapped

-------------------------------------------------------------------------------
(* Requests that take turns only ever change the register one at a time.   *)
SerialNext ==
  \/ \E o \in Ops : Actuated(o) \/ Applied(o)
  \/ RolledBack
  \/ Synced

RegisterNext ==
  \/ SerialNext
  \/ \E requests \in SUBSET Ops : Met(requests)
  \/ Mixed

SerialSpec   == RegisterInit /\ [][SerialNext]_registerVars
RegisterSpec == RegisterInit /\ [][RegisterNext]_registerVars
===============================================================================
