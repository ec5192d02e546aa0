--------------------------- MODULE ActionLifecycle ---------------------------
(***************************************************************************)
(* What the Kubernetes operator promises about GPUOptimizationAction       *)
(* objects, without saying who reconciles them: the phase of an object     *)
(* only moves forward, an object reaches an outcome only after the adapter *)
(* was called for an object of that name, and the adapter is never called  *)
(* for an object that already has an outcome.                              *)
(*                                                                         *)
(* ActionController is the detailed specification.  It implements this one *)
(* as long as no two of its passes are open at once, which the assumption  *)
(* of ActionControllerSolo guarantees.                                     *)
(***************************************************************************)
EXTENDS Naturals

CONSTANT Actions       \* the names of GPUOptimizationAction objects

VARIABLES
  phase,               \* phase[a]: the status.phase of object a, or "absent"
  attempted            \* the names the adapter was called for

lifecycleVars == <<phase, attempted>>

Phases == {"absent", "pending", "approved", "running",
           "completed", "failed", "rolled_back"}

Terminal == {"completed", "failed", "rolled_back"}

Open(a) == phase[a] \notin Terminal

Present(a) == phase[a] # "absent"

LifecycleInit ==
  /\ phase = [a \in Actions |-> "absent"]
  /\ attempted = {}

Appear(a) ==
  /\ phase[a] = "absent"
  /\ phase' = [phase EXCEPT ![a] = "pending"]
  /\ UNCHANGED attempted

Disappear(a) ==
  /\ phase' = [phase EXCEPT ![a] = "absent"]
  /\ UNCHANGED attempted

Granted(a) ==
  /\ phase[a] = "pending"
  /\ phase' = [phase EXCEPT ![a] = "approved"]
  /\ UNCHANGED attempted

Begin(a) ==
  /\ Present(a) /\ Open(a)
  /\ phase' = [phase EXCEPT ![a] = "running"]
  /\ UNCHANGED attempted

Attempt(a) ==
  /\ Open(a)
  /\ attempted' = attempted \cup {a}
  /\ UNCHANGED phase

Settle(a) ==
  /\ Present(a) /\ Open(a)
  /\ a \in attempted
  /\ \E outcome \in {"completed", "failed"} :
       phase' = [phase EXCEPT ![a] = outcome]
  /\ UNCHANGED attempted

LifecycleNext ==
  \E a \in Actions :
    \/ Appear(a)
    \/ Disappear(a)
    \/ Granted(a)
    \/ Begin(a)
    \/ Attempt(a)
    \/ Settle(a)

LifecycleSpec == LifecycleInit /\ [][LifecycleNext]_lifecycleVars
==============================================================================
