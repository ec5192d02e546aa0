----------------------------- MODULE CanaryRollout -----------------------------
(***************************************************************************)
(* Canary deployments (CanaryManager, risk_r03_canary.py).  A request      *)
(* advances a deployment by evaluating its current step; requests run on   *)
(* threads of their own and share the deployment without a lock.  Nothing  *)
(* looks at the status: a deployment that was rolled back can be advanced. *)
(*                                                                         *)
(* A definition placed just before another, with its name and a suffix, is *)
(* a variant with a plausible mistake, which the properties must notice.   *)
(***************************************************************************)
EXTENDS Naturals

CONSTANTS
  Deployments, \* canary deployment ids
  NumSteps,    \* the steps of the template (steps are 0..NumSteps - 1)
  Handlers     \* handler threads

ASSUME CanaryAssumption == NumSteps \in Nat \ {0} /\ Deployments # {}

Steps == 0..NumSteps - 1

VARIABLES
  canary,      \* canary[d]: [current, status, step]; status "none": not created
  advance,     \* advance[h]: [pc, dep, at]: the step it evaluates
  contested    \* history: the deployments two advances of which overlapped

canaryVars == <<canary, advance, contested>>

NoCanary  == [current |-> 0, status |-> "none", step |-> [i \in Steps |-> "pending"]]
NoAdvance == [pc |-> "idle", dep |-> CHOOSE d \in Deployments : TRUE, at |-> 0]

CanaryTypeOK ==
  /\ canary \in [Deployments ->
       [current : Nat, status : {"none", "running", "completed", "rolling_back", "rolled_back"},
        step : [Steps -> {"pending", "running", "active", "passed", "failed"}]]]
  /\ advance \in [Handlers -> [pc : {"idle", "evaluating", "rolling"},
                               dep : Deployments, at : Steps]]
  /\ contested \subseteq Deployments

CanaryInit ==
  /\ canary = [d \in Deployments |-> NoCanary]
  /\ advance = [h \in Handlers |-> NoAdvance]
  /\ contested = {}

-------------------------------------------------------------------------------
Advancing(d) == {h \in Handlers : advance[h].pc # "idle" /\ advance[h].dep = d}

Create(d) ==
  /\ canary[d].status = "none"
  /\ canary' = [canary EXCEPT ![d].status = "running"]
  /\ UNCHANGED <<advance, contested>>

(* advance_step reads the current step and evaluates it.  After the last   *)
(* step there is none, and the request fails.                              *)
AdvanceStartEager(h, d) ==
  LET at == canary[d].current IN
  /\ advance[h].pc = "idle"
  /\ canary[d].status # "none" /\ at < NumSteps
  /\ canary' = [canary EXCEPT ![d].step[at] = "running", ![d].current = @ + 1]
  /\ advance' = [advance EXCEPT ![h] = [pc |-> "evaluating", dep |-> d, at |-> at]]
  /\ contested' = IF Advancing(d) = {} THEN contested ELSE contested \cup {d}

AdvanceStart(h, d) ==
  LET at == canary[d].current IN
  /\ advance[h].pc = "idle"
  /\ canary[d].status # "none" /\ at < NumSteps
  /\ canary' = [canary EXCEPT ![d].step[at] = "running"]
  /\ advance' = [advance EXCEPT ![h] = [pc |-> "evaluating", dep |-> d, at |-> at]]
  /\ contested' = IF Advancing(d) = {} THEN contested ELSE contested \cup {d}

(* The criteria hold.                                                      *)
AdvancePass(h) ==
  LET d == advance[h].dep
      next == canary[d].current + 1
      passed == [canary[d].step EXCEPT ![advance[h].at] = "passed"] IN
  /\ advance[h].pc = "evaluating"
  /\ canary' = [canary EXCEPT ![d] =
       IF next >= NumSteps THEN [current |-> next, status |-> "completed", step |-> passed]
       ELSE [@ EXCEPT !.current = next, !.step = [passed EXCEPT ![next] = "active"]]]
  /\ advance' = [advance EXCEPT ![h] = NoAdvance]
  /\ UNCHANGED contested

(* A criterion does not hold: the rollback plan is made and executed.      *)
AdvanceFail(h) ==
  LET d == advance[h].dep
      failed == [canary[d].step EXCEPT ![advance[h].at] = "failed"] IN
  /\ advance[h].pc = "evaluating"
  /\ canary' = [canary EXCEPT ![d] = [@ EXCEPT !.status = "rolling_back", !.step = failed]]
  /\ advance' = [advance EXCEPT ![h].pc = "rolling"]
  /\ UNCHANGED contested

RolledBack(h) ==
  /\ advance[h].pc = "rolling"
  /\ canary' = [canary EXCEPT ![advance[h].dep].status = "rolled_back"]
  /\ advance' = [advance EXCEPT ![h] = NoAdvance]
  /\ UNCHANGED contested

CanaryStep(h) == AdvancePass(h) \/ AdvanceFail(h) \/ RolledBack(h)

-------------------------------------------------------------------------------
(* PROPERTY.  Traffic is earned.  Unless two advances of a deployment have *)
(* overlapped (both may then pass the same step and skip the next), every  *)
(* step below the current one has passed its own evaluation, rolled back   *)
(* or not, and a completed deployment has passed them all.                 *)
TrafficIsEarned ==
  \A d \in Deployments \ contested :
    /\ \A i \in Steps : i < canary[d].current => canary[d].step[i] = "passed"
    /\ canary[d].status = "completed" => canary[d].current = NumSteps
===============================================================================
