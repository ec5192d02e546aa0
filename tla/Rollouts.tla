-------------------------------- MODULE Rollouts -------------------------------
(***************************************************************************)
(* The services that roll something out step by step, canaries, deployment *)
(* workflows and models, in a server that restarts: it brings back the     *)
(* workflows that were saved, and no canary and no model.  The services    *)
(* share nothing else, so a behaviour follows one of them.                 *)
(***************************************************************************)
EXTENDS CanaryRollout, DeploymentWorkflow, ModelGovernance

CONSTANTS
  MaxFaults    \* bound: restarts of the server, and files it fails to write

ASSUME RolloutsAssumption == MaxFaults \in Nat /\ Threads = Handlers

VARIABLES
  service,     \* the service followed: "canary", "workflow" or "model"
  faults

vars == <<canaryVars, workflowVars, governanceVars, service, faults>>

TypeOK ==
  /\ CanaryTypeOK /\ WorkflowTypeOK /\ GovernanceTypeOK
  /\ service \in {"canary", "workflow", "model"} /\ faults \in 0..MaxFaults

Init ==
  /\ CanaryInit /\ WorkflowInit /\ GovernanceInit
  /\ service \in {"canary", "workflow", "model"} /\ faults = 0

CanaryRequest(h) == CanaryStep(h) \/ \E d \in Deployments : AdvanceStart(h, d)

WorkflowRequest(h) ==
  \/ WorkflowStep(h)
  \/ \E w \in Workflows : Delete(h, w) \/ \E n \in WorkflowSteps : StepBegin(h, w, n)

(* The file system fails a save.                                           *)
FileFails ==
  /\ faults < MaxFaults
  /\ faults' = faults + 1
  /\ \E h \in Handlers : OpenRaises(h) \/ WriteRaises(h)
  /\ UNCHANGED <<canaryVars, governanceVars, service>>

Restart ==
  /\ faults < MaxFaults
  /\ faults' = faults + 1
  /\ LoadWorkflows
  /\ canary' = [d \in Deployments |-> NoCanary]
  /\ advance' = [h \in Handlers |-> NoAdvance]
  /\ contested' = {}
  /\ ForgetModels
  /\ UNCHANGED service

Next ==
  \/ /\ service = "canary"
     /\ \/ \E d \in Deployments : Create(d)
        \/ \E h \in Handlers : CanaryRequest(h)
     /\ UNCHANGED <<workflowVars, governanceVars, service, faults>>
  \/ /\ service = "workflow"
     /\ \/ \E w \in Workflows : NextStep(w)
        \/ \E h \in Handlers : WorkflowRequest(h)
     /\ UNCHANGED <<canaryVars, governanceVars, service, faults>>
  \/ service = "workflow" /\ FileFails
  \/ /\ service = "model"
     /\ \/ \E v \in Versions : ModelStep(v)
        \/ \E h \in Promoters : PromoterStep(h)
     /\ UNCHANGED <<canaryVars, workflowVars, service, faults>>
  \/ Restart

Spec == Init /\ [][Next]_vars
===============================================================================
