SPECIFICATION Spec
CONSTANTS
  Approvals = {r1}
  Approvers = {ann, bob}
  Default = default_approver
  Handlers = {h1, h2}
  None = None
  MaxSteps = 2
PROPERTIES DecisionIsFinal
CHECK_DEADLOCK FALSE
