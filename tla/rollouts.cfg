SPECIFICATION Spec
CONSTANTS
  Deployments = {d1}
  NumSteps = 3
  Handlers = {h1, h2}
  Threads = {h1, h2}
  Workflows = {w1, w2}
  LastStep = 1
  MaxFaults = 1
  Versions = {v1, v2}
  Promoters = {h1, h2}
  NoWorkflow = NoWorkflow
  NoVersion = NoVersion
INVARIANTS TrafficIsEarned  UnapprovedStaysOut OneChampion
CHECK_DEADLOCK FALSE
SYMMETRY Symmetry
