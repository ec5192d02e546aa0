SPECIFICATION Spec
CONSTANTS
  Actions = {a1}
  Profiles = {}
  Loops = {l1, l2}
  Callers = {c1}
  Requests = {"start", "stop"}
  None = None
  MaxUid = 2
  MaxGen = 2
  MaxFaults = 1
INVARIANT NoReexecution
