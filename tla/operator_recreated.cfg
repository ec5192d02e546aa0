SPECIFICATION Spec
CONSTANTS
  Actions = {a1}
  Profiles = {}
  Loops = {l1, l2}
  Callers = {c1}
  Requests = {"start"}
  None = None
  MaxUid = 2
  MaxGen = 2
  MaxFaults = 2
PROPERTIES ImplementsLifecycle
