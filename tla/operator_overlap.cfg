SPECIFICATION FairSpec
CONSTANTS
  Actions = {a1}
  Profiles = {}
  Loops = {l1, l2}
  Callers = {c1}
  Requests = {"start", "stop", "reconcile"}
  None = None
  MaxUid = 1
  MaxGen = 2
  MaxFaults = 1
INVARIANTS TypeOK OutcomeWasEarned
PROPERTIES OnlyOverlapReexecutes StopIsEffective
