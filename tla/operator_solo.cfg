SPECIFICATION FairSpec
CONSTANTS
  Actions = {a1, a2}
  Profiles = {p1}
  Loops = {l1, l2}
  Callers = {c1}
  Requests = {"start"}
  None = None
  MaxUid = 1
  MaxGen = 2
  MaxFaults = 2
INVARIANTS OneReconciler NoReexecution
PROPERTIES TerminalIsFinal ImplementsLifecycle SettlesWhileRunning ProfilesConverge
