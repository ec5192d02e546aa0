SPECIFICATION Spec
CONSTANTS
  Handlers = {h1, h2}
  Ops = {o1, o2, o3}
  None = None
INVARIANTS TypeOK ReportedIsApplied SyncDiscards EffectsAreRecorded
PROPERTIES ImplementsRegister
CHECK_DEADLOCK FALSE
