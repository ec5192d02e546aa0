SPECIFICATION Spec
CONSTANTS
  Handlers = {h1}
  Ops = {o1, o2, o3}
  None = None
INVARIANTS RolledBackIsUndone
CHECK_DEADLOCK FALSE
