SPECIFICATION Spec
CONSTANTS
  Kinds = {"flag", "keeper", "checker", "monitor"}
  Callers = {c1, c2}
  Loops = {l1, l2, l3}
  None = None
  Agents = {a1}
  Statuses = {"degraded", "decommissioned"}
  Timeout = 1
  MaxEvents = 3
INVARIANTS OneLoop QuietWhenStopped EventsTellStatus
PROPERTIES StopTakesEffect SilentAgentIsNoticed
