SPECIFICATION Spec
CONSTANTS
  AlertRules = {ar1}
  AlertIds = {a1, a2, a3}
  Evaluators = {e1, e2}
  None = None
  Rules = {r1}
  Workers = {w1, w2}
  Cooldown = 2
  MaxRestarts = 1
INVARIANTS TypeOK FiringBound EveryAlertIsTold BurstBound EffectsHaveRuns
SYMMETRY Symmetry
