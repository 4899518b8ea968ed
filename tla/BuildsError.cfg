SPECIFICATION Spec
CONSTANTS
  Procs = {p1}
  NONE = NONE
  MaxFails = 2
  MaxKills = 0
  MaxRuns = 3
  Lost = {}
INVARIANTS InterruptedIsRemovable
CHECK_DEADLOCK FALSE
