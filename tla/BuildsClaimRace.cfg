SPECIFICATION Spec
CONSTANTS
  Procs = {p1, p2}
  NONE = NONE
  MaxFails = 0
  MaxKills = 0
  MaxRuns = 2
  Lost = {}
PROPERTIES ValidEntryStays
CHECK_DEADLOCK FALSE
