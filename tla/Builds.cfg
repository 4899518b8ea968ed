\* Two preparers with two runs each, one failure and one kill, so that a run can find
\* what a failed or a killed one has left while a peer works.
SPECIFICATION Spec
CONSTANTS
  Procs = {p1, p2}
  NONE = NONE
  MaxFails = 1
  MaxKills = 1
  MaxRuns = 2
  Lost = {"build", "prefix"}
INVARIANTS BuildSound
PROPERTIES EveryRunEnds
CHECK_DEADLOCK FALSE
