\* Two runs over the same job roots with more jobs than slots, one process killed or
\* command failed: a second run meets what the first left behind, manifest included.
SPECIFICATION Spec
CONSTANTS
  Runs = {r1, r2}
  N = 2
  Truncate = FALSE
  Cap = 1
  Outcomes = {"pass"}
  MaxFaults = 1
INVARIANTS SchedulerSound
PROPERTIES ZeroMeansEnded RunEnds
CHECK_DEADLOCK FALSE
