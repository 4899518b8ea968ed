SPECIFICATION Spec
CONSTANTS
  Runs = {r1}
  N = 2
  Truncate = TRUE
  Cap = 2
  Outcomes = {"pass", "fail", "blocked"}
  MaxFaults = 1
PROPERTIES ZeroMeansAll
CHECK_DEADLOCK FALSE
