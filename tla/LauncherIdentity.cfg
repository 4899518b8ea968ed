SPECIFICATION Spec
CONSTANTS
  MaxFaults = 0
  RunnerKnown = FALSE
INVARIANTS IdentityReleased
CHECK_DEADLOCK FALSE
