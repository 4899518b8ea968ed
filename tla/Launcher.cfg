\* Two failing account commands reach a failed setup whose rollback fails as well.
SPECIFICATION Spec
CONSTANTS
  MaxFaults = 2
  RunnerKnown = TRUE
INVARIANTS ReleaseSound EvidenceSound
PROPERTIES ReleasedAfterRuntime LauncherEnds
CHECK_DEADLOCK FALSE
