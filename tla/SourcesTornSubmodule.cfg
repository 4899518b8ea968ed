SPECIFICATION Spec
CONSTANTS
  p1 = p1
  p2 = p2
  main = main
  dev = dev
  NONE = NONE
  Procs = {p1}
  Refs = {main}
  Commits = {c1, c2}
  Want <- OneRef
  MaxMoves = 2
  MaxFails = 0
  MaxKills = 1
  Killable <- AnyStep
  MaxRuns = 3
INVARIANTS PresentIsComplete
CHECK_DEADLOCK FALSE
