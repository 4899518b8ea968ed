SPECIFICATION Spec
CONSTANTS
  p1 = p1
  p2 = p2
  main = main
  dev = dev
  NONE = NONE
  Procs = {p1, p2}
  Refs = {main, dev}
  Commits = {c1, c2}
  Want <- TwoRefs
  MaxMoves = 0
  MaxFails = 0
  MaxKills = 0
  Killable <- AnyStep
  MaxRuns = 2
INVARIANTS NeverUnmanaged
CHECK_DEADLOCK FALSE
