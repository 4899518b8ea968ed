SPECIFICATION Spec
CONSTANTS
  p1 = p1
  p2 = p2
  main = main
  dev = dev
  NONE = NONE
  Procs = {p1, p2}
  Refs = {main}
  Commits = {c1, c2}
  Want <- OneRef
  MaxMoves = 2
  MaxFails = 1
  MaxKills = 1
  Killable <- AnyStep
  MaxRuns = 2
INVARIANTS CacheSound PresentIsRecent
PROPERTIES EveryRunEnds
CHECK_DEADLOCK FALSE
