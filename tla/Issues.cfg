SPECIFICATION Spec
CONSTANTS
  k1 = k1
  k2 = k2
  lighttpd = lighttpd
  series = series
  NONE = NONE
  Keys = {k1, k2}
  Components = {lighttpd}
  Kinds = {series}
  Texts = {t1, t2}
  Component <- Same
  Kind <- OneKind
  MaxRuns = 3
  MaxFaults = 1
  MaxHumans = 1
INVARIANTS IssuesSound
PROPERTIES ClosedOnEvidence
CHECK_DEADLOCK FALSE
