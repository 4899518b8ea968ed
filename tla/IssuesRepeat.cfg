SPECIFICATION Spec
CONSTANTS
  k1 = k1
  k2 = k2
  lighttpd = lighttpd
  series = series
  NONE = NONE
  Keys = {k1, k2}
  Components = {lighttpd}
  Kinds = {series}
  Texts = {t1, t2}
  Component <- Same
  Kind <- OneKind
  MaxRuns = 2
  MaxFaults = 0
  MaxHumans = 0
INVARIANTS RepeatIsQuiet
CHECK_DEADLOCK FALSE
