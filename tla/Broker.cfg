SPECIFICATION Spec
CONSTANTS
  Artifacts = {a1, a2}
  MaxAttempts = 2
  MaxKills = 1
  Killable <- ExceptStart
  Schema = 2
INVARIANTS AdmissionSound EndIsClean
PROPERTIES RemovedOnlyWhenStopped Terminates
CHECK_DEADLOCK FALSE
