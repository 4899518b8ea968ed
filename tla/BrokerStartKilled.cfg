SPECIFICATION Spec
CONSTANTS
  Artifacts = {a1}
  MaxAttempts = 1
  MaxKills = 1
  Killable <- OnlyStart
  Schema = 2
PROPERTIES RemovedOnlyWhenStopped
CHECK_DEADLOCK FALSE
