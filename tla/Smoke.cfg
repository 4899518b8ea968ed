SPECIFICATION FairSpec
CONSTANTS
    Profiles = {FALSE, TRUE}
    MaxSignals = 2
    SupervisorFaults = TRUE
INVARIANTS ReceiptSound StatusJustified
PROPERTIES OldEvidenceKept ScriptEnds HttpdEnds
CHECK_DEADLOCK FALSE
