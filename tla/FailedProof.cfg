SPECIFICATION Spec
CONSTANTS
    Profiles = {TRUE}
    MaxSignals = 1
    SupervisorFaults = FALSE
INVARIANT FailedProofNoReceipt
CHECK_DEADLOCK FALSE
