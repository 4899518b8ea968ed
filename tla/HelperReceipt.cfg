SPECIFICATION Spec
CONSTANTS
    Profiles = {TRUE}
    MaxSignals = 1
    SupervisorFaults = FALSE
INVARIANT ReceiptCoversHelper
CHECK_DEADLOCK FALSE
