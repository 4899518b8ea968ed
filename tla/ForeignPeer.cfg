SPECIFICATION Spec
CONSTANTS
    Sessions = {s1, s2}
    None = None
    InitPid = InitPid
    Faults <- AllFaults
PROPERTY ForeignPeerNeverStops
CHECK_DEADLOCK FALSE
