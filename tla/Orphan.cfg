SPECIFICATION FairSpec
CONSTANTS
    Sessions = {s1}
    None = None
    InitPid = InitPid
    Faults <- AllFaults
PROPERTY RunnerlessSupervisorEnds
CHECK_DEADLOCK FALSE
