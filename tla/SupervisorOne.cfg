SPECIFICATION FairSpec
CONSTANTS
    Sessions = {s1}
    None = None
    InitPid = InitPid
    Faults <- AllFaults
INVARIANTS NoOrphanHttpd
PROPERTIES RunnerDeathPropagates SignalHonoured StopAnswered
CHECK_DEADLOCK FALSE
