SPECIFICATION Spec
CONSTANTS
    Sessions = {s1, s2}
    None = None
    InitPid = InitPid
    Faults <- RemovalFaultAndKill
INVARIANTS AckSound LiveStateKept CleanExit
PROPERTY ImplementsPromise
SYMMETRY Interchangeable
CHECK_DEADLOCK FALSE
