SPECIFICATION Spec
CONSTANTS
    Pids = {p1, p2, p3}
    Leader = p1
    TermConfirmations = 2
    MaxForks = 0
    MaxForeign = 2
    SelfExits = {"leader", "child"}
    ForeignKinds = {"plain", "leader", "child"}
    SessionExe = "host"
INVARIANT OnlyOwnSignalled
CHECK_DEADLOCK FALSE
