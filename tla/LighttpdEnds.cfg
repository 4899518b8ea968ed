SPECIFICATION FairSpec
CONSTANTS
    Pids = {p1, p2, p3}
    Leader = p1
    TermConfirmations = 2
    MaxForks = 1
    MaxForeign = 1
    SelfExits = {"leader", "child"}
    ForeignKinds = {"plain", "leader"}
    SessionExe = "host"
PROPERTY ScriptEnds
CHECK_DEADLOCK FALSE
