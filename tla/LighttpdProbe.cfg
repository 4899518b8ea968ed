SPECIFICATION Spec
CONSTANTS
    Pids = {p1, p2, p3}
    Leader = p1
    TermConfirmations = 2
    MaxForks = 0
    MaxForeign = 0
    SelfExits = {"leader", "child"}
    ForeignKinds = {"plain", "leader"}
    SessionExe = "python"
PROPERTY LeaderRecognised
CHECK_DEADLOCK FALSE
