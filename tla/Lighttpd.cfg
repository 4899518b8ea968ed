\* Three PIDs, the leader and two more, so that a member can fork into a PID that a scan
\* has already passed while its own becomes free; two forks, as many as the empty scans
\* behind a clean status after KILL, where CleanMeansGone holds with equality; one
\* unrelated process, which can take the leader's PID or a member's; two confirming
\* rescans for the six of the code, the number being a parameter of the property.
SPECIFICATION Spec
CONSTANTS
    Pids = {p1, p2, p3}
    Leader = p1
    TermConfirmations = 2
    MaxForks = 2
    MaxForeign = 1
    SelfExits = {"leader", "child"}
    ForeignKinds = {"plain", "leader"}
    SessionExe = "host"
INVARIANT SessionSound
CHECK_DEADLOCK FALSE
