--------------------------- MODULE LighttpdSession ---------------------------
(***************************************************************************)
(* The task session of the stock Lighttpd lifecycle run.  The shell script *)
(* run_lighttpd_stock_lifecycle.sh forks a leader that becomes the host    *)
(* (exec-session of lighttpd_backend_close_linux_guard.py), works with it, *)
(* and ends in `cleanup`, which calls the guard again: cleanup-session, or *)
(* terminate-unregistered when there is no record yet, and then            *)
(* assert-session-absent.                                                  *)
(*                                                                         *)
(* Script, leader, guard and the processes of the session run              *)
(* concurrently.  The guard sees them through /proc only: it lists PIDs,   *)
(* reads each entry later, opens a pidfd, and verifies what it has opened. *)
(* Members fork and exit between any two of those reads, and a PID that    *)
(* has become free goes to a process that has nothing to do with the run.  *)
(***************************************************************************)
EXTENDS Naturals, FiniteSets

CONSTANTS
    Pids,               \* process ids of the machine that matter here
    Leader,             \* the one the leader is given
    TermConfirmations,  \* TERM_EMPTY_CONFIRMATION_RESCANS, 6 in the code
    MaxForks,           \* bound: forks of the host and of its children
    MaxForeign,         \* bound: unrelated processes that take a free PID
    SelfExits,          \* who may exit without a signal: {"leader", "child"}
    ForeignKinds,       \* what an unrelated process may be, see ForeignAppears
    SessionExe          \* what the leader executes: "host", or "python" for
                        \* the V10 probe

ASSUME SessionAssumption ==
    /\ Leader \in Pids
    /\ IsFiniteSet(Pids)
    /\ TermConfirmations \in Nat \ {0}
    /\ MaxForks \in Nat
    /\ MaxForeign \in Nat
    /\ SelfExits \subseteq {"leader", "child"}
    /\ ForeignKinds \subseteq {"plain", "leader", "child"}
    /\ SessionExe \in {"host", "python"}

VARIABLES
    proc,     \* the occupant of each PID; gen stands for its start time
    stage,    \* how far the leader's program is
    record,   \* the session record: absent, created and empty, or written
    r,        \* the script
    g,        \* the guard command the script has started
    forks,    \* forks so far
    foreign   \* unrelated processes so far

vars == <<proc, stage, record, r, g, forks, foreign>>

(***************************************************************************)
(* Processes                                                               *)
(***************************************************************************)
Stages == {"unborn", "boot", "checked", "bound", "session", "created",
           "registered", "host"}

Bound == {"bound", "session", "created", "registered", "host"}

Exists(p) == proc[p].st # "none"

Live(p) == proc[p].st = "live"

\* A running process of the task: the leader or a descendant of it.
Ours(p) == Live(p) /\ proc[p].own

\* A PID is free when no process has it and no session is named after it.
PidFree(p) ==
    /\ ~Exists(p)
    /\ p = Leader => \A q \in Pids : ~(Exists(q) /\ proc[q].sess)

Occupant(p, own, sess) ==
    [st |-> "live", gen |-> proc[p].gen + 1, own |-> own, sess |-> sess,
     sig |-> "none"]

\* KILL ends a process at once, TERM ends the leader while it is still the
\* Python program; the host and its children take their time over TERM.
Signalled(p, sig) ==
    IF sig = "kill" \/ (p = Leader /\ proc[p].own /\ stage # "host")
    THEN [proc[p] EXCEPT !.st = "zombie", !.sig = sig]
    ELSE [proc[p] EXCEPT !.sig = sig]

Dead(p) == [proc EXCEPT ![p].st = "zombie"]

\* /proc/<pid>/exe of the leader's PID.
Exe == IF ~proc[Leader].own THEN "other"
       ELSE IF stage = "host" THEN SessionExe ELSE "python"

\* _pidfd_for_identity on the leader's PID: start time and executable.
Identity(start, exe) == Live(Leader) /\ proc[Leader].gen = start /\ Exe = exe

LeaderStart == 1

(***************************************************************************)
(* The leader: exec_session                                                *)
(***************************************************************************)
RunnerGone == r.pc = "exit"

LeaderAt(s) == stage = s /\ Ours(Leader)

LeaderFails == proc' = Dead(Leader) /\ UNCHANGED stage

\* The parent must be the script, before anything is bound to it.
CheckParent ==
    /\ LeaderAt("boot")
    /\ \/ RunnerGone /\ LeaderFails
       \/ ~RunnerGone /\ stage' = "checked" /\ UNCHANGED proc
    /\ UNCHANGED <<record, r, g, forks, foreign>>

\* prctl, which may fail.
BindDeathSignal ==
    /\ LeaderAt("checked")
    /\ \/ LeaderFails
       \/ stage' = "bound" /\ UNCHANGED proc
    /\ UNCHANGED <<record, r, g, forks, foreign>>

\* Deliberately wrong: no second look at the parent after prctl.
StartSessionUnchecked ==
    /\ LeaderAt("bound")
    /\ stage' = "session"
    /\ proc' = [proc EXCEPT ![Leader].sess = TRUE]
    /\ UNCHANGED <<record, r, g, forks, foreign>>

\* The parent is read again, as it may have died before prctl; then setsid, which
\* may fail.
StartSession ==
    /\ LeaderAt("bound")
    /\ \/ LeaderFails
       \/ /\ ~RunnerGone
          /\ stage' = "session"
          /\ proc' = [proc EXCEPT ![Leader].sess = TRUE]
    /\ UNCHANGED <<record, r, g, forks, foreign>>

\* _write_new creates the record under its final name and fills it afterwards.
CreateRecord ==
    /\ LeaderAt("session")
    /\ \/ LeaderFails /\ UNCHANGED record
       \/ stage' = "created" /\ record' = "empty" /\ UNCHANGED proc
    /\ UNCHANGED <<r, g, forks, foreign>>

WriteRecord ==
    /\ LeaderAt("created")
    /\ \/ LeaderFails /\ UNCHANGED record
       \/ stage' = "registered" /\ record' = "written" /\ UNCHANGED proc
    /\ UNCHANGED <<r, g, forks, foreign>>

ExecHost ==
    /\ LeaderAt("registered")
    /\ \/ LeaderFails
       \/ stage' = "host" /\ UNCHANGED proc
    /\ UNCHANGED <<record, r, g, forks, foreign>>

LeaderStep == \/ CheckParent \/ BindDeathSignal \/ StartSession
              \/ CreateRecord \/ WriteRecord \/ ExecHost

(***************************************************************************)
(* The session and the rest of the machine                                 *)
(***************************************************************************)
Runs(p) == Ours(p) /\ (p = Leader => stage = "host")

ForkMember(p, q) ==
    /\ Runs(p)
    /\ forks < MaxForks
    /\ PidFree(q)
    /\ proc' = [proc EXCEPT ![q] = Occupant(q, TRUE, TRUE)]
    /\ forks' = forks + 1
    /\ UNCHANGED <<stage, record, r, g, foreign>>

\* After SIGTERM, or of its own accord.
ProcessExits(p) ==
    /\ Runs(p)
    /\ \/ proc[p].sig = "term"
       \/ (IF p = Leader THEN "leader" ELSE "child") \in SelfExits
    /\ proc' = Dead(p)
    /\ UNCHANGED <<stage, record, r, g, forks, foreign>>

\* The script's shell reaps the leader, a member's parent or init the member.
Reap(p) ==
    /\ proc[p].st = "zombie"
    /\ proc' = [proc EXCEPT ![p] =
                  [@ EXCEPT !.st = "none", !.own = FALSE, !.sess = FALSE,
                            !.sig = "none"]]
    /\ UNCHANGED <<stage, record, r, g, forks, foreign>>

\* "plain": in a session of its own numbering; "leader": at the leader's PID,
\* and it has called setsid; "child": forked by such a process.
ForeignAppears(p, kind) ==
    /\ foreign < MaxForeign
    /\ PidFree(p)
    /\ p = Leader => stage # "unborn"
    /\ kind = "leader" => p = Leader
    /\ kind = "child" => /\ p # Leader
                         /\ Live(Leader) /\ ~proc[Leader].own /\ proc[Leader].sess
    /\ proc' = [proc EXCEPT ![p] = Occupant(p, FALSE, kind # "plain")]
    /\ foreign' = foreign + 1
    /\ UNCHANGED <<stage, record, r, g, forks>>

ForeignExits(p) ==
    /\ Live(p) /\ ~proc[p].own
    /\ proc' = Dead(p)
    /\ UNCHANGED <<stage, record, r, g, forks, foreign>>

Machine ==
    \/ \E p, q \in Pids : ForkMember(p, q)
    \/ \E p \in Pids : ProcessExits(p) \/ Reap(p) \/ ForeignExits(p)
    \/ \E p \in Pids, kind \in ForeignKinds : ForeignAppears(p, kind)

(***************************************************************************)
(* The guard: _scan_session_members and what is done with the result       *)
(***************************************************************************)
NoGuard ==
    [cmd |-> "none", ph |-> "none", pc |-> "none", list |-> {}, todo |-> {},
     pid |-> Leader, fd |-> 0, seen |-> 0, empty |-> 0, late |-> FALSE,
     err |-> FALSE, excl |-> FALSE, hitLeader |-> FALSE, surprise |-> FALSE,
     killed |-> FALSE, code |-> "none"]

\* The command starts; its start-time argument, where it has one, is in fd.
Command(cmd, pc, fd) == [NoGuard EXCEPT !.cmd = cmd, !.pc = pc, !.fd = fd]

GuardOnly == UNCHANGED <<proc, stage, record, r, forks, foreign>>

\* The same state with what only the previous step needed forgotten.
At(h, pc) == [h EXCEPT !.pc = pc, !.list = {}, !.seen = 0]

Done(h, code) == [NoGuard EXCEPT !.cmd = h.cmd, !.pc = "done", !.code = code,
                                 !.killed = h.killed]

Scan(h, ph) == [At(h, "list") EXCEPT !.ph = ph]

\* A new deadline.
Fresh(h) == [h EXCEPT !.late = FALSE, !.empty = 0]

Sig == IF g.ph = "term" THEN "term" ELSE "kill"

\* The deadline of the current phase passes, as seen by the next step that
\* looks at the clock.
Tick ==
    /\ g.pc \in {"next", "read", "uwait", "uwaitKill"}
    /\ g.ph # "init"
    /\ ~g.late
    /\ g' = [g EXCEPT !.late = TRUE]
    /\ GuardOnly

\* terminate_registered_session starts by reading the record.
ReadRecord ==
    /\ g.pc = "record"
    /\ g' = IF record = "written" THEN Scan(g, "init") ELSE Done(g, "fail")
    /\ GuardOnly

ListProc ==
    /\ g.pc = "list"
    /\ g' = [At(g, "read") EXCEPT !.list = {p \in Pids : Exists(p)}]
    /\ GuardOnly

Excluded == IF g.excl THEN {Leader} ELSE {}

\* _signal_registered_leader_if_live comes next, unless it may not or need not.
Fallback(h) == At(h, IF h.excl \/ h.hitLeader THEN "signalled" ELSE "fallback")

\* terminate_registered_session, the end.
Verdict(h, stopped) ==
    Done(h, IF stopped /\ ~h.err /\ ~h.surprise THEN "ok" ELSE "fail")

\* What the caller of a wait does after a scan that is not its last.
Again(h, ph, ended) == IF h.late THEN ended ELSE Scan(h, ph)

\* Deliberately wrong: the first empty scan ends the wait for TERM.
TermWaitOnce(h, found) ==
    IF found = {} THEN Verdict(h, TRUE)
    ELSE Again(h, "termwait", Scan([Fresh(h) EXCEPT !.killed = TRUE,
                                        !.hitLeader = FALSE], "kill"))

\* _wait_for_no_active_session_members after TERM: only an uninterrupted row
\* of empty scans ends it before the deadline, after which KILL follows.
TermWait(h, found) ==
    LET row == IF found = {} THEN h.empty + 1 ELSE 0
    IN  IF row >= TermConfirmations THEN Verdict(h, TRUE)
        ELSE Again([h EXCEPT !.empty = row], "termwait",
                   Scan([Fresh(h) EXCEPT !.killed = TRUE,
                             !.hitLeader = FALSE], "kill"))

\* The scan's entries are read: the session field and, but for the rounds that
\* go on to read it themselves, the state.  An entry that cannot be read is
\* lost from the result and leaves an error.
ReadEntries ==
    /\ g.pc = "read"
    /\ \E lost \in SUBSET {p \in g.list : Exists(p) /\ proc[p].sess} :
         LET members == {p \in g.list \ lost : Exists(p) /\ proc[p].sess}
             active == {p \in members : Live(p)}
             h == [g EXCEPT !.err = @ \/ lost # {}]
         IN  \/ /\ g.ph = "init"
                /\ g' = At([h EXCEPT !.surprise = active \ {Leader} # {}], "leader")
             \/ /\ g.ph \in {"term", "kill"}
                /\ g' = [At(h, "next") EXCEPT !.todo = members \ Excluded]
             \/ /\ g.ph = "termwait"
                /\ g' = TermWait(h, active \ Excluded)
             \/ /\ g.ph = "killwait"
                /\ IF active \ Excluded = {} \/ h.late
                   THEN g' = Fallback([h EXCEPT !.empty =
                                 IF active \ Excluded = {} THEN 1 ELSE 0])
                   ELSE g' \in {Scan(h, "killwait"), Scan(h, "kill")}
             \/ /\ g.ph = "absent"
                /\ g' = IF h.err THEN Done(h, "fail")
                        ELSE IF active = {} THEN Done(h, "ok")
                        ELSE Again(h, "absent", Done(h, "fail"))
    /\ GuardOnly

\* _prepare_leader_cleanup: state first, identity second.  A leader that runs
\* and is not recognised is never signalled, and the cleanup has failed.
ReadLeader ==
    /\ g.pc = "leader"
    /\ g' = IF Live(Leader) THEN At(g, "anchor") ELSE Scan(Fresh(g), "term")
    /\ GuardOnly

AnchorLeader ==
    /\ g.pc = "anchor"
    /\ LET known == Identity(LeaderStart, "host")
       IN  g' = Scan(Fresh([g EXCEPT !.excl = ~known, !.err = @ \/ ~known]), "term")
    /\ GuardOnly

(***************************************************************************)
(* Signalling one member after the other: _signal_current_session_members  *)
(***************************************************************************)
RoundEnds(h) ==
    IF h.ph = "term" THEN Fallback([h EXCEPT !.todo = {}])
    ELSE Scan([h EXCEPT !.todo = {}], "killwait")

\* The member is left alone; error says whether the cleanup fails for it.
Skip(error) ==
    g' = [At(g, "next") EXCEPT !.todo = @ \ {g.pid}, !.pid = Leader, !.fd = 0,
                               !.err = @ \/ error]

NextMember ==
    /\ g.pc = "next"
    /\ \/ /\ g.todo = {}
          /\ g' = RoundEnds(g)
       \/ /\ g.todo # {} /\ g.late
          /\ g' = RoundEnds([g EXCEPT !.err = TRUE])
       \/ /\ ~g.late
          /\ \E p \in g.todo :
               g' = IF Live(p) THEN [g EXCEPT !.pc = "open", !.pid = p]
                    ELSE [g EXCEPT !.todo = @ \ {p}]
    /\ GuardOnly

\* From here on the signal can only reach the process the pidfd stands for.
OpenPidfd ==
    /\ g.pc = "open"
    /\ IF Exists(g.pid)
       THEN g' = [g EXCEPT !.pc = "snap", !.fd = proc[g.pid].gen]
       ELSE Skip(FALSE)
    /\ GuardOnly

\* Deliberately wrong: the leader's PID may have any start time.
MemberAnyStart(p) == Exists(p) /\ proc[p].sess

\* _member_snapshot: a member is known by its session, the leader by its start
\* time as well.
Member(p) ==
    /\ Exists(p)
    /\ proc[p].sess
    /\ p = Leader => proc[p].gen = LeaderStart

\* _open_verified_session_member reads the identity twice.
FirstSnapshot ==
    /\ g.pc = "snap"
    /\ IF Member(g.pid)
       THEN g' = [g EXCEPT !.pc = "verify", !.seen = proc[g.pid].gen]
       ELSE Skip(Live(g.pid))
    /\ GuardOnly

SecondSnapshot ==
    /\ g.pc = "verify"
    /\ IF Member(g.pid) /\ proc[g.pid].gen = g.seen
       THEN g' = [g EXCEPT !.pc = "current"]
       ELSE Skip(Live(g.pid))
    /\ GuardOnly

\* _member_is_current, immediately before the signal.
MemberIsCurrent ==
    /\ g.pc = "current"
    /\ IF ~Live(g.pid) THEN Skip(FALSE)
       ELSE IF /\ proc[g.pid].gen = g.fd
               /\ Member(g.pid)
               /\ proc[g.pid].gen = g.seen
            THEN g' = [g EXCEPT !.pc = "send"]
            ELSE Skip(TRUE)
    /\ GuardOnly

\* pidfd_send_signal: nothing happens when the process is gone by now.
SendSignal ==
    /\ g.pc = "send"
    /\ LET p == g.pid
           reached == Exists(p) /\ proc[p].gen = g.fd
       IN  /\ proc' = IF reached /\ Live(p)
                      THEN [proc EXCEPT ![p] = Signalled(p, Sig)] ELSE proc
           /\ g' = [At(g, "next") EXCEPT !.todo = @ \ {p}, !.pid = Leader, !.fd = 0,
                        !.hitLeader = @ \/ (reached /\ p = Leader),
                        !.surprise = @ \/ (reached /\ p # Leader)]
    /\ UNCHANGED <<stage, record, r, forks, foreign>>

\* _signal_registered_leader_if_live: the leader, when the round missed it.
SignalLeader ==
    /\ g.pc = "fallback"
    /\ LET known == Identity(LeaderStart, "host")
       IN  /\ proc' = IF known THEN [proc EXCEPT ![Leader] = Signalled(Leader, Sig)]
                      ELSE proc
           /\ g' = [g EXCEPT !.pc = "signalled",
                             !.err = @ \/ (Live(Leader) /\ ~known)]
    /\ UNCHANGED <<stage, record, r, forks, foreign>>

AfterSignals ==
    /\ g.pc = "signalled"
    /\ g' = IF g.ph = "term" THEN Scan([g EXCEPT !.empty = 0], "termwait")
            ELSE Verdict(g, g.empty = 1)
    /\ GuardOnly

(***************************************************************************)
(* terminate_unregistered_session: the leader alone, by its pidfd          *)
(***************************************************************************)
OpenUnregistered ==
    /\ g.pc = "uopen"
    /\ g' = IF ~Exists(Leader) THEN Done(g, "ok")
            ELSE IF Identity(g.fd, "python") THEN At(g, "ufields")
            ELSE Done(g, "fail")
    /\ GuardOnly

CheckUnregistered ==
    /\ g.pc = "ufields"
    /\ g' = IF Exists(Leader) /\ proc[Leader].sess THEN At(g, "uterm")
            ELSE Done(g, "fail")
    /\ GuardOnly

SignalUnregistered ==
    /\ g.pc \in {"uterm", "ukill"}
    /\ proc' = IF Live(Leader) /\ proc[Leader].gen = g.fd
               THEN [proc EXCEPT ![Leader] =
                       Signalled(Leader, IF g.pc = "uterm" THEN "term" ELSE "kill")]
               ELSE proc
    /\ g' = At(Fresh(g), IF g.pc = "uterm" THEN "uwait" ELSE "uwaitKill")
    /\ UNCHANGED <<stage, record, r, forks, foreign>>

AwaitUnregistered ==
    /\ g.pc \in {"uwait", "uwaitKill"}
    /\ \/ ~g.late /\ ~Live(Leader) /\ g' = Done(g, "ok")
       \/ /\ g.late
          /\ g' = IF g.pc = "uwait" THEN At(g, "ukill") ELSE Done(g, "fail")
    /\ GuardOnly

GuardStep ==
    \/ ReadRecord \/ ListProc \/ ReadEntries \/ ReadLeader \/ AnchorLeader
    \/ NextMember \/ OpenPidfd \/ FirstSnapshot \/ SecondSnapshot
    \/ MemberIsCurrent \/ SendSignal \/ SignalLeader \/ AfterSignals
    \/ OpenUnregistered \/ CheckUnregistered \/ SignalUnregistered
    \/ AwaitUnregistered

(***************************************************************************)
(* The script                                                              *)
(***************************************************************************)
ScriptOnly == UNCHANGED <<stage, record, forks, foreign>>

Starting == {"start", "forked", "pid", "session"}

\* Before anything has happened; base is the number of forks when cleanup
\* began, scans the number of empty scans its answer rests on.
Script ==
    [pc |-> "start", session |-> FALSE, start |-> 0, failed |-> FALSE,
     base |-> 0, scans |-> 0, code |-> "none"]

\* exec-session is put in the background.
ForkLeader ==
    /\ r.pc = "start"
    /\ r' = [r EXCEPT !.pc = "forked"]
    /\ proc' = [proc EXCEPT ![Leader] = Occupant(Leader, TRUE, FALSE)]
    /\ stage' = "boot"
    /\ UNCHANGED <<record, g, forks, foreign>>

\* SERVER_PID, SERVER_SESSION and SERVER_START_TIME are three assignments.
NotePid ==
    /\ r.pc = "forked"
    /\ r' = [r EXCEPT !.pc = "pid"]
    /\ UNCHANGED <<proc, g>> /\ ScriptOnly

NoteSession ==
    /\ r.pc = "pid"
    /\ r' = [r EXCEPT !.pc = "session", !.session = TRUE]
    /\ UNCHANGED <<proc, g>> /\ ScriptOnly

\* The start time is that of whoever has the PID now; without one it fails.
NoteStart ==
    /\ r.pc = "session"
    /\ Exists(Leader)
    /\ r' = [r EXCEPT !.pc = "work", !.start = proc[Leader].gen]
    /\ UNCHANGED <<proc, g>> /\ ScriptOnly

\* The work is done, or a step of it has failed, or a signal has come.
EnterCleanup ==
    /\ r.pc \in Starting \cup {"work"}
    /\ r' = [r EXCEPT !.pc = "cleanup", !.base = forks]
    /\ UNCHANGED <<proc, g>> /\ ScriptOnly

\* The end of the script, and the signal the leader has asked for in that case.
ScriptExits(code) ==
    /\ r' = IF code = "zero" THEN [r EXCEPT !.pc = "exit", !.code = code]
            ELSE [Script EXCEPT !.pc = "exit", !.code = code]
    /\ proc' = IF stage \in Bound /\ Ours(Leader)
               THEN [proc EXCEPT ![Leader] = Signalled(Leader, "term")]
               ELSE proc

\* [ -f "$SERVER_SESSION_RECORD" ] decides; a record just created will do.
RunCleanup ==
    /\ r.pc = "cleanup"
    /\ IF record # "none"
       THEN /\ g' = Command("cleanup", "record", 0)
            /\ r' = [r EXCEPT !.pc = "await"]
       ELSE IF r.start # 0
       THEN /\ g' = Command("unregistered", "uopen", r.start)
            /\ r' = [r EXCEPT !.pc = "await"]
       ELSE /\ r' = [r EXCEPT !.pc = "absent", !.failed = TRUE]
            /\ UNCHANGED g
    /\ UNCHANGED proc /\ ScriptOnly

\* The empty scans a successful command stands for.
Scans == CASE g.cmd = "absent" -> 1
           [] g.cmd = "unregistered" -> 0
           [] OTHER -> IF g.killed THEN 1 ELSE TermConfirmations

AfterCleanup ==
    /\ r.pc = "await" /\ g.pc = "done"
    /\ r' = [r EXCEPT !.pc = "absent", !.failed = @ \/ g.code = "fail",
                      !.scans = Scans]
    /\ g' = NoGuard
    /\ UNCHANGED proc /\ ScriptOnly

RunAbsent ==
    /\ r.pc = "absent"
    /\ r.session
    /\ g' = Scan(Command("absent", "list", 0), "absent")
    /\ r' = [r EXCEPT !.pc = "awaitAbsent"]
    /\ UNCHANGED proc /\ ScriptOnly

\* Deliberately wrong: the result of the last guard command decides alone.
AfterAbsentLastWins ==
    /\ r.pc = "awaitAbsent" /\ g.pc = "done"
    /\ r' = [r EXCEPT !.pc = "ending", !.failed = g.code = "fail", !.scans = @ + 1]
    /\ g' = NoGuard
    /\ UNCHANGED proc /\ ScriptOnly

AfterAbsent ==
    /\ r.pc = "awaitAbsent" /\ g.pc = "done"
    /\ r' = [r EXCEPT !.pc = "ending", !.failed = @ \/ g.code = "fail",
                      !.scans = @ + 1]
    /\ g' = NoGuard
    /\ UNCHANGED proc /\ ScriptOnly

\* CLEANUP_STATUS is the script's answer: 0 for the pass and, for a signal that
\* was handled cleanly, 128; both are "zero" here.
EndCleanup ==
    /\ r.pc = "ending" \/ (r.pc = "absent" /\ ~r.session)
    /\ ScriptExits(IF r.failed THEN "fail" ELSE "zero")
    /\ UNCHANGED g /\ ScriptOnly

\* A second signal finds CLEANUP_ACTIVE set and CLEANUP_STATUS still 1.  The
\* shell acts on it when the command it waits for has ended.
InterruptCleanup ==
    /\ r.pc \in {"cleanup", "absent", "ending"}
    /\ ScriptExits("fail")
    /\ UNCHANGED g /\ ScriptOnly

\* SIGKILL: no trap runs, a guard that is at work goes on.
ScriptKilled ==
    /\ r.pc \notin {"start", "exit"}
    /\ ScriptExits("killed")
    /\ UNCHANGED g /\ ScriptOnly

\* The steps of the script that nothing outside can hold up.
ScriptStep ==
    \/ ForkLeader \/ NotePid \/ NoteSession \/ NoteStart \/ EnterCleanup
    \/ RunCleanup \/ AfterCleanup \/ RunAbsent \/ AfterAbsent \/ EndCleanup

(***************************************************************************)
(* Specification                                                           *)
(***************************************************************************)
Init ==
    /\ proc = [p \in Pids |-> [st |-> "none", gen |-> 0, own |-> FALSE,
                               sess |-> FALSE, sig |-> "none"]]
    /\ stage = "unborn"
    /\ record = "none"
    /\ r = Script
    /\ g = NoGuard
    /\ forks = 0
    /\ foreign = 0

Next == \/ LeaderStep \/ Machine \/ GuardStep \/ Tick
        \/ ScriptStep \/ InterruptCleanup \/ ScriptKilled

Spec == Init /\ [][Next]_vars

\* Every wait of the guard has a deadline on the monotonic clock, every wait of
\* the script is for a guard or has a deadline, and the leader blocks nowhere.
\* Fairness of Tick is strong because its guard names the moments at which the
\* clock is read, while time passes between them too.
FairSpec ==
    /\ Spec
    /\ WF_vars(LeaderStep)
    /\ WF_vars(GuardStep)
    /\ SF_vars(Tick)
    /\ WF_vars(ScriptStep)

(***************************************************************************)
(* Properties                                                              *)
(***************************************************************************)
Procs == [st : {"none", "live", "zombie"}, gen : Nat, own : BOOLEAN,
          sess : BOOLEAN, sig : {"none", "term", "kill"}]

\* Every variable has its type.
TypeOK ==
    /\ proc \in [Pids -> Procs]
    /\ stage \in Stages
    /\ record \in {"none", "empty", "written"}
    /\ r \in [pc : Starting \cup {"work", "cleanup", "await", "absent",
                                  "awaitAbsent", "ending", "exit"},
              session : BOOLEAN, start : Nat, failed : BOOLEAN, base : Nat,
              scans : Nat, code : {"none", "zero", "fail", "killed"}]
    /\ g.cmd \in {"none", "cleanup", "unregistered", "absent"}
    /\ g.code \in {"none", "ok", "fail"}
    /\ g.list \subseteq Pids /\ g.todo \subseteq Pids /\ g.pid \in Pids
    /\ {g.fd, g.seen, g.empty} \subseteq Nat
    /\ {g.late, g.err, g.excl, g.hitLeader, g.surprise, g.killed} \subseteq BOOLEAN
    /\ forks \in 0 .. MaxForks
    /\ foreign \in 0 .. MaxForeign

\* No guard command ever signals a process that is not of the task, whatever
\* PIDs change hands between the scan, the pidfd, the verification and the
\* signal.
OnlyOwnSignalled == \A p \in Pids : proc[p].sig # "none" => proc[p].own

\* A script that reports a clean end leaves no process of the task behind,
\* unless the session has forked across every one of the empty scans that the
\* report rests on: a scan can be deceived by a member that forks and exits
\* between the listing of /proc and the reading of its entry, and each such
\* deception costs the session a fork.
CleanMeansGone ==
    r.code = "zero" /\ (\E p \in Pids : Ours(p)) => forks - r.base >= r.scans


\* Whatever moment of the leader's start the end of the script falls into, the
\* leader is about to find out or has been sent SIGTERM: it never becomes a host
\* that nobody stops.
HostFollowsScript ==
    RunnerGone /\ Ours(Leader) =>
        stage \in {"boot", "checked", "bound"} \/ proc[Leader].sig = "term"

\* Cleanup touches nothing but the task session, what it reports about the
\* session is true up to the forks the scans can miss, and what it leaves alone
\* the end of the script takes along.
SessionSound == TypeOK /\ OnlyOwnSignalled /\ CleanMeansGone /\ HostFollowsScript

\* The script ends, however long the host or a member of it resists.
ScriptEnds == <>(r.pc = "exit")

\* The plain reading of "contained": a clean end leaves no process of the task.
NoMemberLeft == r.code = "zero" => \A p \in Pids : ~Ours(p)

\* cleanup-session refuses the leader of its own record only while that leader
\* has not yet executed its program.
LeaderRecognised ==
    [][g'.excl /\ ~g.excl => ~(Ours(Leader) /\ stage = "host")]_vars
=============================================================================
