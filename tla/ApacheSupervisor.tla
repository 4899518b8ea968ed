-------------------------- MODULE ApacheSupervisor --------------------------
(***************************************************************************)
(* The launch-bound Apache supervisor of apache_process_guard.py.          *)
(*                                                                         *)
(* A session is one `supervise` command: a runner (the smoke shell) forks  *)
(* a supervisor, the supervisor forks one httpd child, publishes a session *)
(* state file and a PID file in the shared runtime directory, serves a     *)
(* control socket, and stops and reaps the child before it withdraws both  *)
(* files.  Sessions of several runners may overlap in one directory.       *)
(*                                                                         *)
(* The kernel's part is modelled as the code uses it: getppid,             *)
(* PR_SET_PDEATHSIG, blocked and pending signals, zombies and reaping,     *)
(* link/O_EXCL creation, unlink by name after an inode comparison.         *)
(* One action is one step between two points at which another process can  *)
(* run; every step that may fail in the code may fail here.                *)
(***************************************************************************)
EXTENDS Naturals

CONSTANTS
    Sessions,   \* one element per supervise command, with its runner
    None,       \* no session
    InitPid,    \* process 1, the parent of every orphan
    Faults      \* what may go wrong: calls the operating system may fail, and
                \* signals from outside

FaultKinds == {"fork", "pidfd", "bind", "state", "pid", "remove", "signal", "kill"}

ASSUME SupervisorAssumption ==
    /\ None \notin Sessions
    /\ InitPid \notin Sessions
    /\ None # InitPid
    /\ Faults \subseteq FaultKinds

Artifacts == {"state", "pid"}

VARIABLES
    runner,     \* is the runner of s alive?
    pc,         \* where the supervisor of s is in the code
    ret,        \* where _supervisor_stop_child returns to
    exit,       \* how the supervisor ended
    eparent,    \* expected_parent
    pdeath,     \* the supervisor's PR_SET_PDEATHSIG
    masked,     \* TERM, HUP and INT are blocked
    sig,        \* such a signal: "none", "pending", or "requested" (stop_requested)
    peer,       \* the control client being served
    owned,      \* the artifacts whose inode identity the supervisor holds
    kept,       \* history: the artifacts whose removal by the supervisor has failed
    child,      \* the httpd process
    csig,       \* the strongest signal sent to it
    file,       \* the shared directory: which session's inode is at a name
    cpc,        \* the stop-supervisor client of the runner of s
    ctarget,    \* the session it connected to
    rpc,        \* the retire-supervisor-artifact command of the runner of s
    rpid        \* the PID-file inode it saw

supVars    == <<ret, exit, eparent, pdeath, masked, sig, peer, owned, kept>>
childVars  == <<child, csig>>
clientVars == <<cpc, ctarget>>
retireVars == <<rpc, rpid>>
vars == <<runner, pc, supVars, childVars, file, clientVars, retireVars>>

LaunchPCs  == {"entry", "blocked", "armed", "fork", "popen", "rearm", "recheck"}
SessionPCs == {"bind", "publish", "pidout", "unmask", "loop", "accept"}
StopPCs    == {"stop", "waitTerm", "waitKill", "stopped"}
FinalPCs   == {"final", "chk_state", "rm_state", "chk_pid", "rm_pid"}
PCs == LaunchPCs \cup SessionPCs \cup StopPCs \cup FinalPCs \cup {"dead"}

TypeOK ==
    /\ runner \in [Sessions -> {"alive", "dead"}]
    /\ pc \in [Sessions -> PCs]
    /\ ret \in [Sessions -> {"none", "ok", "ack", "fail", "launch"}]
    /\ exit \in [Sessions -> {"none", "zero", "failed", "killed"}]
    /\ eparent \in [Sessions -> Sessions \cup {None, InitPid}]
    /\ pdeath \in [Sessions -> {"none", "KILL", "TERM"}]
    /\ masked \in [Sessions -> BOOLEAN]
    /\ sig \in [Sessions -> {"none", "pending", "requested"}]
    /\ peer \in [Sessions -> Sessions \cup {None}]
    /\ owned \in [Sessions -> SUBSET Artifacts]
    /\ kept \in [Sessions -> SUBSET Artifacts]
    /\ child \in [Sessions -> {"none", "forked", "armed", "running", "zombie", "reaped"}]
    /\ csig \in [Sessions -> {"none", "TERM", "KILL"}]
    /\ file \in [Artifacts -> Sessions \cup {None}]
    /\ cpc \in [Sessions -> {"idle", "queued", "gone", "acked", "failed"}]
    /\ ctarget \in [Sessions -> Sessions \cup {None}]
    /\ rpc \in [Sessions -> {"idle", "chk_state", "rm_state", "chk_pid", "rm_pid", "done"}]
    /\ rpid \in [Sessions -> Sessions \cup {None}]

Init ==
    /\ runner = [s \in Sessions |-> "alive"]
    /\ pc = [s \in Sessions |-> "entry"]
    /\ ret = [s \in Sessions |-> "none"]
    /\ exit = [s \in Sessions |-> "none"]
    /\ eparent = [s \in Sessions |-> None]
    /\ pdeath = [s \in Sessions |-> "none"]
    /\ masked = [s \in Sessions |-> FALSE]
    /\ sig = [s \in Sessions |-> "none"]
    /\ peer = [s \in Sessions |-> None]
    /\ owned = [s \in Sessions |-> {}]
    /\ kept = [s \in Sessions |-> {}]
    /\ child = [s \in Sessions |-> "none"]
    /\ csig = [s \in Sessions |-> "none"]
    /\ file = [a \in Artifacts |-> None]
    /\ cpc = [s \in Sessions |-> "idle"]
    /\ ctarget = [s \in Sessions |-> None]
    /\ rpc = [s \in Sessions |-> "idle"]
    /\ rpid = [s \in Sessions |-> None]

-----------------------------------------------------------------------------
(* Kernel *)

\* getppid() of a process forked by the runner of s: an orphan belongs to init.
Parent(s) == IF runner[s] = "alive" THEN s ELSE InitPid

Go(s, from, to) == /\ pc[s] = from
                   /\ pc' = [pc EXCEPT ![s] = to]

Waiting(s) == {c \in Sessions : ctarget[c] = s /\ cpc[c] \in {"queued", "gone"}}

\* Closing the control socket resets every connection to it.
Hangup(s) == cpc' = [c \in Sessions |-> IF c \in Waiting(s) THEN "failed" ELSE cpc[c]]

\* The supervisor process ends.  A child that armed PR_SET_PDEATHSIG is sent
\* SIGKILL; one that has not yet is caught by its own getppid() test.
Die(s, how) ==
    /\ pc' = [pc EXCEPT ![s] = "dead"]
    /\ exit' = [exit EXCEPT ![s] = how]
    /\ csig' = [csig EXCEPT ![s] =
                    IF child[s] \in {"armed", "running"} THEN "KILL" ELSE @]
    /\ Hangup(s)

\* Delivery of TERM, HUP or INT to the supervisor: default action before the
\* handlers are installed, pending while blocked, request_stop otherwise.
Deliver(s) ==
    \/ /\ pc[s] = "entry"
       /\ Die(s, "killed")
       /\ UNCHANGED sig
    \/ /\ pc[s] \notin {"entry", "dead"}
       /\ sig' = [sig EXCEPT ![s] =
                     IF @ = "requested" \/ ~masked[s] THEN "requested" ELSE "pending"]
       /\ UNCHANGED <<pc, exit, csig, cpc>>

RunnerDies(s) ==
    /\ runner[s] = "alive"
    /\ runner' = [runner EXCEPT ![s] = "dead"]
    /\ \/ pdeath[s] = "none" /\ UNCHANGED <<pc, exit, csig, cpc, sig>>
       \/ pdeath[s] = "KILL" /\ pc[s] # "dead" /\ Die(s, "killed") /\ UNCHANGED sig
       \/ pdeath[s] = "TERM" /\ pc[s] # "dead" /\ Deliver(s)
       \/ pc[s] = "dead" /\ pdeath[s] # "none" /\ UNCHANGED <<pc, exit, csig, cpc, sig>>
    /\ UNCHANGED <<ret, eparent, pdeath, masked, peer, owned, kept, child, file, ctarget, retireVars>>

Signal(s) ==
    /\ "signal" \in Faults
    /\ sig[s] = "none"
    /\ Deliver(s)
    /\ UNCHANGED <<runner, ret, eparent, pdeath, masked, peer, owned, kept, child, file,
                   ctarget, retireVars>>

\* SIGKILL from outside (an operator, the OOM killer): at any step.
SupervisorKilled(s) ==
    /\ "kill" \in Faults
    /\ pc[s] # "dead"
    /\ Die(s, "killed")
    /\ UNCHANGED <<runner, ret, eparent, pdeath, masked, sig, peer, owned, kept, child, file,
                   ctarget, retireVars>>

-----------------------------------------------------------------------------
(* The child: _child_preexec, then httpd *)

ChildArm(s) ==
    /\ child[s] = "forked"
    /\ child' = [child EXCEPT ![s] = "armed"]
    /\ UNCHANGED <<runner, pc, supVars, csig, file, clientVars, retireVars>>

\* Deliberately wrong: exec without the getppid() test, by a child that armed
\* too late.
ChildCheckSkipped(s) ==
    /\ child[s] = "armed"
    /\ child' = [child EXCEPT ![s] = "running"]
    /\ UNCHANGED <<runner, pc, supVars, csig, file, clientVars, retireVars>>

\* os.getppid() != expected_parent: _exit(77), else exec.
ChildCheck(s) ==
    /\ child[s] = "armed"
    /\ child' = [child EXCEPT ![s] = IF pc[s] # "dead" THEN "running" ELSE "zombie"]
    /\ UNCHANGED <<runner, pc, supVars, csig, file, clientVars, retireVars>>

\* httpd exits on its own or because it honours SIGTERM; it may do neither.
ChildExit(s) ==
    /\ child[s] = "running"
    /\ child' = [child EXCEPT ![s] = "zombie"]
    /\ UNCHANGED <<runner, pc, supVars, csig, file, clientVars, retireVars>>

ChildKilled(s) ==
    /\ csig[s] = "KILL"
    /\ child[s] \in {"armed", "running"}
    /\ child' = [child EXCEPT ![s] = "zombie"]
    /\ UNCHANGED <<runner, pc, supVars, csig, file, clientVars, retireVars>>

InitReaps(s) ==
    /\ pc[s] = "dead"
    /\ child[s] = "zombie"
    /\ child' = [child EXCEPT ![s] = "reaped"]
    /\ UNCHANGED <<runner, pc, supVars, csig, file, clientVars, retireVars>>

-----------------------------------------------------------------------------
(* supervise and _launch_supervised_child *)

ReadParent(s) ==
    /\ Go(s, "entry", "blocked")
    /\ eparent' = [eparent EXCEPT ![s] = Parent(s)]
    /\ masked' = [masked EXCEPT ![s] = TRUE]
    /\ UNCHANGED <<runner, ret, exit, pdeath, sig, peer, owned, kept, childVars, file,
                   clientVars, retireVars>>

ArmKill(s) ==
    /\ Go(s, "blocked", "armed")
    /\ pdeath' = [pdeath EXCEPT ![s] = "KILL"]
    /\ UNCHANGED <<runner, ret, exit, eparent, masked, sig, peer, owned, kept, childVars, file,
                   clientVars, retireVars>>

CheckParent(s) ==
    /\ pc[s] = "armed"
    /\ \/ /\ Parent(s) = eparent[s]
          /\ pc' = [pc EXCEPT ![s] = "fork"]
          /\ UNCHANGED <<exit, csig, cpc>>
       \/ /\ Parent(s) # eparent[s]
          /\ Die(s, "failed")
    /\ UNCHANGED <<runner, ret, eparent, pdeath, masked, sig, peer, owned, kept, child, file,
                   ctarget, retireVars>>

\* subprocess.Popen: fork now, return when the child has exec'ed or exited.
Fork(s) ==
    /\ pc[s] = "fork"
    /\ \/ /\ pc' = [pc EXCEPT ![s] = "popen"]
          /\ child' = [child EXCEPT ![s] = "forked"]
          /\ UNCHANGED <<exit, csig, cpc>>
       \/ /\ "fork" \in Faults
          /\ Die(s, "failed")
          /\ UNCHANGED child
    /\ UNCHANGED <<runner, ret, eparent, pdeath, masked, sig, peer, owned, kept, file,
                   ctarget, retireVars>>

PopenReturns(s) ==
    /\ child[s] \in {"running", "zombie"}
    /\ Go(s, "popen", "rearm")
    /\ UNCHANGED <<runner, supVars, childVars, file, clientVars, retireVars>>

\* preexec_fn or exec fails: Popen reaps the child and raises.
PopenFails(s) ==
    /\ pc[s] = "popen"
    /\ "fork" \in Faults
    /\ child[s] \in {"forked", "armed"}
    /\ child' = [child EXCEPT ![s] = "reaped"]
    /\ pc' = [pc EXCEPT ![s] = "dead"]
    /\ exit' = [exit EXCEPT ![s] = "failed"]
    /\ Hangup(s)
    /\ UNCHANGED <<runner, ret, eparent, pdeath, masked, sig, peer, owned, kept, csig, file,
                   ctarget, retireVars>>

\* Deliberately wrong: the launch-time SIGKILL is cleared and nothing armed.
RearmDisarmed(s) ==
    /\ Go(s, "rearm", "recheck")
    /\ pdeath' = [pdeath EXCEPT ![s] = "none"]
    /\ UNCHANGED <<runner, ret, exit, eparent, masked, sig, peer, owned, kept, childVars, file,
                   clientVars, retireVars>>

RearmTerm(s) ==
    /\ Go(s, "rearm", "recheck")
    /\ pdeath' = [pdeath EXCEPT ![s] = "TERM"]
    /\ UNCHANGED <<runner, ret, exit, eparent, masked, sig, peer, owned, kept, childVars, file,
                   clientVars, retireVars>>

\* Enter _supervisor_stop_child with a continuation.
CallStop(s, k) == /\ pc' = [pc EXCEPT ![s] = "stop"]
                  /\ ret' = [ret EXCEPT ![s] = k]

Recheck(s) ==
    /\ pc[s] = "recheck"
    /\ \/ Parent(s) = eparent[s] /\ pc' = [pc EXCEPT ![s] = "bind"] /\ UNCHANGED ret
       \/ (Parent(s) # eparent[s] \/ "pidfd" \in Faults) /\ CallStop(s, "launch")
    /\ UNCHANGED <<runner, exit, eparent, pdeath, masked, sig, peer, owned, kept, childVars, file,
                   clientVars, retireVars>>

-----------------------------------------------------------------------------
(* _run_supervisor_session *)

\* bind, listen, and the /proc reads; the runner's entry is missing once it is
\* dead and reaped.
Bind(s) ==
    /\ pc[s] = "bind"
    /\ \/ pc' = [pc EXCEPT ![s] = "publish"] /\ UNCHANGED ret
       \/ /\ "bind" \in Faults \/ (eparent[s] = s /\ runner[s] = "dead")
          /\ CallStop(s, "fail")
    /\ UNCHANGED <<runner, exit, eparent, pdeath, masked, sig, peer, owned, kept, childVars, file,
                   clientVars, retireVars>>

\* The removal of an artifact fails: the directory cannot be opened, or stat or
\* unlink raises.
RemovalFails(s, a) ==
    /\ "remove" \in Faults
    /\ kept' = [kept EXCEPT ![s] = @ \cup {a}]

\* Deliberately wrong: rename over whatever is at the name.
CreateOverwriting(s, a, to) ==
    /\ file' = [file EXCEPT ![a] = s]
    /\ owned' = [owned EXCEPT ![s] = @ \cup {a}]
    /\ pc' = [pc EXCEPT ![s] = to]
    /\ UNCHANGED <<ret, kept>>

\* _publish_supervisor_state (link, never overwrites) and _write_pid_output
\* (O_CREAT|O_EXCL); a failed publication removes what it created itself, and
\* when that fails too, the name stays without an owner.
Create(s, a, to) ==
    \/ /\ file[a] = None
       /\ file' = [file EXCEPT ![a] = s]
       /\ owned' = [owned EXCEPT ![s] = @ \cup {a}]
       /\ pc' = [pc EXCEPT ![s] = to]
       /\ UNCHANGED <<ret, kept>>
    \/ /\ file[a] # None \/ a \in Faults
       /\ CallStop(s, "fail")
       /\ UNCHANGED <<file, owned, kept>>
    \/ /\ file[a] = None
       /\ a \in Faults
       /\ RemovalFails(s, a)
       /\ file' = [file EXCEPT ![a] = s]
       /\ CallStop(s, "fail")
       /\ UNCHANGED owned

PublishState(s) ==
    /\ pc[s] = "publish"
    /\ Create(s, "state", "pidout")
    /\ UNCHANGED <<runner, exit, eparent, pdeath, masked, sig, peer, childVars,
                   clientVars, retireVars>>

WritePidOutput(s) ==
    /\ pc[s] = "pidout"
    /\ Create(s, "pid", "unmask")
    /\ UNCHANGED <<runner, exit, eparent, pdeath, masked, sig, peer, childVars,
                   clientVars, retireVars>>

\* Deliberately wrong: the signals stay blocked in the session loop.
MaskForgotten(s) ==
    /\ Go(s, "unmask", "loop")
    /\ UNCHANGED <<runner, supVars, childVars, file, clientVars, retireVars>>

\* pthread_sigmask(SIG_SETMASK, old_mask): a pending signal is delivered now.
RestoreMask(s) ==
    /\ Go(s, "unmask", "loop")
    /\ masked' = [masked EXCEPT ![s] = FALSE]
    /\ sig' = [sig EXCEPT ![s] = IF @ = "pending" THEN "requested" ELSE @]
    /\ UNCHANGED <<runner, ret, exit, eparent, pdeath, peer, owned, kept, childVars, file,
                   clientVars, retireVars>>

\* Deliberately wrong: a requested stop leaves the loop without stopping the child.
SessionLoopLeaves(s) ==
    /\ pc[s] = "loop"
    /\ \/ /\ child[s] = "zombie" \/ sig[s] = "requested"
          /\ child' = [child EXCEPT ![s] = IF @ = "zombie" THEN "reaped" ELSE @]
          /\ pc' = [pc EXCEPT ![s] = "final"]
          /\ ret' = [ret EXCEPT ![s] = "ok"]
       \/ /\ child[s] # "zombie"
          /\ sig[s] # "requested"
          /\ pc' = [pc EXCEPT ![s] = "accept"]
          /\ UNCHANGED <<ret, child>>
    /\ UNCHANGED <<runner, exit, eparent, pdeath, masked, sig, peer, owned, kept, csig, file,
                   clientVars, retireVars>>

\* One turn of _supervisor_session_loop; child.poll() reaps an exited child.
SessionLoop(s) ==
    /\ pc[s] = "loop"
    /\ \/ /\ child[s] = "zombie"
          /\ child' = [child EXCEPT ![s] = "reaped"]
          /\ pc' = [pc EXCEPT ![s] = "final"]
          /\ ret' = [ret EXCEPT ![s] = "ok"]
       \/ /\ child[s] # "zombie"
          /\ sig[s] = "requested"
          /\ CallStop(s, "ok")
          /\ UNCHANGED child
       \/ /\ child[s] # "zombie"
          /\ sig[s] # "requested"
          /\ pc' = [pc EXCEPT ![s] = "accept"]
          /\ UNCHANGED <<ret, child>>
    /\ UNCHANGED <<runner, exit, eparent, pdeath, masked, sig, peer, owned, kept, csig, file,
                   clientVars, retireVars>>

\* Deliberately wrong: a connection that is there may be passed over.
AcceptNobody(s) ==
    /\ Go(s, "accept", "loop")
    /\ UNCHANGED <<runner, supVars, childVars, file, clientVars, retireVars>>

\* accept() times out, or the peer has another uid or sends an unknown command.
AcceptNone(s) ==
    /\ Waiting(s) = {}
    /\ Go(s, "accept", "loop")
    /\ UNCHANGED <<runner, supVars, childVars, file, clientVars, retireVars>>

\* A peer whose parent is not the recorded runner is turned away.
AcceptForeign(s, c) ==
    /\ c \in Waiting(s)
    /\ Parent(c) # eparent[s]
    /\ Go(s, "accept", "loop")
    /\ cpc' = [cpc EXCEPT ![c] = "failed"]
    /\ UNCHANGED <<runner, supVars, childVars, file, ctarget, retireVars>>

\* Deliberately wrong: the ACK is sent before the child is stopped.
AcceptStopEarlyAck(s, c) ==
    /\ pc[s] = "accept"
    /\ c \in Waiting(s)
    /\ Parent(c) = eparent[s]
    /\ CallStop(s, "ok")
    /\ cpc' = [cpc EXCEPT ![c] = "acked"]
    /\ UNCHANGED <<runner, exit, eparent, pdeath, masked, sig, peer, owned, kept, childVars, file,
                   ctarget, retireVars>>

\* A child of the runner asks for a stop.  A peer that has exited but is not
\* yet reaped is still readable in /proc, and its command in the socket.
AcceptStop(s, c) ==
    /\ pc[s] = "accept"
    /\ c \in Waiting(s)
    /\ Parent(c) = eparent[s]
    /\ CallStop(s, "ack")
    /\ peer' = [peer EXCEPT ![s] = c]
    /\ UNCHANGED <<runner, exit, eparent, pdeath, masked, sig, owned, kept, childVars, file,
                   clientVars, retireVars>>

\* _stat(peer_pid) finds no process, or recv times out: OSError ends the session.
AcceptError(s, c) ==
    /\ pc[s] = "accept"
    /\ c \in Waiting(s)
    /\ cpc[c] = "gone" \/ Parent(c) = eparent[s]
    /\ CallStop(s, "fail")
    /\ cpc' = [cpc EXCEPT ![c] = "failed"]
    /\ UNCHANGED <<runner, exit, eparent, pdeath, masked, sig, peer, owned, kept, childVars, file,
                   ctarget, retireVars>>

-----------------------------------------------------------------------------
(* _supervisor_stop_child: TERM, bounded wait, KILL, bounded wait, reap *)

SendTerm(s) ==
    /\ pc[s] = "stop"
    /\ \/ /\ child[s] \in {"zombie", "reaped"}
          /\ child' = [child EXCEPT ![s] = "reaped"]
          /\ pc' = [pc EXCEPT ![s] = "stopped"]
          /\ UNCHANGED csig
       \/ /\ child[s] = "running"
          /\ csig' = [csig EXCEPT ![s] = IF @ = "KILL" THEN @ ELSE "TERM"]
          /\ pc' = [pc EXCEPT ![s] = "waitTerm"]
          /\ UNCHANGED child
    /\ UNCHANGED <<runner, supVars, file, clientVars, retireVars>>

ChildReaped(s) ==
    /\ pc[s] \in {"waitTerm", "waitKill"}
    /\ child[s] = "zombie"
    /\ child' = [child EXCEPT ![s] = "reaped"]
    /\ pc' = [pc EXCEPT ![s] = "stopped"]
    /\ UNCHANGED <<runner, supVars, csig, file, clientVars, retireVars>>

TermTimeout(s) ==
    /\ child[s] = "running"
    /\ Go(s, "waitTerm", "waitKill")
    /\ csig' = [csig EXCEPT ![s] = "KILL"]
    /\ UNCHANGED <<runner, supVars, child, file, clientVars, retireVars>>

\* GuardError out of the first stop leads to a second, whose error is dropped.
KillTimeout(s) ==
    /\ pc[s] = "waitKill"
    /\ child[s] = "running"
    /\ \/ /\ ret[s] \in {"ok", "ack"}
          /\ CallStop(s, "fail")
          /\ cpc' = [c \in Sessions |-> IF ret[s] = "ack" /\ c = peer[s] THEN "failed" ELSE cpc[c]]
          /\ UNCHANGED <<exit, csig>>
       \/ /\ ret[s] = "fail"
          /\ pc' = [pc EXCEPT ![s] = "final"]
          /\ UNCHANGED <<ret, exit, csig, cpc>>
       \/ /\ ret[s] = "launch"
          /\ Die(s, "failed")
          /\ UNCHANGED ret
    /\ UNCHANGED <<runner, eparent, pdeath, masked, sig, peer, owned, kept, child, file,
                   ctarget, retireVars>>

Stopped(s) ==
    /\ pc[s] = "stopped"
    /\ \/ /\ ret[s] \in {"ok", "fail"}
          /\ pc' = [pc EXCEPT ![s] = "final"]
          /\ UNCHANGED <<ret, exit, csig, cpc>>
       \/ /\ ret[s] = "launch"
          /\ Die(s, "failed")
          /\ UNCHANGED ret
       \/ /\ ret[s] = "ack"
          /\ cpc[peer[s]] = "queued"
          /\ cpc' = [cpc EXCEPT ![peer[s]] = "acked"]
          /\ pc' = [pc EXCEPT ![s] = "final"]
          /\ UNCHANGED <<ret, exit, csig>>
       \/ /\ ret[s] = "ack"
          /\ cpc[peer[s]] # "queued"
          /\ CallStop(s, "fail")
          /\ UNCHANGED <<exit, csig, cpc>>
    /\ UNCHANGED <<runner, eparent, pdeath, masked, sig, peer, owned, kept, child, file,
                   ctarget, retireVars>>

-----------------------------------------------------------------------------
(* The finally block: close the listener, then remove both artifacts *)

CloseListener(s) ==
    /\ Go(s, "final", "chk_state")
    /\ Hangup(s)
    /\ UNCHANGED <<runner, supVars, childVars, file, ctarget, retireVars>>

\* _remove_exact_artifact compares inodes, then unlinks the name: two steps.  A
\* GuardError is dropped; an OSError leaves the finally block, the PID output is
\* not looked at and the supervisor fails.
CheckState(s) ==
    /\ pc[s] = "chk_state"
    /\ \/ /\ pc' = [pc EXCEPT ![s] = IF "state" \in owned[s] /\ file["state"] = s
                                        THEN "rm_state" ELSE "chk_pid"]
          /\ UNCHANGED <<exit, csig, cpc, kept>>
       \/ /\ "state" \in owned[s]
          /\ RemovalFails(s, "state")
          /\ \/ pc' = [pc EXCEPT ![s] = "chk_pid"] /\ UNCHANGED <<exit, csig, cpc>>
             \/ Die(s, "failed")
    /\ UNCHANGED <<runner, ret, eparent, pdeath, masked, sig, peer, owned, child, file,
                   ctarget, retireVars>>

RemoveState(s) ==
    /\ pc[s] = "rm_state"
    /\ \/ /\ pc' = [pc EXCEPT ![s] = "chk_pid"]
          /\ file' = [file EXCEPT !["state"] = None]
          /\ UNCHANGED <<exit, csig, cpc, kept>>
       \/ RemovalFails(s, "state") /\ Die(s, "failed") /\ UNCHANGED file
    /\ UNCHANGED <<runner, ret, eparent, pdeath, masked, sig, peer, owned, child,
                   ctarget, retireVars>>

ExitStatus(s) == IF ret[s] = "fail" THEN "failed" ELSE "zero"

\* Deliberately wrong: the PID output is left behind.
CheckPidForgotten(s) ==
    /\ pc[s] = "chk_pid"
    /\ Die(s, ExitStatus(s))
    /\ UNCHANGED <<runner, ret, eparent, pdeath, masked, sig, peer, owned, kept, child, file,
                   ctarget, retireVars>>

CheckPid(s) ==
    /\ pc[s] = "chk_pid"
    /\ \/ /\ "pid" \in owned[s] /\ file["pid"] = s
          /\ pc' = [pc EXCEPT ![s] = "rm_pid"]
          /\ UNCHANGED <<exit, csig, cpc, kept>>
       \/ /\ ~("pid" \in owned[s] /\ file["pid"] = s)
          /\ Die(s, ExitStatus(s))
          /\ UNCHANGED kept
       \/ /\ "pid" \in owned[s]
          /\ RemovalFails(s, "pid")
          /\ Die(s, ExitStatus(s)) \/ Die(s, "failed")
    /\ UNCHANGED <<runner, ret, eparent, pdeath, masked, sig, peer, owned, child, file,
                   ctarget, retireVars>>

RemovePid(s) ==
    /\ pc[s] = "rm_pid"
    /\ \/ /\ file' = [file EXCEPT !["pid"] = None]
          /\ Die(s, ExitStatus(s))
          /\ UNCHANGED kept
       \/ RemovalFails(s, "pid") /\ Die(s, "failed") /\ UNCHANGED file
    /\ UNCHANGED <<runner, ret, eparent, pdeath, masked, sig, peer, owned, child,
                   ctarget, retireVars>>

-----------------------------------------------------------------------------
(* stop_supervisor: load the state file, connect, send stop, wait for ACK *)

Listening(s) == pc[s] \in {"publish", "pidout", "unmask", "loop", "accept"} \cup StopPCs

Connect(c) ==
    /\ cpc[c] = "idle"
    /\ runner[c] = "alive"
    /\ file["state"] # None
    /\ ctarget' = [ctarget EXCEPT ![c] = file["state"]]
    /\ cpc' = [cpc EXCEPT ![c] = IF Listening(file["state"]) THEN "queued" ELSE "failed"]
    /\ UNCHANGED <<runner, pc, supVars, childVars, file, retireVars>>

\* The client gives up after SUPERVISOR_ACK_TIMEOUT or is killed.
ClientGone(c) ==
    /\ cpc[c] = "queued"
    /\ cpc' = [cpc EXCEPT ![c] = "gone"]
    /\ UNCHANGED <<runner, pc, supVars, childVars, file, ctarget, retireVars>>

-----------------------------------------------------------------------------
(* retire_supervisor_session: inspect, then remove state and PID output *)

\* The state file names the caller's own runner as parent, which only the file
\* of its own session does, and neither the supervisor nor the child named in
\* it exists any more; the PID output is only stat'ed.
RetireInspect(s) ==
    /\ rpc[s] = "idle"
    /\ runner[s] = "alive"
    /\ file["state"] = s
    /\ eparent[s] = s
    /\ pc[s] = "dead"
    /\ child[s] = "reaped"
    /\ rpid' = [rpid EXCEPT ![s] = file["pid"]]
    /\ rpc' = [rpc EXCEPT ![s] = "chk_state"]
    /\ UNCHANGED <<runner, pc, supVars, childVars, file, clientVars>>

\* An error of either removal ends the command.
RetireFails(s) ==
    /\ "remove" \in Faults
    /\ rpc[s] \in {"chk_state", "rm_state", "chk_pid", "rm_pid"}
    /\ rpc' = [rpc EXCEPT ![s] = "done"]
    /\ UNCHANGED <<runner, pc, supVars, childVars, file, clientVars, rpid>>

RetireCheckState(s) ==
    /\ rpc[s] = "chk_state"
    /\ rpc' = [rpc EXCEPT ![s] = IF file["state"] = s THEN "rm_state" ELSE "chk_pid"]
    /\ UNCHANGED <<runner, pc, supVars, childVars, file, clientVars, rpid>>

RetireRemoveState(s) ==
    /\ rpc[s] = "rm_state"
    /\ file' = [file EXCEPT !["state"] = None]
    /\ rpc' = [rpc EXCEPT ![s] = "chk_pid"]
    /\ UNCHANGED <<runner, pc, supVars, childVars, clientVars, rpid>>

RetireCheckPid(s) ==
    /\ rpc[s] = "chk_pid"
    /\ rpc' = [rpc EXCEPT ![s] = IF rpid[s] # None /\ file["pid"] = rpid[s]
                                    THEN "rm_pid" ELSE "done"]
    /\ UNCHANGED <<runner, pc, supVars, childVars, file, clientVars, rpid>>

RetireRemovePid(s) ==
    /\ rpc[s] = "rm_pid"
    /\ file' = [file EXCEPT !["pid"] = None]
    /\ rpc' = [rpc EXCEPT ![s] = "done"]
    /\ UNCHANGED <<runner, pc, supVars, childVars, clientVars, rpid>>

-----------------------------------------------------------------------------
Accept(s) == \/ AcceptNone(s)
             \/ \E c \in Sessions : AcceptForeign(s, c) \/ AcceptStop(s, c) \/ AcceptError(s, c)

\* The code the supervisor process runs.
SupervisorStep(s) ==
    \/ ReadParent(s) \/ ArmKill(s) \/ CheckParent(s) \/ Fork(s)
    \/ PopenReturns(s) \/ PopenFails(s) \/ RearmTerm(s) \/ Recheck(s)
    \/ Bind(s) \/ PublishState(s) \/ WritePidOutput(s) \/ RestoreMask(s)
    \/ SessionLoop(s) \/ Accept(s)
    \/ SendTerm(s) \/ ChildReaped(s) \/ TermTimeout(s) \/ KillTimeout(s) \/ Stopped(s)
    \/ CloseListener(s) \/ CheckState(s) \/ RemoveState(s) \/ CheckPid(s) \/ RemovePid(s)

\* What the kernel does to the child without anybody's help.
KernelStep(s) == ChildArm(s) \/ ChildCheck(s) \/ ChildKilled(s) \/ InitReaps(s)

RetireStep(s) == \/ RetireInspect(s) \/ RetireCheckState(s) \/ RetireRemoveState(s)
                 \/ RetireCheckPid(s) \/ RetireRemovePid(s) \/ RetireFails(s)

Next == \E s \in Sessions :
            \/ SupervisorStep(s) \/ KernelStep(s) \/ ChildExit(s)
            \/ RunnerDies(s) \/ Signal(s) \/ SupervisorKilled(s)
            \/ Connect(s) \/ ClientGone(s) \/ RetireStep(s)

Spec == Init /\ [][Next]_vars

\* Every live process is scheduled; nobody is obliged to exit, to die, to send
\* a signal or to issue a command.
Fairness == \A s \in Sessions : WF_vars(SupervisorStep(s)) /\ WF_vars(KernelStep(s))

FairSpec == Spec /\ Fairness
-----------------------------------------------------------------------------
(* Safety *)

\* The supervisor of s has published its state file and not yet taken it back.
Holds(s) == /\ "state" \in owned[s]
            /\ pc[s] \notin {"chk_pid", "rm_pid", "dead"}

\* stop_supervisor returns success only for a child that was reaped: the ACK is
\* sent after _supervisor_stop_child, whatever the child did with SIGTERM and
\* however the client, the runner and the other sessions interleave.
AckMeansReaped ==
    \A c \in Sessions : cpc[c] = "acked" => child[ctarget[c]] = "reaped"

\* As long as a supervisor lives and has not withdrawn its session, its state
\* file is the one in the directory: no other session's publication, failure
\* path, finalisation or retirement overwrites or removes it.
LiveStateKept == \A s \in Sessions : Holds(s) => file["state"] = s

\* No exec'ed httpd outlives its supervisor: when the supervisor is gone, in
\* whatever way and at whatever step, SIGKILL is on its way to a running child.
NoOrphanHttpd ==
    \A s \in Sessions : pc[s] = "dead" /\ child[s] = "running" => csig[s] = "KILL"

\* A supervisor that ran to its end has reaped its httpd if its status is 0, and
\* leaves an artifact of its own behind only when the removal of that artifact
\* has failed, or, with a failing status, when the removal of the state file has
\* raised and the PID output was never looked at.  No other session, and no stop,
\* signal or failing launch, makes it pass over one.
CleanExit ==
    \A s \in Sessions :
        /\ exit[s] = "zero" => child[s] = "reaped"
        /\ exit[s] = "zero" => \A a \in Artifacts : file[a] = s => a \in kept[s]
        /\ exit[s] = "failed" => \A a \in Artifacts :
               file[a] = s => a \in kept[s] \/ (a = "pid" /\ "state" \in kept[s])

\* A stop is acknowledged only to a client of the runner that launched the
\* session (orphaned supervisors, whose recorded parent is process 1, aside).
OnlyOwnRunnerAcked ==
    \A c \in Sessions :
        cpc[c] = "acked" /\ eparent[ctarget[c]] # InitPid => ctarget[c] = c

\* What an ACK says: the session's httpd has been reaped, and the client that
\* asked for it was one of the session's own runner.
AckSound == AckMeansReaped /\ OnlyOwnRunnerAcked

(* What the directory shows to the other runners *)

HttpdView(ch, sg) ==
    IF ch \in {"none", "forked", "armed"} THEN "absent"
    ELSE IF ch # "running" THEN "gone"
    ELSE IF sg = "KILL" THEN "doomed" ELSE "running"

httpdBar == [s \in Sessions |-> HttpdView(child[s], csig[s])]

ackedBar == {ctarget[c] : c \in {d \in Sessions : cpc[d] = "acked"}}

Promise == INSTANCE LaunchBoundSession
               WITH httpd <- httpdBar, published <- file["state"], acked <- ackedBar

\* The supervisor implements LaunchBoundSession: sessions never replace one
\* another, a session is withdrawn only once its httpd is gone or doomed, and
\* an ACK follows the end of the httpd.
ImplementsPromise == Promise!Spec

(* Liveness *)

Quiet(s) == pc[s] = "dead" /\ child[s] \in {"none", "reaped"}

\* A runner that dies after its supervisor read expected_parent takes the
\* supervisor and httpd with it, even when the signal arrives while TERM is
\* blocked and even when httpd ignores SIGTERM.
RunnerDeathPropagates ==
    \A s \in Sessions : (runner[s] = "dead" /\ eparent[s] = s) ~> Quiet(s)

\* A TERM, HUP or INT to the supervisor is never lost, pending or not.
SignalHonoured == \A s \in Sessions : (sig[s] # "none") ~> Quiet(s)

\* A client that connected gets its answer: an ACK or a closed connection.
StopAnswered == \A c \in Sessions : (cpc[c] = "queued") ~> (cpc[c] # "queued")

(* Claims the repository makes that the code does not keep *)

\* "Ask Linux to terminate the supervisor when its runner disappears": a
\* supervisor whose runner is dead does not go on serving.
RunnerlessSupervisorEnds ==
    \A s \in Sessions : (runner[s] = "dead") ~> Quiet(s)

\* "same uid foreign lineage cannot stop live supervisor": dealing with a
\* client of another runner never sends the supervisor into its stop path.
ForeignPeerNeverStops ==
    [][\A s, c \in Sessions :
          /\ pc[s] = "accept" /\ c \in Waiting(s) /\ c \notin Waiting(s)'
          /\ Parent(c) # eparent[s]
          => pc'[s] # "stop"]_vars
=============================================================================
