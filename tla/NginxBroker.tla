----------------------------- MODULE NginxBroker -----------------------------
(***************************************************************************)
(* One run of the NGINX root broker (runtime/broker/nginx_root_broker.py)  *)
(* as its workflow drives it: the run root is admitted, NGINX is started,  *)
(* verified, stopped, its evidence projected, and a final step that always *)
(* runs stops it again and removes the root.  Every command is a process   *)
(* of its own that keeps nothing but files, so a command may be killed     *)
(* between any two of its steps and the next one goes on from the files.   *)
(***************************************************************************)
EXTENDS Naturals, FiniteSets

CONSTANTS Artifacts,    \* the files that admission copies into the run root
          MaxAttempts,  \* how often the workflow runs with the same run id
          MaxKills,     \* commands killed in one attempt
          Killable,     \* the commands that may be killed
          Schema        \* manifest schema; schema 1 has no policy evidence

Commands == {"admit", "config-test", "start", "profile", "identity", "stop",
             "project", "cleanup"}

ASSUME BrokerConstants ==
  /\ MaxAttempts \in Nat \ {0} /\ MaxKills \in Nat
  /\ Killable \subseteq Commands /\ Schema \in {1, 2}

VARIABLES
  pc,        \* the step the workflow, or the command it waits for, is at
  attempt,   \* number of this run of the workflow
  kills,     \* commands killed so far in this attempt
  staged,    \* content of the staged files, which the runner can rewrite
  root,      \* the run root: "none", "partial" or "admitted" (has a manifest)
  rootBy,    \* the attempt that created the run root, 0 if there is none
  dest,      \* content of the copies in the run root
  alive,     \* processes of NGINX's group: "master", "worker"
  zombie,    \* the dead master is not reaped, so its group still exists
  phase,     \* how far NGINX is: "off", "spawned", "bound", "opened", "running"
  pidfile,   \* "none", "empty" or "written"
  state,     \* keys of state.json that are true or set; NoState without file
  evidence,  \* records in the evidence source
  res        \* what the workflow knows: exit statuses and the verdict

vars == <<pc, attempt, kills, staged, root, rootBy, dest, alive, zombie, phase,
          pidfile, state, evidence, res>>
files == <<root, rootBy, dest, pidfile, state, evidence>>
nginx == <<alive, zombie, phase>>

NoState == {"absent"}
StateKeys == {"master", "started", "verified", "stopped"}
\* "hashed": the source digest has matched and the copy is still to be made.
Contents == {"none", "hashed", "declared", "other"}
Phases == {"off", "spawned", "bound", "opened", "running"}
PolicyEvidence == IF Schema = 2 THEN {"policy"} ELSE {}

\* What an always() step still has to do after a failure: without a manifest
\* path in the environment the cleanup step does not run.
Always == IF res.admit = "ok" THEN "stage" ELSE "over"
FailMain == pc' = Always /\ res' = [res EXCEPT !.main = "fail"]

GroupExists == alive # {} \/ zombie
Listening == phase \in {"bound", "opened", "running"}

-----------------------------------------------------------------------------
(* Admission: validate-manifest *)

\* Rejected before anything is created: a bad candidate, or an existing root.
AdmitReject ==
  /\ pc = "admit"
  /\ res' = [res EXCEPT !.main = "fail",
                        !.admit = IF root = "none" THEN "fail" ELSE "exists"]
  /\ pc' = "over"
  /\ UNCHANGED <<attempt, kills, staged, files, nginx>>

CreateRoot ==
  /\ pc = "admit" /\ root = "none"
  /\ root' = "partial" /\ rootBy' = attempt /\ pc' = "hash"
  /\ UNCHANGED <<attempt, kills, staged, dest, pidfile, state, evidence, nginx, res>>

\* The staged file is hashed before it is copied ...
HashSource(a) ==
  /\ pc = "hash" /\ dest[a] = "none" /\ staged[a] = "declared"
  /\ dest' = [dest EXCEPT ![a] = "hashed"] /\ pc' = "copy"
  /\ UNCHANGED <<attempt, kills, staged, root, rootBy, pidfile, state, evidence, nginx, res>>

\* Deliberately wrong: the copy is not hashed again.
CopyUnchecked(a) ==
  /\ pc = "copy" /\ dest[a] = "hashed"
  /\ dest' = [dest EXCEPT ![a] = staged[a]]
  /\ pc' = "hash"
  /\ UNCHANGED <<attempt, kills, staged, root, rootBy, pidfile, state, evidence, nginx, res>>

\* ... and the copy after it: a file rewritten in between ends the admission.
CopyIntoRoot(a) ==
  /\ pc = "copy" /\ dest[a] = "hashed"
  /\ dest' = [dest EXCEPT ![a] = staged[a]]
  /\ pc' = IF staged[a] = "declared" THEN "hash" ELSE "rollback"
  /\ UNCHANGED <<attempt, kills, staged, root, rootBy, pidfile, state, evidence, nginx, res>>

\* Any other failure of the admission: a source digest that does not match, a
\* chown, a full disk.
AdmitError ==
  /\ pc \in {"hash", "copy"}
  /\ pc' = "rollback"
  /\ UNCHANGED <<attempt, kills, staged, files, nginx, res>>

WriteManifest ==
  /\ pc = "hash" /\ \A a \in Artifacts : dest[a] \in {"declared", "other"}
  /\ root' = "admitted" /\ pc' = "config-test"
  /\ res' = [res EXCEPT !.admit = "ok"]
  /\ UNCHANGED <<attempt, kills, staged, rootBy, dest, pidfile, state, evidence, nginx>>

\* remove_broker_root, once the tree is empty: everything in it is gone.
RootGone ==
  /\ root' = "none" /\ rootBy' = 0
  /\ dest' = [a \in Artifacts |-> "none"]
  /\ pidfile' = "none" /\ state' = NoState /\ evidence' = {}

Rollback ==
  /\ pc = "rollback"
  /\ pc' = "over"
  /\ \/ RootGone /\ res' = [res EXCEPT !.main = "fail", !.admit = "fail"]
     \/ /\ res' = [res EXCEPT !.main = "fail", !.admit = "unremoved"]
        /\ UNCHANGED files
  /\ UNCHANGED <<attempt, kills, staged, nginx>>

-----------------------------------------------------------------------------
(* config-test and start *)

\* The two readback runs of NGINX, for the command config-test and again at
\* the beginning of start; they leave no file behind.
ConfigTest ==
  /\ pc = "config-test"
  /\ \/ pc' = "start" /\ UNCHANGED res
     \/ FailMain
  /\ UNCHANGED <<attempt, kills, staged, files, nginx>>

StartSpawn ==
  /\ pc = "start"
  /\ \/ FailMain /\ UNCHANGED nginx
     \/ /\ pc' = "poll" /\ alive' = {"master"} /\ phase' = "spawned"
        /\ UNCHANGED <<zombie, res>>
  /\ UNCHANGED <<attempt, kills, staged, files>>

\* The loop of start ends: a PID file is there and is read, complete or not,
\* the master is gone, or the deadline has passed.  A master that has died is
\* reaped by poll and its group is not signalled any more.
StartPoll ==
  /\ pc = "poll"
  /\ \/ /\ pidfile = "written" /\ "master" \in alive
        /\ pc' = "write_state" /\ UNCHANGED <<zombie, res>>
     \/ /\ pidfile \in {"none", "empty"} /\ "master" \in alive
        /\ pc' = "term" /\ UNCHANGED <<zombie, res>>
     \/ "master" \notin alive /\ zombie' = FALSE /\ FailMain
  /\ UNCHANGED <<attempt, kills, staged, files, alive, phase>>

\* terminate_new_process_group polls the group with killpg(pgid, 0), which
\* succeeds for an unreaped child: whatever SIGTERM did the wait runs into
\* its timeout, SIGKILL follows, that wait times out as well.
StartTerminate ==
  /\ pc = "term"
  /\ \/ /\ "master" \in alive
        /\ alive' = {} /\ phase' = "off" /\ zombie' = TRUE
     \/ "master" \notin alive /\ zombie' = FALSE /\ UNCHANGED <<alive, phase>>
  /\ FailMain
  /\ UNCHANGED <<attempt, kills, staged, files>>

\* write_state is outside the try block: nothing terminates the master if it
\* fails.
StartWriteState ==
  /\ pc = "write_state"
  /\ state' = {"master", "started"} /\ pc' = "profile"
  /\ UNCHANGED <<attempt, kills, staged, root, rootBy, dest, pidfile, evidence, nginx, res>>

-----------------------------------------------------------------------------
(* verify-runtime-profile and verify-master-worker-identity *)

Profile ==
  /\ pc = "profile"
  /\ \/ /\ "started" \in state /\ "stopped" \notin state
        /\ Listening /\ "worker" \in alive
        /\ evidence' = evidence \cup PolicyEvidence
        /\ pc' = "profile_state" /\ UNCHANGED res
     \/ FailMain /\ UNCHANGED evidence
  /\ UNCHANGED <<attempt, kills, staged, root, rootBy, dest, pidfile, state, nginx>>

ProfileState ==
  /\ pc = "profile_state"
  /\ state' = state \cup {"verified"} /\ pc' = "identity"
  /\ UNCHANGED <<attempt, kills, staged, root, rootBy, dest, pidfile, evidence, nginx, res>>

Identity ==
  /\ pc = "identity"
  /\ \/ /\ "verified" \in state /\ alive = {"master", "worker"}
        /\ evidence' = evidence \cup {"identity"}
        /\ pc' = "stop" /\ UNCHANGED res
     \/ FailMain /\ UNCHANGED evidence
  /\ UNCHANGED <<attempt, kills, staged, root, rootBy, dest, pidfile, state, nginx>>

-----------------------------------------------------------------------------
(* stop, called by the main step and again by the cleanup step *)

InStop == pc \in {"stop", "stop_kill", "stop_wait", "stop_kill9", "stop_pid", "stop_state"}
Second == res.main # "none"
FailStop == IF Second THEN pc' = "cleanup" /\ res' = [res EXCEPT !.stop = "fail"]
                      ELSE FailMain
StopDone == IF Second THEN pc' = "cleanup" /\ res' = [res EXCEPT !.stop = "ok"]
                      ELSE pc' = "project" /\ UNCHANGED res

\* Without a state file there is nothing to signal.  A recorded master is
\* signalled while it is the admitted binary (an unreaped one is not); a
\* group that has lost its master is refused.
StopBegin ==
  /\ pc = "stop"
  /\ \/ /\ state = NoState
        /\ pidfile' = "none" /\ state' = {"stopped"} /\ StopDone
     \/ /\ state # NoState /\ "stopped" \in state
        /\ StopDone /\ UNCHANGED <<pidfile, state>>
     \/ /\ state # NoState /\ "stopped" \notin state
        /\ \/ "master" \in alive /\ pc' = "stop_kill" /\ UNCHANGED res
           \/ "master" \notin alive /\ GroupExists /\ FailStop
           \/ ~GroupExists /\ pc' = "stop_pid" /\ UNCHANGED res
        /\ UNCHANGED <<pidfile, state>>
  /\ UNCHANGED <<attempt, kills, staged, root, rootBy, dest, evidence, nginx>>

\* killpg raises ProcessLookupError if the group went away after the check.
StopKill ==
  /\ pc = "stop_kill"
  /\ \/ GroupExists /\ pc' = "stop_wait" /\ UNCHANGED res
     \/ ~GroupExists /\ FailStop
  /\ UNCHANGED <<attempt, kills, staged, files, nginx>>

\* Deliberately wrong: stop does not wait for the group.
StopWaitNot ==
  /\ pc = "stop_wait" /\ pc' = "stop_pid"
  /\ UNCHANGED <<attempt, kills, staged, files, nginx, res>>

\* Deliberately wrong: the wait has no deadline.
StopWaitForever ==
  /\ pc = "stop_wait" /\ ~GroupExists
  /\ pc' = "stop_pid"
  /\ UNCHANGED <<attempt, kills, staged, files, nginx, res>>

StopWait ==
  /\ pc = "stop_wait"
  /\ pc' = IF GroupExists THEN "stop_kill9" ELSE "stop_pid"
  /\ UNCHANGED <<attempt, kills, staged, files, nginx, res>>

StopKill9 ==
  /\ pc = "stop_kill9"
  /\ alive' = {} /\ phase' = "off"
  /\ \/ GroupExists /\ zombie' = FALSE /\ pc' = "stop_pid" /\ UNCHANGED res
     \/ GroupExists /\ zombie' = TRUE /\ FailStop
     \/ ~GroupExists /\ zombie' = FALSE /\ FailStop
  /\ UNCHANGED <<attempt, kills, staged, files>>

StopPid ==
  /\ pc = "stop_pid"
  /\ pidfile' = "none" /\ pc' = "stop_state"
  /\ UNCHANGED <<attempt, kills, staged, root, rootBy, dest, state, evidence, nginx, res>>

\* The state is written anew: "started" and "verified" are not carried over.
StopState ==
  /\ pc = "stop_state"
  /\ state' = {"master", "stopped"} /\ StopDone
  /\ UNCHANGED <<attempt, kills, staged, root, rootBy, dest, pidfile, evidence, nginx>>

-----------------------------------------------------------------------------
(* project-evidence, and the workflow step that stages the projection *)

\* write_runtime_evidence comes first and wants a verified profile; the files
\* are then copied to a private directory that is renamed into place.
Project ==
  /\ pc = "project"
  /\ IF {"stopped", "verified"} \subseteq state
     THEN \/ /\ PolicyEvidence \cup {"identity"} \subseteq evidence
             /\ evidence' = evidence \cup {"runtime", "projection"}
             /\ pc' = "stage" /\ res' = [res EXCEPT !.main = "ok"]
          \/ evidence' = evidence \cup {"runtime"} /\ FailMain
     ELSE UNCHANGED evidence /\ FailMain
  /\ UNCHANGED <<attempt, kills, staged, root, rootBy, dest, pidfile, state, nginx>>

Stage ==
  /\ pc = "stage"
  /\ pc' = "stop"
  /\ res' = [res EXCEPT !.staged = "projection" \in evidence]
  /\ UNCHANGED <<attempt, kills, staged, files, nginx>>

-----------------------------------------------------------------------------
(* cleanup-status and the verdict of the workflow *)

\* Deliberately wrong: only the PID file is looked for.
CleanupLooksAtPidFile == pidfile = "none"

\* What has to be gone: the recorded processes, the PID file, the listener.
CleanupClear ==
  /\ state # NoState /\ "stopped" \in state
  /\ "master" \in state => ~GroupExists
  /\ pidfile = "none" /\ ~Listening

Cleanup ==
  /\ pc = "cleanup"
  /\ IF CleanupClear
     THEN pc' = "remove" /\ root' = "partial" /\ UNCHANGED res
     ELSE pc' = "report" /\ res' = [res EXCEPT !.cleanup = "fail"] /\ UNCHANGED root
  /\ UNCHANGED <<attempt, kills, staged, rootBy, dest, pidfile, state, evidence, nginx>>

CleanupRemove ==
  /\ pc = "remove"
  /\ RootGone
  /\ pc' = "report" /\ res' = [res EXCEPT !.cleanup = "ok"]
  /\ UNCHANGED <<attempt, kills, staged, nginx>>

Report ==
  /\ pc = "report"
  /\ pc' = "over"
  /\ res' = [res EXCEPT !.verdict =
               IF res.stop = "ok" /\ res.cleanup = "ok" THEN "PASS" ELSE "FAIL"]
  /\ UNCHANGED <<attempt, kills, staged, files, nginx>>

-----------------------------------------------------------------------------
(* The surroundings *)

Fresh == [main |-> "none", admit |-> "none", stop |-> "none",
          cleanup |-> "none", staged |-> FALSE, verdict |-> "none"]

\* The workflow is started again with the same run id, on a runner where the
\* NGINX of the last attempt has ended.
Rerun ==
  /\ pc = "over" /\ attempt < MaxAttempts /\ ~GroupExists
  /\ pc' = "admit" /\ attempt' = attempt + 1 /\ kills' = 0 /\ res' = Fresh
  /\ staged' = [a \in Artifacts |-> "declared"]
  /\ UNCHANGED <<files, nginx>>

\* The staging directory belongs to the runner's user.
Rewrite(a) ==
  /\ pc \in {"admit", "hash", "copy"}
  /\ \E c \in {"declared", "other"} : staged' = [staged EXCEPT ![a] = c]
  /\ UNCHANGED <<pc, attempt, kills, files, nginx, res>>

\* The command that owns a step.
Command ==
  CASE pc \in {"admit", "hash", "copy", "rollback"} -> "admit"
    [] pc \in {"start", "poll", "term", "write_state"} -> "start"
    [] pc \in {"profile", "profile_state"} -> "profile"
    [] InStop -> "stop"
    [] pc \in {"cleanup", "remove"} -> "cleanup"
    [] OTHER -> pc

\* A command is killed (the step is cancelled, the runner out of memory): the
\* workflow sees it fail.  NGINX has a session of its own and lives on.
Kill ==
  /\ Command \in Killable /\ kills < MaxKills
  /\ kills' = kills + 1
  /\ CASE Command = "admit" ->
            pc' = "over" /\ res' = [res EXCEPT !.main = "fail", !.admit = "killed"]
       [] Command = "stop" -> FailStop
       [] Command = "cleanup" ->
            pc' = "report" /\ res' = [res EXCEPT !.cleanup = "fail"]
       [] OTHER -> FailMain
  /\ UNCHANGED <<attempt, staged, files, nginx>>

\* NGINX binds its sockets before it creates its PID file, creates the file
\* before it writes it, and forks its worker last.  Without the run root the
\* PID file cannot be created and it exits.
NginxBoot ==
  /\ "master" \in alive
  /\ \/ phase = "spawned" /\ phase' = "bound" /\ UNCHANGED <<alive, zombie, pidfile>>
     \/ /\ phase = "bound" /\ root = "admitted"
        /\ phase' = "opened" /\ pidfile' = "empty" /\ UNCHANGED <<alive, zombie>>
     \/ /\ phase = "bound" /\ root # "admitted"
        /\ phase' = "off" /\ alive' = {} /\ zombie' = TRUE /\ UNCHANGED pidfile
     \/ /\ phase = "opened" /\ phase' = "running"
        /\ pidfile' = (IF pidfile = "empty" THEN "written" ELSE pidfile)
        /\ UNCHANGED <<alive, zombie>>
  /\ UNCHANGED <<pc, attempt, kills, staged, root, rootBy, dest, state, evidence, res>>

NginxFork ==
  /\ alive = {"master"} /\ phase = "running"
  /\ alive' = {"master", "worker"}
  /\ UNCHANGED <<pc, attempt, kills, staged, files, zombie, phase, res>>

\* A process of the group ends, on SIGTERM or by itself.  A worker may outlive
\* its master and keeps the socket; a master that ends in order removes its
\* PID file.
NginxExit(p) ==
  /\ p \in alive
  /\ alive' = alive \ {p}
  /\ zombie' = (zombie \/ p = "master")
  /\ phase' = (IF alive' = {} THEN "off" ELSE phase)
  /\ pidfile' \in (IF p = "master" THEN {pidfile, "none"} ELSE {pidfile})
  /\ UNCHANGED <<pc, attempt, kills, staged, root, rootBy, dest, state, evidence, res>>

\* Once start has ended, init is the parent of the master.
Reap ==
  /\ zombie /\ pc \notin {"poll", "term", "write_state"}
  /\ zombie' = FALSE
  /\ UNCHANGED <<pc, attempt, kills, staged, files, alive, phase, res>>

-----------------------------------------------------------------------------

Init ==
  /\ pc = "admit" /\ attempt = 1 /\ kills = 0 /\ res = Fresh
  /\ staged = [a \in Artifacts |-> "declared"]
  /\ root = "none" /\ rootBy = 0 /\ dest = [a \in Artifacts |-> "none"]
  /\ alive = {} /\ zombie = FALSE /\ phase = "off"
  /\ pidfile = "none" /\ state = NoState /\ evidence = {}

Broker ==
  \/ AdmitReject \/ CreateRoot \/ AdmitError \/ WriteManifest \/ Rollback
  \/ \E a \in Artifacts : HashSource(a) \/ CopyIntoRoot(a)
  \/ ConfigTest \/ StartSpawn \/ StartPoll \/ StartTerminate \/ StartWriteState
  \/ Profile \/ ProfileState \/ Identity
  \/ StopBegin \/ StopKill \/ StopWait \/ StopKill9 \/ StopPid \/ StopState
  \/ Project \/ Stage \/ Cleanup \/ CleanupRemove \/ Report

Nginx == NginxBoot \/ NginxFork \/ Reap
         \/ \E p \in {"master", "worker"} : NginxExit(p)

Next == Broker \/ Nginx \/ Rerun \/ Kill \/ \E a \in Artifacts : Rewrite(a)

\* Every wait of a command has a deadline, so a command that is not killed
\* always gets on; init reaps.
Spec == Init /\ [][Next]_vars /\ WF_vars(Broker) /\ WF_vars(Reap)
-----------------------------------------------------------------------------
(* Properties *)

TypeOK ==
  /\ pc \in Commands \cup {"hash", "copy", "rollback", "poll", "term", "write_state",
        "profile_state", "stop_kill", "stop_wait", "stop_kill9", "stop_pid",
        "stop_state", "stage", "remove", "report", "over"}
  /\ attempt \in 1 .. MaxAttempts /\ kills \in 0 .. MaxKills
  /\ staged \in [Artifacts -> Contents] /\ dest \in [Artifacts -> Contents]
  /\ root \in {"none", "partial", "admitted"} /\ rootBy \in 0 .. MaxAttempts
  /\ alive \subseteq {"master", "worker"} /\ zombie \in BOOLEAN /\ phase \in Phases
  /\ pidfile \in {"none", "empty", "written"}
  /\ state = NoState \/ state \subseteq StateKeys
  /\ evidence \subseteq {"policy", "identity", "runtime", "projection"}
  /\ res \in [main : {"none", "ok", "fail"},
               admit : {"none", "ok", "fail", "exists", "unremoved", "killed"},
               stop : {"none", "ok", "fail"}, cleanup : {"none", "ok", "fail"},
               staged : BOOLEAN, verdict : {"none", "PASS", "FAIL"}]

\* Whatever the runner writes to the staged files while they are admitted, the
\* copies of an admitted root have the digests the manifest declares.
AdmittedBytesBound ==
  root = "admitted" => \A a \in Artifacts : dest[a] = "declared"

\* A root left behind by an attempt that was killed is never taken for the
\* root of a later attempt with the same run id.
AdmittedByThisAttempt == res.admit = "ok" /\ root # "none" => rootBy = attempt

\* An admission that fails, without reporting that the removal failed too,
\* leaves no root.
FailedAdmissionLeavesNothing == res.admit = "fail" => root = "none"

\* What validate-manifest admits or leaves behind is what it says, also when
\* it fails or is killed and the workflow is run again.
AdmissionSound ==
  TypeOK /\ AdmittedBytesBound /\ AdmittedByThisAttempt /\ FailedAdmissionLeavesNothing

\* When the state records a master as stopped, no process of its group lives:
\* for a stop that was killed half way and done again too.
StoppedMeansGone == {"master", "stopped"} \subseteq state => alive = {}

\* The workflow reports a clean end only if the run root is gone and no
\* process of NGINX is left.
PassMeansClean == res.verdict = "PASS" => root = "none" /\ alive = {}

\* What stop, cleanup-status and the workflow say about the end of NGINX is true.
EndIsClean == StoppedMeansGone /\ PassMeansClean

\* remove_broker_root is there to "Remove exactly one stopped broker run
\* root": no process of NGINX lives when its root is taken away.
RemovedOnlyWhenStopped == [][root = "admitted" /\ root' # "admitted" => alive = {}]_vars

\* Every wait of the broker is bounded: whatever NGINX does and whichever
\* command is killed, the workflow comes to its end.
Terminates == pc # "over" ~> pc = "over"

\* The workflow runs project-evidence after the stop and stages what it
\* publishes: an attempt in which every command before it succeeded ends with
\* staged evidence.  write_runtime_evidence says the same of itself: "stopped;
\* mandatory descriptor-relative cleanup pending".
StoppedRunIsProjected ==
  pc = "project" /\ "identity" \in evidence => "verified" \in state
=============================================================================
