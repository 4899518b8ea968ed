---------------------------- MODULE NginxLauncher ----------------------------
(***************************************************************************)
(* One run of the NGINX exact-head root launcher                           *)
(* (runtime/broker/nginx_exact_head_root_launcher.py) and of the helper it *)
(* starts in a sandbox (run_nginx_exact_head_cells.sh): the launcher makes *)
(* directories, an account and its id mapping, runs the helper through two *)
(* modes with a handshake of three files per mode, publishes evidence, and *)
(* releases in a finally block what it knows of.                           *)
(***************************************************************************)
EXTENDS Naturals, Sequences

CONSTANTS MaxFaults,   \* account commands that fail
          RunnerKnown  \* whether the runner's uid has an account

ASSUME LauncherConstants == MaxFaults \in Nat /\ RunnerKnown \in BOOLEAN

VARIABLES
  pc,        \* step of the launcher
  mode,      \* the mode the launcher is at
  host,      \* what exists on the host and outlives the launcher
  known,     \* what the launcher has recorded in its state
  errors,    \* what the cleanup has reported
  primary,   \* an exception has ended the run
  rc,        \* exit status, 2 while the launcher runs
  faults,    \* account commands that have failed
  sup,       \* the sandbox: "none", "running", "exit0", "exit1"
  hpc,       \* step of the helper
  hmode,     \* mode the helper is at
  master,    \* the mode's NGINX master is alive
  ready,     \* ready.json of each mode: "none", "partial" or "full"
  released,  \* modes with a release file
  completed, \* modes with request-complete.json
  observed   \* modes whose 403 the launcher has seen

vars == <<pc, mode, host, known, errors, primary, rc, faults, sup, hpc, hmode,
          master, ready, released, completed, observed>>
runtime == <<sup, hpc, hmode, master, ready>>
control == <<released, completed, observed>>
launcher == <<mode, host, known, errors, primary, rc, faults>>

Modes == {"on", "off"}
Account == {"user", "group"}
Delegation == {"subuid", "subgid"}
Directories == <<"evidence", "container", "scratch">>
Records == {"identity.json", "runtime.json", "on.jsonl", "off.jsonl", "exit.json"}

Raise == pc' = "drain" /\ primary' = TRUE

\* What one account command does to the host: it works, it fails, or it has
\* done its work and is still reported as failed (its timeout has passed).
Ran(now, after, ok, failed) ==
  \/ host' = after /\ ok /\ UNCHANGED faults
  \/ /\ faults < MaxFaults /\ faults' = faults + 1
     /\ host' \in {now, after} /\ failed

-----------------------------------------------------------------------------
(* _prepare_launcher *)

\* The directories are made one after the other; an error leaves the first k.
PrepareDirectories ==
  /\ pc = "dirs"
  /\ \E k \in 0 .. 3 :
       LET made == {Directories[i] : i \in 1 .. k} IN
       /\ host' = host \cup made /\ known' = known \cup (made \ {"container"})
       /\ IF k = 3 THEN pc' = "admit" /\ UNCHANGED primary ELSE Raise
  /\ UNCHANGED <<mode, errors, rc, faults, runtime, control>>

\* Helpers, profile, checkout, manifests and artifacts are admitted or not.
PrepareAdmit ==
  /\ pc = "admit"
  /\ (pc' = "groupadd" /\ UNCHANGED primary) \/ Raise
  /\ UNCHANGED <<mode, host, known, errors, rc, faults, runtime, control>>

CreateGroup ==
  /\ pc = "groupadd"
  /\ Ran(host, host \cup {"group"}, pc' = "useradd" /\ UNCHANGED primary, Raise)
  /\ UNCHANGED <<mode, known, errors, rc, runtime, control>>

CreateUser ==
  /\ pc = "useradd"
  /\ Ran(host, host \cup {"user"},
         pc' = "lookup" /\ known' = known \cup {"identity"} /\ UNCHANGED primary,
         pc' = "groupdel" /\ UNCHANGED <<known, primary>>)
  /\ UNCHANGED <<mode, errors, rc, runtime, control>>

\* Rollback of create_identity; groupdel refuses a user's primary group.
RollbackGroup ==
  /\ pc = "groupdel"
  /\ IF "user" \in host THEN UNCHANGED <<host, faults>>
     ELSE Ran(host, host \ {"group"}, TRUE, TRUE)
  /\ Raise
  /\ UNCHANGED <<mode, known, errors, rc, runtime, control>>

\* The worker's uid is kept before the runner's account is looked up, its gid
\* only with the mapping.
LookUpIdentity ==
  /\ pc = "lookup"
  /\ IF RunnerKnown
     THEN /\ known' = known \cup {"worker_uid", "mapping"} /\ pc' = "subuid"
          /\ UNCHANGED primary
     ELSE known' = known \cup {"worker_uid"} /\ Raise
  /\ UNCHANGED <<mode, host, errors, rc, faults, runtime, control>>

AddDelegation(id) ==
  /\ pc = id
  /\ Ran(host, host \cup {id},
         /\ known' = known \cup {id}
         /\ pc' = IF id = "subuid" THEN "subgid" ELSE "cells",
         pc' = "undo_subgid" /\ UNCHANGED known)
  /\ UNCHANGED <<mode, errors, primary, rc, runtime, control>>

DropStep(id, undo) ==
  IF undo THEN IF id = "subgid" THEN "undo_subgid" ELSE "undo_subuid"
  ELSE IF id = "subgid" THEN "drop_subgid" ELSE "drop_subuid"

\* cleanup_subordinate_mapping: only what is recorded as added is taken away.
\* "undo" is its use as the rollback of establish_subordinate_mapping.
DropDelegation(id, undo) ==
  /\ pc = DropStep(id, undo)
  /\ LET next == IF id = "subgid" THEN DropStep("subuid", undo)
                 ELSE IF undo THEN "drain" ELSE "drop_check" IN
     /\ pc' = next /\ primary' = (primary \/ next = "drain")
     /\ IF id \in known
        THEN Ran(host, host \ {id}, known' = known \ {id} /\ UNCHANGED errors,
                 UNCHANGED known
                 /\ errors' = (IF undo THEN errors ELSE errors \cup {"mapping"}))
        ELSE UNCHANGED <<host, known, errors, faults>>
  /\ UNCHANGED <<mode, rc, runtime, control>>

PrepareCells ==
  /\ pc = "cells"
  /\ (pc' = "spawn" /\ UNCHANGED primary) \/ Raise
  /\ UNCHANGED <<mode, host, known, errors, rc, faults, runtime, control>>

-----------------------------------------------------------------------------
(* _execute_launcher *)

Spawn ==
  /\ pc = "spawn"
  /\ pc' = "wait_mode" /\ known' = known \cup {"process"}
  /\ sup' = "running" /\ hpc' = "boot"
  /\ UNCHANGED <<mode, host, errors, primary, rc, faults, hmode, master, ready, control>>

\* Deliberately wrong: the wait for a mode has no deadline.
WaitModeForever ==
  /\ pc = "wait_mode" /\ (sup # "running" \/ ready[mode] # "none")
  /\ IF sup = "running" /\ ready[mode] = "full" /\ master
     THEN released' = released \cup {mode} /\ pc' = "http" /\ UNCHANGED primary
     ELSE Raise /\ UNCHANGED released
  /\ UNCHANGED <<mode, host, known, errors, rc, faults, runtime, completed, observed>>

\* The record is read as soon as it exists, complete or not; the identity of
\* the master it names is validated before the helper is released.
WaitMode ==
  /\ pc = "wait_mode"
  /\ \/ /\ sup = "running" /\ ready[mode] = "full" /\ master
        /\ released' = released \cup {mode} /\ pc' = "http" /\ UNCHANGED primary
     \/ /\ sup # "running" \/ ready[mode] # "full" \/ ~master
        /\ Raise /\ UNCHANGED released
  /\ UNCHANGED <<mode, host, known, errors, rc, faults, runtime, completed, observed>>

HttpStatus ==
  /\ pc = "http"
  /\ \/ /\ sup = "running" /\ master
        /\ observed' = observed \cup {mode} /\ pc' = "complete" /\ UNCHANGED primary
     \/ Raise /\ UNCHANGED observed
  /\ UNCHANGED <<mode, host, known, errors, rc, faults, runtime, released, completed>>

MarkRequestComplete ==
  /\ pc = "complete"
  /\ completed' = completed \cup {mode}
  /\ mode' = "off" /\ pc' = IF mode = "on" THEN "wait_mode" ELSE "wait_exit"
  /\ UNCHANGED <<host, known, errors, primary, rc, faults, runtime, released, observed>>

\* Deliberately wrong: the exit status of the helper is not looked at.
WaitExitAny ==
  /\ pc = "wait_exit"
  /\ pc' = "publish"
  /\ UNCHANGED <<launcher, runtime, control>>

WaitExit ==
  /\ pc = "wait_exit"
  /\ IF sup = "exit0" THEN pc' = "publish" /\ UNCHANGED primary ELSE Raise
  /\ UNCHANGED <<mode, host, known, errors, rc, faults, runtime, control>>

\* The five records are written one by one, in a fixed order, "exit.json"
\* last; the run has published when all of them are there.
Publish ==
  /\ pc = "publish"
  /\ \/ /\ host' = host \cup Records /\ known' = known \cup {"published"}
        /\ pc' = "drain" /\ UNCHANGED primary
     \/ /\ \E part \in {{}, {"identity.json"}, Records \ {"exit.json"}} : host' = host \cup part
        /\ Raise /\ UNCHANGED known
  /\ UNCHANGED <<mode, errors, rc, faults, runtime, control>>

-----------------------------------------------------------------------------
(* _cleanup_launcher *)

\* Deliberately wrong: the account goes although the drain has failed.
DrainCarriesOn ==
  /\ pc = "drain"
  /\ pc' = "identity"
  /\ UNCHANGED <<launcher, runtime, control>>

\* Every descendant is killed through pidfds until two scans find none; with
\* the sandbox supervisor dies its whole PID namespace.  The drain may run
\* into its deadline, and a foreign process may hold the worker's uid: the
\* runtime then counts as not quiescent.
Drain ==
  /\ pc = "drain"
  /\ \/ /\ sup' = (IF sup = "running" THEN "exit1" ELSE sup)
        /\ master' = FALSE /\ hpc' = "gone" /\ pc' = "identity"
        /\ UNCHANGED errors
     \/ /\ "process" \in known \/ "worker_uid" \in known
        /\ errors' = errors \cup {"runtime"}
        /\ pc' = "finish" /\ UNCHANGED <<sup, hpc, master>>
  /\ UNCHANGED <<mode, host, known, primary, rc, faults, hmode, ready, control>>

\* cleanup_identity wants the uid and the gid that were captured.
CleanupIdentity ==
  /\ pc = "identity"
  /\ IF "identity" \in known /\ "mapping" \notin known
     THEN errors' = errors \cup {"identity"} /\ pc' = "scratch"
     ELSE UNCHANGED errors /\ pc' = IF "identity" \in known THEN "userdel" ELSE "scratch"
  /\ UNCHANGED <<mode, host, known, primary, rc, faults, runtime, control>>

DeleteUser ==
  /\ pc = "userdel"
  /\ pc' = "delgroup"
  /\ Ran(host, host \ {"user"}, UNCHANGED errors, errors' = errors \cup {"identity"})
  /\ UNCHANGED <<mode, known, primary, rc, runtime, control>>

\* The mapping is retained if the account could not be removed.
DeleteGroup ==
  /\ pc = "delgroup"
  /\ IF "user" \in host
     THEN UNCHANGED <<host, faults>> /\ errors' = errors \cup {"identity"}
     ELSE Ran(host, host \ {"group"}, UNCHANGED errors, errors' = errors \cup {"identity"})
  /\ pc' = IF "identity" \in errors' THEN "scratch" ELSE "drop_subgid"
  /\ UNCHANGED <<mode, known, primary, rc, runtime, control>>

DropCheck ==
  /\ pc = "drop_check"
  /\ pc' = "scratch"
  /\ errors' = IF host \cap Delegation = {} THEN errors ELSE errors \cup {"mapping"}
  /\ UNCHANGED <<mode, host, known, primary, rc, faults, runtime, control>>

RemoveScratch ==
  /\ pc = "scratch"
  /\ pc' = "finish"
  /\ \/ host' = host \ {"scratch"} /\ UNCHANGED errors
     \/ "scratch" \in known /\ errors' = errors \cup {"scratch"} /\ UNCHANGED host
  /\ UNCHANGED <<mode, known, primary, rc, faults, runtime, control>>

\* Deliberately wrong: errors of the cleanup do not reach the exit status.
FinishQuiet ==
  /\ pc = "finish"
  /\ pc' = "done" /\ rc' = IF primary THEN 1 ELSE 0
  /\ UNCHANGED <<mode, host, known, errors, primary, faults, runtime, control>>

Finish ==
  /\ pc = "finish"
  /\ pc' = "done"
  /\ errors' = IF "evidence" \in known /\ "published" \notin known
               THEN errors \cup {"evidence"} ELSE errors
  /\ rc' = IF primary \/ errors' # {} THEN 1 ELSE 0
  /\ UNCHANGED <<mode, host, known, primary, faults, runtime, control>>

-----------------------------------------------------------------------------
(* The helper in the sandbox: write_mode for "on", then for "off" *)

Helper(from, to) ==
  /\ sup = "running" /\ hpc = from /\ hpc' = to
  /\ UNCHANGED <<pc, launcher, control>>

HelperStart == Helper("boot", "up") /\ master' = TRUE /\ UNCHANGED <<sup, hmode, ready>>

\* ready.json is written in place: the launcher can meet it half written.
HelperReady ==
  \/ /\ Helper("up", "announce") /\ master
     /\ ready' = [ready EXCEPT ![hmode] = "partial"] /\ UNCHANGED <<sup, hmode, master>>
  \/ /\ Helper("announce", "released?")
     /\ ready' = [ready EXCEPT ![hmode] = "full"] /\ UNCHANGED <<sup, hmode, master>>

HelperReleased ==
  /\ hmode \in released /\ Helper("released?", "completed?")
  /\ UNCHANGED <<sup, hmode, master, ready>>

HelperCompleted ==
  /\ hmode \in completed /\ Helper("completed?", "term")
  /\ UNCHANGED <<sup, hmode, master, ready>>

\* SIGTERM to the master, its exit status, and the log checks of the mode.
HelperTerm ==
  /\ master /\ Helper("term", IF hmode = "on" THEN "boot" ELSE "gone")
  /\ master' = FALSE /\ hmode' = "off"
  /\ sup' = (IF hmode = "off" THEN "exit0" ELSE sup)
  /\ UNCHANGED ready

\* Every check and every loop of the helper may end in die.  Its exit ends
\* the PID namespace, with the master.
HelperDie ==
  /\ hpc # "gone" /\ Helper(hpc, "gone")
  /\ sup' = "exit1" /\ master' = FALSE /\ UNCHANGED <<hmode, ready>>

\* The master ends by itself.
MasterExit ==
  /\ master /\ sup = "running" /\ master' = FALSE
  /\ UNCHANGED <<pc, launcher, control, sup, hpc, hmode, ready>>

-----------------------------------------------------------------------------

Init ==
  /\ pc = "dirs" /\ mode = "on" /\ host = {} /\ known = {} /\ errors = {}
  /\ primary = FALSE /\ rc = 2 /\ faults = 0
  /\ sup = "none" /\ hpc = "gone" /\ hmode = "on" /\ master = FALSE
  /\ ready = [m \in Modes |-> "none"]
  /\ released = {} /\ completed = {} /\ observed = {}

Launcher ==
  \/ PrepareDirectories \/ PrepareAdmit \/ CreateGroup \/ CreateUser \/ RollbackGroup
  \/ LookUpIdentity \/ PrepareCells \/ Spawn \/ WaitMode \/ HttpStatus
  \/ MarkRequestComplete \/ WaitExit \/ Publish \/ Drain \/ CleanupIdentity
  \/ DeleteUser \/ DeleteGroup \/ DropCheck \/ RemoveScratch \/ Finish
  \/ \E id \in Delegation : AddDelegation(id) \/ \E undo \in BOOLEAN : DropDelegation(id, undo)

Sandbox == HelperStart \/ HelperReady \/ HelperReleased \/ HelperCompleted \/ HelperTerm
           \/ HelperDie \/ MasterExit

Next == Launcher \/ Sandbox

\* Every wait of the launcher has a deadline.
Spec == Init /\ [][Next]_vars /\ WF_vars(Launcher)

-----------------------------------------------------------------------------
(* Properties *)

TypeOK ==
  /\ pc \in Delegation \cup {"dirs", "admit", "groupadd", "useradd", "groupdel", "lookup",
        "undo_subgid", "undo_subuid", "drop_subgid", "drop_subuid", "drop_check", "cells",
        "spawn", "wait_mode", "http", "complete", "wait_exit", "publish", "drain",
        "identity", "userdel", "delgroup", "scratch", "finish", "done"}
  /\ mode \in Modes /\ hmode \in Modes
  /\ host \subseteq Account \cup Delegation \cup {"evidence", "container", "scratch"} \cup Records
  /\ known \subseteq {"evidence", "scratch", "identity", "worker_uid", "mapping", "process",
        "published"} \cup Delegation
  /\ errors \subseteq {"mapping", "identity", "runtime", "scratch", "evidence"}
  /\ primary \in BOOLEAN /\ rc \in 0 .. 2 /\ faults \in 0 .. MaxFaults
  /\ sup \in {"none", "running", "exit0", "exit1"}
  /\ hpc \in {"gone", "boot", "up", "announce", "released?", "completed?", "term"}
  /\ master \in BOOLEAN /\ ready \in [Modes -> {"none", "partial", "full"}]
  /\ released \subseteq Modes /\ completed \subseteq Modes /\ observed \subseteq Modes

\* Exit status 0 means that account, mapping and scratch tree are gone and the
\* evidence is complete, however the account commands have failed.
ZeroMeansReleased ==
  rc = 0 => /\ host \cap (Account \cup Delegation \cup {"scratch"}) = {}
            /\ Records \subseteq host

\* A mapping that survives the cleanup of a quiescent runtime is reported:
\* also one that usermod added and then failed for.
SurvivingMappingReported ==
  pc = "done" /\ host \cap Delegation # {} => errors \cap {"mapping", "identity", "runtime"} # {}

\* What the launcher has set up is gone at its end or its leftovers are
\* reported (_cleanup_launcher, require_no_subordinate_mapping).
ReleaseSound == TypeOK /\ ZeroMeansReleased /\ SurvivingMappingReported

\* Nothing the runtime uses is taken away while the sandbox runs.
ReleasedAfterRuntime ==
  [][sup = "running" =>
       host \cap (Account \cup Delegation \cup {"scratch"}) \subseteq host']_vars

\* The helper stops a mode's master only after the launcher has seen that
\* mode's answer, whatever the order of the two processes.
StoppedAfterObservation == hpc = "term" => hmode \in observed

\* Complete evidence is published only if both modes were observed and the
\* helper has ended in order.
CompleteEvidence ==
  "exit.json" \in host => observed = Modes /\ sup = "exit0"

\* The handshake of launcher and helper: each mode is observed while its master
\* runs, and evidence is complete only when both were (wait_mode,
\* mark_request_complete, publish_evidence).
EvidenceSound == StoppedAfterObservation /\ CompleteEvidence

\* The launcher always comes to an end, whatever the sandbox does.
LauncherEnds == <>(pc = "done")

\* _cleanup_launcher is there to "Stop runtime first, then release identities,
\* mappings, cells, evidence": with a quiescent runtime and account commands
\* that work, no account is left.
IdentityReleased ==
  pc = "done" /\ faults = 0 /\ "runtime" \notin errors => host \cap Account = {}
=============================================================================
