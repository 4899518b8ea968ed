-------------------------- MODULE ApacheOwnership --------------------------
(***************************************************************************)
(* Ownership evidence and identity-bound termination:                      *)
(* apache_process_guard.py record, terminate, signal and verify-stopped.   *)
(*                                                                         *)
(* `record` snapshots the identity of the httpd at one PID and publishes   *)
(* it as an evidence file; a failure after the snapshot rolls the file     *)
(* back and terminates exactly that process (exit 74) or says that it      *)
(* could not (exit 77).  A later command (terminate, signal,               *)
(* verify-stopped) works from the evidence alone, while httpd exits, is    *)
(* reaped by its supervisor, and its PID goes to other processes.          *)
(*                                                                         *)
(* Processes at the PID are numbered in the order of their birth: the      *)
(* number stands for the start time that /proc reports.  A listening       *)
(* socket carries the number of the process that opened it.                *)
(***************************************************************************)
EXTENDS Naturals

CONSTANTS
    MaxBirth,   \* bound: processes that ever get the PID
    Attempts,   \* RECORD_INSPECTION_ATTEMPTS
    Stranger,   \* the inode of a listener opened by a process at another PID
    Faults      \* the file system steps that may fail

FaultKinds == {"inspect", "parent", "temp", "write", "link", "unlink", "rollback"}

ASSUME OwnershipAssumption ==
    /\ MaxBirth \in Nat \ {0}
    /\ Attempts \in Nat \ {0}
    /\ Stranger \in Nat /\ Stranger > MaxBirth
    /\ Faults \subseteq FaultKinds

\* record runs one termination, after a failure; stop is a later command.
Actors == {"record", "stop"}

VARIABLES
    birth,      \* the process that has, or had last, the PID
    occ,        \* what /proc shows at the PID: "live", "zombie" or "free"
    apache,     \* that process runs the Apache executable
    port,       \* the inode listening on the port, 0 for none
    members,    \* other processes of the httpd session or process group exist
    out,        \* the evidence name: "none", "mine" or "foreign"
    temp,       \* a temporary evidence file exists
    rpc,        \* where record is
    attempt,    \* inspections made
    unstable,   \* inspection_error is not None
    seen,       \* the start time read in this inspection
    published,  \* link() succeeded
    errors,     \* cleanup_errors is not empty
    tpc,        \* where a termination is
    ev,         \* the start time in the evidence the actor holds, 0 for none
    inode,      \* the listener inode in that evidence
    fd,         \* the process the actor's pidfd is bound to
    hit,        \* the processes the actor has signalled
    confirmed   \* the pidfd reported the exit

envVars == <<birth, occ, apache, port, members>>
recVars == <<out, temp, rpc, attempt, unstable, seen, published, errors>>
termVars == <<tpc, ev, inode, fd, hit, confirmed>>
vars == <<envVars, recVars, termVars>>

RecordPCs == {"stat", "fds", "temp", "write", "link", "unlink", "rbtemp", "rbout", "absent",
              "terminate", "exit0", "exit74", "exit77", "crash"}
TermPCs == {"idle", "open", "identity", "listener", "term", "pollTerm", "kill", "pollKill",
            "done", "refused", "crash", "vsProc", "vsPort", "vsMembers", "stopped",
            "qPort", "qMembers", "signalled"}

TypeOK ==
    /\ birth \in 1..MaxBirth
    /\ occ \in {"live", "zombie", "free"}
    /\ apache \in BOOLEAN
    /\ port \in 0..MaxBirth \cup {Stranger}
    /\ members \in BOOLEAN
    /\ out \in {"none", "mine", "foreign"}
    /\ temp \in BOOLEAN
    /\ rpc \in RecordPCs
    /\ attempt \in 0..Attempts
    /\ unstable \in BOOLEAN
    /\ seen \in 0..MaxBirth
    /\ published \in BOOLEAN
    /\ errors \in BOOLEAN
    /\ tpc \in [Actors -> TermPCs]
    /\ ev \in [Actors -> 0..MaxBirth]
    /\ inode \in [Actors -> 0..MaxBirth]
    /\ fd \in [Actors -> 0..MaxBirth]
    /\ hit \in [Actors -> SUBSET (1..MaxBirth)]
    /\ confirmed \in [Actors -> BOOLEAN]

\* The harness calls record once its httpd answered on the port; another
\* process may have got there first, or evidence may already be present.
Init ==
    /\ birth = 1
    /\ occ = "live"
    /\ apache = TRUE
    /\ port \in {0, 1, Stranger}
    /\ members \in BOOLEAN
    /\ out \in {"none", "foreign"}
    /\ temp = FALSE
    /\ rpc = "stat"
    /\ attempt = 0
    /\ unstable = FALSE
    /\ seen = 0
    /\ published = FALSE
    /\ errors = FALSE
    /\ tpc = [a \in Actors |-> "idle"]
    /\ ev = [a \in Actors |-> 0]
    /\ inode = [a \in Actors |-> 0]
    /\ fd = [a \in Actors |-> 0]
    /\ hit = [a \in Actors |-> {}]
    /\ confirmed = [a \in Actors |-> FALSE]

-----------------------------------------------------------------------------
(* The system around the commands *)

Listen ==
    /\ port = 0
    /\ \/ occ = "live" /\ apache /\ port' = birth
       \/ port' = Stranger
    /\ UNCHANGED <<birth, occ, apache, members, recVars, termVars>>

\* Exit, by itself or on a signal.  A process forked by httpd may hold the
\* listening socket a little longer.
Exit ==
    /\ occ = "live"
    /\ occ' = "zombie"
    /\ port' = IF port = birth /\ ~members THEN 0 ELSE port
    /\ UNCHANGED <<birth, apache, members, recVars, termVars>>

MembersExit ==
    /\ members
    /\ members' = FALSE
    /\ port' = IF port \in 1..MaxBirth /\ (occ # "live" \/ port # birth) THEN 0 ELSE port
    /\ UNCHANGED <<birth, occ, apache, recVars, termVars>>

StrangerCloses ==
    /\ port = Stranger
    /\ port' = 0
    /\ UNCHANGED <<birth, occ, apache, members, recVars, termVars>>

\* The supervisor reaps httpd; from then on the PID is free for reuse.
Reap ==
    /\ occ = "zombie"
    /\ occ' = "free"
    /\ UNCHANGED <<birth, apache, port, members, recVars, termVars>>

\* A PID that still names a session or process group is not reused.
ReusePid ==
    /\ occ = "free"
    /\ ~members
    /\ birth < MaxBirth
    /\ birth' = birth + 1
    /\ occ' = "live"
    /\ apache' \in BOOLEAN
    /\ UNCHANGED <<port, members, recVars, termVars>>

-----------------------------------------------------------------------------
(* What the commands read from /proc; every scan is bounded and may fail *)

\* _fd_inodes and _listener_inodes: p holds the socket that listens on the port.
OwnsListener(p) == port = p

\* _listener_inodes: somebody listens on the port.
ListenerRemains == port # 0

\* _session_members: processes other than the leader.
MembersRemain == members

ScanFails == "inspect" \in Faults

-----------------------------------------------------------------------------
(* _capture_record_payload: stat, then executable, descriptors, listeners *)

\* Deliberately wrong: failed attempts are not counted.
InspectionUncounted ==
    /\ unstable' = TRUE
    /\ rpc' = "stat"
    /\ UNCHANGED attempt

\* This inspection failed: try again, or give up without any termination.
InspectionFails ==
    /\ unstable' = TRUE
    /\ attempt' = attempt + 1
    /\ rpc' = IF attempt + 1 < Attempts THEN "stat" ELSE "exit77"

CaptureStat ==
    /\ rpc = "stat"
    /\ \/ /\ occ # "free"
          /\ seen' = birth
          /\ rpc' = "fds"
          /\ UNCHANGED <<attempt, unstable>>
       \/ /\ occ = "free" \/ ScanFails
          /\ InspectionFails
          /\ UNCHANGED seen
    /\ UNCHANGED <<envVars, out, temp, published, errors, termVars>>

\* A snapshot that needed a retry is not published: its process is terminated.
Captured ==
    /\ ev' = [ev EXCEPT !["record"] = seen]
    /\ inode' = [inode EXCEPT !["record"] = port]
    /\ \/ unstable /\ rpc' = "terminate" /\ tpc' = [tpc EXCEPT !["record"] = "open"]
       \/ ~unstable /\ rpc' = "temp" /\ UNCHANGED tpc

CaptureFds ==
    /\ rpc = "fds"
    /\ \/ /\ occ = "live" /\ apache /\ OwnsListener(birth)
          /\ Captured
          /\ UNCHANGED <<attempt, unstable>>
       \/ /\ occ # "live" \/ (apache /\ ~OwnsListener(birth)) \/ ScanFails
          /\ InspectionFails
          /\ UNCHANGED <<ev, inode, tpc>>
       \/ /\ occ = "live" /\ ~apache
          /\ rpc' = "exit77"
          /\ UNCHANGED <<attempt, unstable, ev, inode, tpc>>
    /\ UNCHANGED <<envVars, out, temp, seen, published, errors, fd, hit, confirmed>>

-----------------------------------------------------------------------------
(* _publish_record_payload and _rollback_record_artifacts *)

CreateTemp ==
    /\ rpc = "temp"
    /\ \/ temp' = TRUE /\ rpc' = "write" /\ UNCHANGED <<errors, tpc>>
       \/ "temp" \in Faults /\ rpc' = "rbtemp" /\ UNCHANGED <<temp, errors, tpc>>
       \/ /\ "parent" \in Faults    \* no directory descriptor, no rollback
          /\ errors' = TRUE
          /\ rpc' = "terminate"
          /\ tpc' = [tpc EXCEPT !["record"] = "open"]
          /\ UNCHANGED temp
    /\ UNCHANGED <<envVars, out, attempt, unstable, seen, published, ev, inode, fd, hit,
                   confirmed>>

WriteTemp ==
    /\ rpc = "write"
    /\ \/ rpc' = "link"
       \/ "write" \in Faults /\ rpc' = "rbtemp"
    /\ UNCHANGED <<envVars, out, temp, attempt, unstable, seen, published, errors, termVars>>

\* Deliberately wrong: rename over evidence that is already there.
LinkEvidenceOverwriting ==
    /\ rpc = "link"
    /\ out' = "mine"
    /\ published' = TRUE
    /\ rpc' = "unlink"
    /\ UNCHANGED <<envVars, temp, attempt, unstable, seen, errors, termVars>>

\* link() fails when the name exists: foreign evidence is never overwritten.
LinkEvidence ==
    /\ rpc = "link"
    /\ \/ out = "none" /\ out' = "mine" /\ published' = TRUE /\ rpc' = "unlink"
       \/ out # "none" /\ rpc' = "rbtemp" /\ UNCHANGED <<out, published>>
       \/ "link" \in Faults /\ rpc' = "rbtemp" /\ UNCHANGED <<out, published>>
    /\ UNCHANGED <<envVars, temp, attempt, unstable, seen, errors, termVars>>

\* Deliberately wrong: a temporary file that cannot be removed is ignored.
UnlinkTempIgnored ==
    /\ rpc = "unlink"
    /\ temp' \in BOOLEAN
    /\ rpc' = "exit0"
    /\ UNCHANGED <<envVars, out, attempt, unstable, seen, published, errors, termVars>>

UnlinkTemp ==
    /\ rpc = "unlink"
    /\ \/ temp' = FALSE /\ rpc' = "exit0"
       \/ "unlink" \in Faults /\ rpc' = "rbtemp" /\ UNCHANGED temp
    /\ UNCHANGED <<envVars, out, attempt, unstable, seen, published, errors, termVars>>

RollbackTemp ==
    /\ rpc = "rbtemp"
    /\ rpc' = "rbout"
    /\ \/ temp' = FALSE /\ UNCHANGED errors
       \/ temp /\ "rollback" \in Faults /\ errors' = TRUE /\ temp' \in BOOLEAN
    /\ UNCHANGED <<envVars, out, attempt, unstable, seen, published, termVars>>

\* Only a name this command linked is removed.
RollbackOutput ==
    /\ rpc = "rbout"
    /\ rpc' = "absent"
    /\ \/ out' = (IF published THEN "none" ELSE out) /\ UNCHANGED errors
       \/ published /\ "rollback" \in Faults /\ errors' = TRUE /\ UNCHANGED out
    /\ UNCHANGED <<envVars, temp, attempt, unstable, seen, published, termVars>>

CheckAbsent ==
    /\ rpc = "absent"
    /\ rpc' = "terminate"
    /\ errors' = (errors \/ out # "none") \/ ("rollback" \in Faults /\ errors' = TRUE)
    /\ tpc' = [tpc EXCEPT !["record"] = "open"]
    /\ UNCHANGED <<envVars, out, temp, attempt, unstable, seen, published, ev, inode, fd, hit,
                   confirmed>>

-----------------------------------------------------------------------------
(* terminate_verified: bind a pidfd, verify, TERM, wait, KILL, wait *)

At(a, from, to) == /\ tpc[a] = from
                   /\ tpc' = [tpc EXCEPT ![a] = to]

\* GuardError out of terminate_verified: record goes on to the quiescence test.
Refused(a) == IF a = "record" THEN "qPort" ELSE "refused"

\* The process a pidfd is bound to has exited: its PID may be someone else's.
Exited(p) == p # birth \/ occ # "live"

OpenPidfd(a) ==
    /\ tpc[a] = "open"
    /\ \/ /\ occ # "free"
          /\ fd' = [fd EXCEPT ![a] = birth]
          /\ tpc' = [tpc EXCEPT ![a] = "identity"]
       \/ /\ occ = "free"
          /\ tpc' = [tpc EXCEPT ![a] = Refused(a)]
          /\ UNCHANGED fd
    /\ UNCHANGED <<envVars, recVars, ev, inode, hit, confirmed>>

\* Deliberately wrong: any process at the PID is taken for the recorded one.
VerifyIdentityAnyone(a) ==
    /\ tpc[a] = "identity"
    /\ tpc' = [tpc EXCEPT ![a] = IF occ = "live" THEN "term" ELSE Refused(a)]
    /\ UNCHANGED <<envVars, recVars, ev, inode, fd, hit, confirmed>>

\* verify_running, first half: /proc/<pid> names the recorded process.
VerifyIdentity(a) ==
    /\ tpc[a] = "identity"
    /\ \/ /\ occ = "live" /\ birth = ev[a]
          /\ tpc' = [tpc EXCEPT ![a] = "listener"]
       \/ /\ occ # "live" \/ birth # ev[a] \/ ScanFails
          /\ tpc' = [tpc EXCEPT ![a] = Refused(a)]
    /\ UNCHANGED <<envVars, recVars, ev, inode, fd, hit, confirmed>>

\* verify_running, second half: the recorded socket is its own and listens.
VerifyListener(a) ==
    /\ tpc[a] = "listener"
    /\ \/ /\ OwnsListener(inode[a]) /\ inode[a] = ev[a]
          /\ tpc' = [tpc EXCEPT ![a] = "term"]
       \/ /\ ~OwnsListener(inode[a]) \/ inode[a] # ev[a] \/ ScanFails
          /\ tpc' = [tpc EXCEPT ![a] = Refused(a)]
    /\ UNCHANGED <<envVars, recVars, ev, inode, fd, hit, confirmed>>

\* pidfd_send_signal reaches the process of the pidfd or nobody: once that
\* process is reaped it raises ProcessLookupError, which is not a GuardError.
Send(a, to) ==
    \/ /\ fd[a] = birth /\ occ # "free"
       /\ hit' = [hit EXCEPT ![a] = @ \cup {fd[a]}]
       /\ tpc' = [tpc EXCEPT ![a] = to]
       /\ UNCHANGED rpc
    \/ /\ ~(fd[a] = birth /\ occ # "free")
       /\ tpc' = [tpc EXCEPT ![a] = "crash"]
       /\ rpc' = IF a = "record" THEN "crash" ELSE rpc
       /\ UNCHANGED hit

SendTerm(a) ==
    /\ tpc[a] = "term"
    /\ Send(a, "pollTerm")
    /\ UNCHANGED <<envVars, out, temp, attempt, unstable, seen, published, errors, ev, inode, fd,
                   confirmed>>

SendKill(a) ==
    /\ tpc[a] = "kill"
    /\ Send(a, "pollKill")
    /\ UNCHANGED <<envVars, out, temp, attempt, unstable, seen, published, errors, ev, inode, fd,
                   confirmed>>

\* The poll sees the exit of the pidfd's process, or times out.
PollTerm(a) ==
    /\ tpc[a] = "pollTerm"
    /\ \/ /\ Exited(fd[a])
          /\ confirmed' = [confirmed EXCEPT ![a] = TRUE]
          /\ tpc' = [tpc EXCEPT ![a] = IF a = "record" THEN "qPort" ELSE "done"]
       \/ /\ ~Exited(fd[a])
          /\ tpc' = [tpc EXCEPT ![a] = "kill"]
          /\ UNCHANGED confirmed
    /\ UNCHANGED <<envVars, recVars, ev, inode, fd, hit>>

\* Deliberately wrong: a process that survives SIGKILL counts as stopped.
PollKillIgnored(a) ==
    /\ tpc[a] = "pollKill"
    /\ confirmed' = [confirmed EXCEPT ![a] = TRUE]
    /\ tpc' = [tpc EXCEPT ![a] = IF a = "record" THEN "qPort" ELSE "done"]
    /\ UNCHANGED <<envVars, recVars, ev, inode, fd, hit>>

PollKill(a) ==
    /\ tpc[a] = "pollKill"
    /\ \/ /\ Exited(fd[a])
          /\ confirmed' = [confirmed EXCEPT ![a] = TRUE]
          /\ tpc' = [tpc EXCEPT ![a] = IF a = "record" THEN "qPort" ELSE "done"]
       \/ /\ ~Exited(fd[a])
          /\ tpc' = [tpc EXCEPT ![a] = Refused(a)]
          /\ UNCHANGED confirmed
    /\ UNCHANGED <<envVars, recVars, ev, inode, fd, hit>>

\* The signal command stops after the first signal.
SignalDone ==
    /\ At("stop", "pollTerm", "signalled")
    /\ UNCHANGED <<envVars, recVars, ev, inode, fd, hit, confirmed>>

-----------------------------------------------------------------------------
(* _record_failure_runtime_quiesced, then exit 74 or 77 *)

QuiescePort ==
    /\ tpc["record"] = "qPort"
    /\ \/ /\ ~ListenerRemains
          /\ tpc' = [tpc EXCEPT !["record"] = "qMembers"]
          /\ UNCHANGED rpc
       \/ /\ ListenerRemains \/ ScanFails
          /\ tpc' = [tpc EXCEPT !["record"] = "refused"]
          /\ rpc' = "exit77"
    /\ UNCHANGED <<envVars, out, temp, attempt, unstable, seen, published, errors, ev, inode, fd,
                   hit, confirmed>>

\* Deliberately wrong: rollback errors do not change the exit status.
QuiesceMembersNoErrors ==
    /\ tpc["record"] = "qMembers"
    /\ \/ /\ ~MembersRemain /\ (confirmed["record"] \/ occ = "free")
          /\ tpc' = [tpc EXCEPT !["record"] = "done"]
          /\ rpc' = "exit74"
       \/ /\ MembersRemain \/ ~(confirmed["record"] \/ occ = "free") \/ ScanFails
          /\ tpc' = [tpc EXCEPT !["record"] = "refused"]
          /\ rpc' = "exit77"
    /\ UNCHANGED <<envVars, out, temp, attempt, unstable, seen, published, errors, ev, inode, fd,
                   hit, confirmed>>

QuiesceMembers ==
    /\ tpc["record"] = "qMembers"
    /\ \/ /\ ~MembersRemain /\ (confirmed["record"] \/ occ = "free")
          /\ tpc' = [tpc EXCEPT !["record"] = "done"]
          /\ rpc' = IF errors THEN "exit77" ELSE "exit74"
       \/ /\ MembersRemain \/ ~(confirmed["record"] \/ occ = "free") \/ ScanFails
          /\ tpc' = [tpc EXCEPT !["record"] = "refused"]
          /\ rpc' = "exit77"
    /\ UNCHANGED <<envVars, out, temp, attempt, unstable, seen, published, errors, ev, inode, fd,
                   hit, confirmed>>

-----------------------------------------------------------------------------
(* A later command loads the evidence this record published *)

LoadEvidence(to) ==
    /\ rpc = "exit0"
    /\ At("stop", "idle", to)
    /\ ev' = [ev EXCEPT !["stop"] = ev["record"]]
    /\ inode' = [inode EXCEPT !["stop"] = inode["record"]]
    /\ UNCHANGED <<envVars, recVars, fd, hit, confirmed>>

Terminate == LoadEvidence("open")

VerifyStopped == LoadEvidence("vsProc")

StoppedProc ==
    /\ tpc["stop"] = "vsProc"
    /\ tpc' = [tpc EXCEPT !["stop"] = IF occ = "free" THEN "vsPort" ELSE "refused"]
    /\ UNCHANGED <<envVars, recVars, ev, inode, fd, hit, confirmed>>

StoppedPort ==
    /\ tpc["stop"] = "vsPort"
    /\ \/ ~ListenerRemains /\ tpc' = [tpc EXCEPT !["stop"] = "vsMembers"]
       \/ (ListenerRemains \/ ScanFails) /\ tpc' = [tpc EXCEPT !["stop"] = "refused"]
    /\ UNCHANGED <<envVars, recVars, ev, inode, fd, hit, confirmed>>

\* Refused while members remain, and also while httpd's own PID file does.
StoppedMembers ==
    /\ tpc["stop"] = "vsMembers"
    /\ \/ ~MembersRemain /\ tpc' = [tpc EXCEPT !["stop"] = "stopped"]
       \/ tpc' = [tpc EXCEPT !["stop"] = "refused"]
    /\ UNCHANGED <<envVars, recVars, ev, inode, fd, hit, confirmed>>

-----------------------------------------------------------------------------
RecordStep ==
    \/ CaptureStat \/ CaptureFds
    \/ CreateTemp \/ WriteTemp \/ LinkEvidence \/ UnlinkTemp
    \/ RollbackTemp \/ RollbackOutput \/ CheckAbsent
    \/ QuiescePort \/ QuiesceMembers

TermStep(a) ==
    \/ OpenPidfd(a) \/ VerifyIdentity(a) \/ VerifyListener(a)
    \/ SendTerm(a) \/ PollTerm(a) \/ SendKill(a) \/ PollKill(a)

StopCommand == SignalDone \/ Terminate \/ VerifyStopped
               \/ StoppedProc \/ StoppedPort \/ StoppedMembers

Environment == Listen \/ Exit \/ MembersExit \/ StrangerCloses \/ Reap \/ ReusePid

Next == RecordStep \/ (\E a \in Actors : TermStep(a)) \/ StopCommand \/ Environment

Spec == Init /\ [][Next]_vars

\* The record process is scheduled; its surroundings owe it nothing.
FairSpec == Spec /\ WF_vars(RecordStep \/ TermStep("record"))

-----------------------------------------------------------------------------
\* A process that was born and is not, or no longer, alive at the PID.
Over(p) == p < birth \/ (p = birth /\ occ # "live")

\* Whatever happens to the PID between the snapshot, the load of the evidence,
\* the pidfd, the verification and the signal: a signal only ever reaches the
\* process the evidence records.
SignalsOnlyRecorded == \A a \in Actors : hit[a] \subseteq {ev[a]}

\* Exit 74 (RecordFailureCleaned) may be trusted: the recorded httpd is dead and
\* neither its evidence nor a temporary file was left behind, whichever of the
\* publication, rollback and termination steps failed.
CleanedMeansQuiet ==
    rpc = "exit74" => Over(ev["record"]) /\ out # "mine" /\ ~temp

\* Success means published evidence of a process that really held the PID, and
\* no temporary file.
RecordedMeansPublished ==
    rpc = "exit0" => out = "mine" /\ ~temp /\ ev["record"] \in 1..birth

\* Another run's evidence survives every success and failure of record.
ForeignEvidenceKept == [][out = "foreign" => out' = "foreign"]_vars

\* terminate and verify-stopped succeed only when the recorded process is dead,
\* verify-stopped only when it was reaped as well.
StopIsTruthful ==
    /\ tpc["stop"] = "done" => Over(ev["stop"])
    /\ tpc["stop"] = "stopped" => ev["stop"] < birth \/ occ = "free"

\* record ends: every retry loop and every wait in it is bounded.
RecordEnds == <>(rpc \in {"exit0", "exit74", "exit77", "crash"})
=============================================================================
