------------------------ MODULE ApacheOwnershipProofs ------------------------
(***************************************************************************)
(* Proofs about ApacheOwnership, for every number of processes and         *)
(* attempts, and about the script that calls it: ApacheSmoke, for every    *)
(* number of signals.                                                      *)
(***************************************************************************)
EXTENDS ApacheOwnership, TLAPS

-----------------------------------------------------------------------------
(* TypeOK in two halves: the Boolean variables, and the others. *)

FlagsOK ==
    /\ apache \in BOOLEAN
    /\ members \in BOOLEAN
    /\ temp \in BOOLEAN
    /\ unstable \in BOOLEAN
    /\ published \in BOOLEAN
    /\ errors \in BOOLEAN

ValuesOK ==
    /\ birth \in 1..MaxBirth
    /\ occ \in {"live", "zombie", "free"}
    /\ port \in 0..MaxBirth \cup {Stranger}
    /\ out \in {"none", "mine", "foreign"}
    /\ rpc \in RecordPCs
    /\ attempt \in 0..Attempts
    /\ seen \in 0..MaxBirth
    /\ tpc \in [Actors -> TermPCs]
    /\ ev \in [Actors -> 0..MaxBirth]
    /\ inode \in [Actors -> 0..MaxBirth]
    /\ fd \in [Actors -> 0..MaxBirth]
    /\ hit \in [Actors -> SUBSET (1..MaxBirth)]
    /\ confirmed \in [Actors -> BOOLEAN]

\* An inspection only starts while an attempt is left.
RetryInv == rpc \in {"stat", "fds"} => attempt < Attempts

\* The two halves are the type invariant.
LEMMA TypeHalves == TypeOK <=> FlagsOK /\ ValuesOK
  BY Zenon DEF TypeOK, FlagsOK, ValuesOK

\* record starts in a well-typed state.
LEMMA TypeInit == Init => TypeOK
  <1>1. Init => FlagsOK
    BY DEF Init, FlagsOK
  <1>2. Init => ValuesOK
    BY OwnershipAssumption DEF Init, ValuesOK, RecordPCs, TermPCs, Actors
  <1>3. QED
    BY <1>1, <1>2, TypeHalves

\* Flags are only ever set to TRUE or FALSE.
LEMMA FlagsStep == FlagsOK /\ [Next]_vars => FlagsOK'
  <1> SUFFICES ASSUME FlagsOK, [Next]_vars
               PROVE  FlagsOK'
    OBVIOUS
  <1> USE DEF FlagsOK, ScanFails, MembersRemain, ListenerRemains, OwnsListener, envVars, recVars, termVars
  <1>1. CASE UNCHANGED vars
    BY <1>1 DEF vars
  <1>2. CASE RecordStep
    <2>1. CASE CaptureStat
      BY <2>1 DEF CaptureStat, InspectionFails
    <2>2. CASE CaptureFds
      BY <2>2 DEF CaptureFds, Captured, InspectionFails
    <2>3. CASE CreateTemp
      BY <2>3 DEF CreateTemp
    <2>4. CASE WriteTemp \/ LinkEvidence \/ UnlinkTemp
      BY <2>4 DEF WriteTemp, LinkEvidence, UnlinkTemp
    <2>5. CASE RollbackTemp \/ RollbackOutput \/ CheckAbsent
      BY <2>5 DEF RollbackTemp, RollbackOutput, CheckAbsent
    <2>6. CASE QuiescePort \/ QuiesceMembers
      BY <2>6 DEF QuiescePort, QuiesceMembers
    <2>7. QED
      BY <1>2, <2>1, <2>2, <2>3, <2>4, <2>5, <2>6 DEF RecordStep
  <1>3. ASSUME NEW a \in Actors, TermStep(a)
        PROVE  FlagsOK'
    <2>1. CASE OpenPidfd(a)
      BY <1>3, <2>1 DEF OpenPidfd, Refused
    <2>2. CASE VerifyIdentity(a) \/ VerifyListener(a)
      BY <1>3, <2>2 DEF VerifyIdentity, VerifyListener, Refused
    <2>3. CASE SendTerm(a)
      BY <1>3, <2>3 DEF SendTerm, Send
    <2>4. CASE SendKill(a)
      BY <1>3, <2>4 DEF SendKill, Send
    <2>5. CASE PollTerm(a) \/ PollKill(a)
      BY <1>3, <2>5 DEF PollTerm, PollKill, Refused
    <2>6. QED
      BY <1>3, <2>1, <2>2, <2>3, <2>4, <2>5 DEF TermStep
  <1>4. CASE StopCommand
    BY <1>4 DEF StopCommand, SignalDone, Terminate, VerifyStopped, LoadEvidence, At, StoppedProc,
                StoppedPort, StoppedMembers
  <1>5. CASE Environment
    BY <1>5 DEF Environment, Listen, Exit, MembersExit, StrangerCloses, Reap, ReusePid
  <1>6. QED
    BY <1>1, <1>2, <1>3, <1>4, <1>5 DEF Next

\* Every step of record, of a later command and of the system keeps the other
\* variables in range.
LEMMA ValuesStep == ValuesOK /\ RetryInv /\ [Next]_vars => (ValuesOK /\ RetryInv)'
  <1> SUFFICES ASSUME ValuesOK, RetryInv, [Next]_vars
               PROVE  (ValuesOK /\ RetryInv)'
    OBVIOUS
  <1> USE OwnershipAssumption
          DEF ValuesOK, RetryInv, RecordPCs, TermPCs, Actors, OwnsListener, ListenerRemains,
              MembersRemain, ScanFails, envVars, recVars, termVars
  <1>1. CASE UNCHANGED vars
    BY <1>1 DEF vars
  <1>2. CASE RecordStep
    <2>1. CASE CaptureStat
      BY <2>1 DEF CaptureStat, InspectionFails
    <2>2. CASE CaptureFds
      BY <2>2 DEF CaptureFds, Captured, InspectionFails
    <2>3. CASE CreateTemp
      BY <2>3 DEF CreateTemp
    <2>4. CASE WriteTemp \/ LinkEvidence \/ UnlinkTemp
      BY <2>4 DEF WriteTemp, LinkEvidence, UnlinkTemp
    <2>5. CASE RollbackTemp \/ RollbackOutput \/ CheckAbsent
      BY <2>5 DEF RollbackTemp, RollbackOutput, CheckAbsent
    <2>6. CASE QuiescePort \/ QuiesceMembers
      BY <2>6 DEF QuiescePort, QuiesceMembers
    <2>7. QED
      BY <1>2, <2>1, <2>2, <2>3, <2>4, <2>5, <2>6 DEF RecordStep
  <1>3. ASSUME NEW a \in Actors, TermStep(a)
        PROVE  (ValuesOK /\ RetryInv)'
    <2>1. CASE OpenPidfd(a)
      BY <1>3, <2>1 DEF OpenPidfd, Refused
    <2>2. CASE VerifyIdentity(a) \/ VerifyListener(a)
      BY <1>3, <2>2 DEF VerifyIdentity, VerifyListener, Refused
    <2>3. CASE SendTerm(a)
      BY <1>3, <2>3 DEF SendTerm, Send
    <2>4. CASE SendKill(a)
      BY <1>3, <2>4 DEF SendKill, Send
    <2>5. CASE PollTerm(a)
      <3>1. tpc' \in [Actors -> TermPCs]
        BY <2>5 DEF PollTerm
      <3>2. confirmed' \in [Actors -> BOOLEAN]
        BY <2>5 DEF PollTerm
      <3>3. QED
        BY <3>1, <3>2, <2>5 DEF PollTerm
    <2>6. CASE PollKill(a)
      <3>1. tpc' \in [Actors -> TermPCs]
        BY <2>6 DEF PollKill, Refused
      <3>2. confirmed' \in [Actors -> BOOLEAN]
        BY <2>6 DEF PollKill
      <3>3. QED
        BY <3>1, <3>2, <2>6 DEF PollKill
    <2>7. QED
      BY <1>3, <2>1, <2>2, <2>3, <2>4, <2>5, <2>6 DEF TermStep
  <1>4. CASE StopCommand
    BY <1>4 DEF StopCommand, SignalDone, Terminate, VerifyStopped, LoadEvidence, At, StoppedProc,
                StoppedPort, StoppedMembers
  <1>5. CASE Environment
    BY <1>5 DEF Environment, Listen, Exit, MembersExit, StrangerCloses, Reap, ReusePid
  <1>6. QED
    BY <1>1, <1>2, <1>3, <1>4, <1>5 DEF Next

\* Every step keeps the types.
LEMMA TypeStep == TypeOK /\ RetryInv /\ [Next]_vars => (TypeOK /\ RetryInv)'
  <1>1. TypeOK' <=> FlagsOK' /\ ValuesOK'
    BY Zenon DEF TypeOK, FlagsOK, ValuesOK
  <1>2. QED
    BY <1>1, TypeHalves, FlagsStep, ValuesStep

\* Every reachable state is well typed; in particular record never makes more
\* than RECORD_INSPECTION_ATTEMPTS inspections.
THEOREM TypeCorrect == Spec => []TypeOK
  <1>1. Init => TypeOK /\ RetryInv
    BY TypeInit, OwnershipAssumption DEF Init, RetryInv
  <1>2. QED
    BY <1>1, TypeStep, PTL DEF Spec

-----------------------------------------------------------------------------
(***************************************************************************)
(* The inductive invariant.  Births only grow, which is why a pidfd that   *)
(* is opened before the start time is compared is bound to the recorded    *)
(* process: recorded <= opened <= compared = recorded.                     *)
(***************************************************************************)

Before  == {"stat", "fds", "temp", "write", "link", "unlink", "rbtemp", "rbout", "absent"}
Bound   == {"listener", "term", "pollTerm", "kill", "pollKill"}
Unsent  == {"idle", "open", "identity", "listener", "term"}
Waiting == Unsent \cup {"pollTerm", "kill", "pollKill"}

\* Start times read or recorded are those of processes that have been born.
BirthInv ==
    /\ seen <= birth
    /\ rpc = "fds" => seen >= 1
    /\ rpc \in {"temp", "write", "link", "unlink", "exit0"} => ev["record"] >= 1
    /\ \A a \in Actors : ev[a] <= birth

\* The pidfd is bound to the recorded process once the identity is verified,
\* and until then to one that is not older.
PidfdInv ==
    \A a \in Actors :
        /\ tpc[a] = "identity" => ev[a] <= fd[a] /\ fd[a] <= birth
        /\ tpc[a] \in Bound => fd[a] = ev[a]
        /\ tpc[a] \in Unsent => hit[a] = {}
        /\ hit[a] \subseteq {ev[a]}
        /\ tpc[a] \in Waiting => ~confirmed[a]
        /\ confirmed[a] => Over(ev[a])

\* record terminates nothing before it has given up on its evidence, and what
\* the later command has concluded stays true.
ControlInv ==
    /\ rpc \in Before \cup {"exit0"} => tpc["record"] = "idle"
    /\ tpc["stop"] = "done" => confirmed["stop"]
    /\ tpc["stop"] \in {"vsPort", "vsMembers", "stopped"} => ev["stop"] < birth \/ occ = "free"
    /\ rpc = "exit74" => Over(ev["record"])

\* A file of record's own is either still to be dealt with or accounted for in
\* cleanup_errors.
FilesInv ==
    /\ temp => rpc \in {"write", "link", "unlink", "rbtemp"} \/ errors
    /\ out = "mine" =>
           (rpc \in {"unlink", "rbtemp", "rbout", "exit0"} /\ published) \/ errors
    /\ rpc \in {"unlink", "exit0"} => out = "mine"
    /\ rpc = "exit0" => ~temp
    /\ rpc = "exit74" => ~errors
    /\ published => out # "foreign"

OInv == TypeOK /\ RetryInv /\ BirthInv /\ PidfdInv /\ ControlInv /\ FilesInv

\* The invariant holds when record starts.
LEMMA InvInit == Init => OInv
  BY TypeInit, OwnershipAssumption
     DEF Init, OInv, RetryInv, BirthInv, PidfdInv, ControlInv, FilesInv, Before, Bound, Unsent, Waiting,
         Over, Actors

\* Every step keeps the invariant; one case per action or group of actions.
LEMMA InvStep == OInv /\ [Next]_vars => OInv'
  <1> SUFFICES ASSUME OInv, [Next]_vars
               PROVE  OInv'
    OBVIOUS
  <1>t. TypeOK /\ (TypeOK /\ RetryInv)'
    BY TypeStep DEF OInv
  <1> USE <1>t, OwnershipAssumption
          DEF OInv, BirthInv, PidfdInv, ControlInv, FilesInv, Before, Bound, Unsent, Waiting, Over,
              TypeOK, Actors, OwnsListener, ListenerRemains, MembersRemain, ScanFails, envVars,
              recVars, termVars
  <1>1. CASE UNCHANGED vars
    BY <1>1 DEF vars
  <1>2. CASE RecordStep
    <2>1. CASE CaptureStat
      BY <2>1 DEF CaptureStat, InspectionFails
    <2>2. CASE CaptureFds
      BY <2>2 DEF CaptureFds, Captured, InspectionFails
    <2>3. CASE CreateTemp
      BY <2>3 DEF CreateTemp
    <2>4. CASE WriteTemp
      BY <2>4 DEF WriteTemp
    <2>5. CASE LinkEvidence
      BY <2>5 DEF LinkEvidence
    <2>6. CASE UnlinkTemp
      BY <2>6 DEF UnlinkTemp
    <2>7. CASE RollbackTemp
      BY <2>7 DEF RollbackTemp
    <2>8. CASE RollbackOutput
      BY <2>8 DEF RollbackOutput
    <2>9. CASE CheckAbsent
      BY <2>9 DEF CheckAbsent
    <2>10. CASE QuiescePort
      BY <2>10 DEF QuiescePort
    <2>11. CASE QuiesceMembers
      BY <2>11 DEF QuiesceMembers
    <2>12. QED
      BY <1>2, <2>1, <2>2, <2>3, <2>4, <2>5, <2>6, <2>7, <2>8, <2>9, <2>10, <2>11 DEF RecordStep
  <1>3. ASSUME NEW a \in Actors, TermStep(a)
        PROVE  OInv'
    <2>1. CASE OpenPidfd(a)
      BY <2>1 DEF OpenPidfd, Refused
    <2>2. CASE VerifyIdentity(a)
      BY <2>2 DEF VerifyIdentity, Refused
    <2>3. CASE VerifyListener(a)
      BY <2>3 DEF VerifyListener, Refused
    <2>4. CASE SendTerm(a)
      BY <2>4 DEF SendTerm, Send
    <2>5. CASE SendKill(a)
      BY <2>5 DEF SendKill, Send
    <2>6. CASE PollTerm(a)
      BY <2>6 DEF PollTerm, Exited
    <2>7. CASE PollKill(a)
      BY <2>7 DEF PollKill, Exited, Refused
    <2>8. QED
      BY <1>3, <2>1, <2>2, <2>3, <2>4, <2>5, <2>6, <2>7 DEF TermStep
  <1>4. CASE StopCommand
    <2>1. CASE SignalDone
      BY <2>1 DEF SignalDone, At
    <2>2. CASE Terminate \/ VerifyStopped
      BY <2>2 DEF Terminate, VerifyStopped, LoadEvidence, At
    <2>3. CASE StoppedProc \/ StoppedPort \/ StoppedMembers
      BY <2>3 DEF StoppedProc, StoppedPort, StoppedMembers
    <2>4. QED
      BY <1>4, <2>1, <2>2, <2>3 DEF StopCommand
  <1>5. CASE Environment
    <2>1. CASE Listen \/ MembersExit \/ StrangerCloses
      BY <2>1 DEF Listen, MembersExit, StrangerCloses
    <2>2. CASE Exit \/ Reap
      BY <2>2 DEF Exit, Reap
    <2>3. CASE ReusePid
      BY <2>3 DEF ReusePid
    <2>4. QED
      BY <1>5, <2>1, <2>2, <2>3 DEF Environment
  <1>6. QED
    BY <1>1, <1>2, <1>3, <1>4, <1>5 DEF Next

\* The inductive invariant holds in every reachable state.
LEMMA Invariance == Spec => []OInv
  BY InvInit, InvStep, PTL DEF Spec

\* A signal reaches the recorded process or nobody, whatever happens to the PID.
THEOREM SignalTheorem == Spec => []SignalsOnlyRecorded
  <1>1. OInv => SignalsOnlyRecorded
    BY DEF OInv, PidfdInv, SignalsOnlyRecorded
  <1>2. QED
    BY <1>1, Invariance, PTL

\* Exit 74 implies that the recorded httpd is dead and that no evidence and no
\* temporary file of this record is left.
THEOREM CleanedTheorem == Spec => []CleanedMeansQuiet
  <1>1. OInv => CleanedMeansQuiet
    BY DEF OInv, ControlInv, FilesInv, CleanedMeansQuiet
  <1>2. QED
    BY <1>1, Invariance, PTL

\* Exit 0 of record implies published evidence of a process of the PID.
THEOREM RecordedTheorem == Spec => []RecordedMeansPublished
  <1>1. OInv => RecordedMeansPublished
    BY OwnershipAssumption
       DEF OInv, TypeOK, BirthInv, FilesInv, RecordedMeansPublished, Actors
  <1>2. QED
    BY <1>1, Invariance, PTL

\* terminate and verify-stopped report success only for a dead process.
THEOREM StopTheorem == Spec => []StopIsTruthful
  <1>1. OInv => StopIsTruthful
    BY DEF OInv, PidfdInv, ControlInv, StopIsTruthful, Actors
  <1>2. QED
    BY <1>1, Invariance, PTL

\* No step of record, of its rollback or of a later command replaces or removes
\* evidence that another run published.
THEOREM ForeignTheorem == Spec => ForeignEvidenceKept
  <1>1. OInv /\ [Next]_vars => [out = "foreign" => out' = "foreign"]_vars
    <2> SUFFICES ASSUME OInv, Next, out = "foreign"
                 PROVE  out' = "foreign"
      OBVIOUS
    <2> USE DEF envVars, recVars, termVars
    <2>1. CASE RecordStep
      BY <2>1 DEF RecordStep, OInv, FilesInv, CaptureStat, CaptureFds, CreateTemp, WriteTemp,
                  LinkEvidence, UnlinkTemp, RollbackTemp, RollbackOutput, CheckAbsent,
                  QuiescePort, QuiesceMembers
    <2>2. ASSUME NEW a \in Actors, TermStep(a)
          PROVE  out' = "foreign"
      BY <2>2 DEF TermStep, OpenPidfd, VerifyIdentity, VerifyListener, SendTerm, SendKill,
                  PollTerm, PollKill
    <2>3. CASE StopCommand
      BY <2>3 DEF StopCommand, SignalDone, Terminate, VerifyStopped, LoadEvidence, StoppedProc,
                  StoppedPort, StoppedMembers
    <2>4. CASE Environment
      BY <2>4 DEF Environment, Listen, Exit, MembersExit, StrangerCloses, Reap, ReusePid
    <2>5. QED
      BY <2>1, <2>2, <2>3, <2>4 DEF Next
  <1>2. QED
    BY <1>1, Invariance, PTL DEF Spec, ForeignEvidenceKept

-----------------------------------------------------------------------------
(***************************************************************************)
(* The smoke script around the guard: ApacheSmoke, whose variables are     *)
(* declared here.  Any number of signals may arrive, and the supervisor    *)
(* may be killed at any step.                                              *)
(***************************************************************************)
CONSTANTS Profiles, MaxSignals, SupervisorFaults
VARIABLES sh, cont, rc, crc, traps, profile, final, spid, hpid, hevid, cleaned, bpid, tracked,
          sup, bound, httpd, old, state, pidout, evidence, pidfile, helper, receipt, result,
          refuted, sigs

Smoke == INSTANCE ApacheSmoke

\* The main line before and after the traps are installed, and the cleanup once
\* it has waited for the supervisor.
Startup == {"retire", "stale", "staleVerify", "evidence", "helper", "traps"}
Session == {"launch", "spid", "waitPid", "ready", "record", "request", "assert"}
AfterWait == {"c_proof", "c_backend", "c_backendKill", "c_files", "c_receipt", "c_done"}

\* The run has evidence for its httpd, and record did not fail.
Recorded == hevid = TRUE /\ spid = TRUE /\ cleaned = FALSE

\* The traps and the continuation fit the command; a state file that an earlier
\* run has left, or its evidence, ends the script before there are any traps.
ShellInv ==
  /\ sh \in Startup => traps = "none"
  /\ sh \in Session => traps = "all"
  /\ sh \in Startup \cup Session => cont = "none"
  /\ sh \in {"unfinal", "untrap", "publish"} => cont = "final"
  /\ cont = "signal" => rc = "signal"
  /\ (traps # "none" \/ sh \notin {"retire", "exited"}) => state # "stale"
OldEvidenceInv ==
  (traps # "none" \/ sh \notin {"retire", "stale", "staleVerify", "evidence", "exited"})
    => evidence # "old"

\* What the shell variables say of where the script has been.  A final cleanup,
\* and one on the way to status 0, is that of a recorded httpd, or there was
\* never a supervisor.
FlagsInv ==
  /\ sh \in Startup \cup Session => final = FALSE /\ receipt = FALSE /\ cleaned = FALSE
  /\ sh \in Startup \cup {"launch"} => sup = "none"
  /\ sh \in {"waitPid", "ready", "record", "request", "assert"} => spid = TRUE
  /\ sh \in {"request", "assert"} => hevid = TRUE
  /\ sh \in {"unfinal", "untrap", "publish"} => final = TRUE
  /\ sh \in Smoke!CleanupPCs /\ cont = "final" => final = TRUE
  /\ final = TRUE => Recorded
  /\ sh \in Smoke!CleanupPCs /\ cont = "exit" /\ rc = "0" => Recorded \/ sup = "none"

\* A final cleanup that has not failed has published the receipt.
ResultInv ==
  /\ sh \in {"untrap", "publish"} => receipt = TRUE
  /\ sh = "c_done" /\ cont = "final" /\ crc = FALSE => receipt = TRUE

\* The supervisor's progress, its httpd and its two files.
SessionInv ==
  /\ sup = "none" => httpd = "none" /\ state # "mine" /\ pidout = FALSE
  /\ sup # "none" => state # "stale"
  /\ sup \in {"launched", "starting"} => httpd = "none" /\ state = "none" /\ pidout = FALSE
  /\ sup \in {"leaving", "left"} => httpd = "gone"
  /\ sup = "dead" => httpd # "running"

\* Unless a signal has made cleanup start again, a helper that runs is one that
\* a variable of the shell still names.
HelperInv == cont # "signal" =>
  /\ sh \in {"retire", "stale", "staleVerify", "evidence", "helper"} => helper = "none"
  /\ sh \in {"traps", "c_sync"} \cup Session /\ helper \in {"backend", "sync"} => bpid = TRUE
  /\ sh = "c_syncKill" /\ helper = "sync" => tracked = TRUE
  /\ sh \in Smoke!CleanupPCs \ {"c_sync", "c_syncKill"} => helper # "sync"
  /\ sh \in Smoke!CleanupPCs \ {"c_backendKill", "c_files", "c_receipt", "c_done"}
       /\ helper = "backend" => bpid = TRUE
  /\ sh = "c_backendKill" /\ helper = "backend" => tracked = TRUE
  /\ sh \in {"c_files", "c_receipt", "c_done", "unfinal", "untrap", "publish"}
       => helper \in {"none", "gone"}

\* What a cleanup without a failure has established so far.
ProvenInv == Recorded /\ crc = FALSE =>
  /\ sh \in AfterWait => sup = "dead"
  /\ sh \in AfterWait \ {"c_proof"} => httpd = "gone"
  /\ sh \in {"c_receipt", "c_done"} => state = "none" /\ pidout = FALSE

HInv ==
  /\ Smoke!TypeOK /\ ShellInv /\ OldEvidenceInv /\ FlagsInv /\ ResultInv /\ SessionInv
  /\ HelperInv /\ ProvenInv
  /\ Smoke!ReceiptSound /\ Smoke!ExitZeroClean /\ Smoke!PassNeedsReceipt

\* TypeOK in four parts: the shell, the world and what is reported, the flags of
\* the shell, the files.
ShellType ==
  /\ sh \in Smoke!MainPCs \cup Smoke!CleanupPCs \cup {"exited"}
  /\ cont \in {"none", "exit", "signal", "final", "retry"}
  /\ rc \in Smoke!Codes \cup {"none"}
  /\ traps \in {"none", "all", "hup"}
  /\ sigs \in 0..MaxSignals
WorldType ==
  /\ sup \in {"none", "launched", "starting", "forked", "published", "up", "leaving", "left",
              "dead"}
  /\ httpd \in {"none", "running", "zombie", "gone"}
  /\ old \in {"none", "running", "zombie", "gone"}
  /\ state \in {"none", "stale", "mine"}
  /\ evidence \in {"none", "old", "mine"}
  /\ helper \in {"none", "backend", "sync", "gone"}
  /\ result \in {"none", "pass", "fail"}
ShellFlagsType ==
  /\ crc \in BOOLEAN /\ profile \in BOOLEAN /\ final \in BOOLEAN
  /\ spid \in BOOLEAN /\ hpid \in BOOLEAN /\ hevid \in BOOLEAN /\ cleaned \in BOOLEAN
  /\ bpid \in BOOLEAN /\ tracked \in BOOLEAN
FileFlagsType ==
  /\ bound \in BOOLEAN /\ pidout \in BOOLEAN /\ pidfile \in BOOLEAN
  /\ receipt \in BOOLEAN /\ refuted \in BOOLEAN

LEMMA SmokeTypeParts ==
  Smoke!TypeOK <=> ShellType /\ WorldType /\ ShellFlagsType /\ FileFlagsType
  BY DEF Smoke!TypeOK, ShellType, WorldType, ShellFlagsType, FileFlagsType

\* Every step keeps the types of the enumerated variables ...
LEMMA EnumTypeStep ==
  ASSUME Smoke!Next, MaxSignals \in Nat, ShellType, WorldType
  PROVE  ShellType' /\ WorldType'
  <1> USE DEF ShellType, WorldType, Smoke!CleanupPCs, Smoke!MainPCs, Smoke!Codes, Smoke!At,
      Smoke!CallCleanup, Smoke!Exit, Smoke!OldStopped, Smoke!StartsHelper, Smoke!RecordExits,
      Smoke!Keep, Smoke!ForgetPid, Smoke!KillTracked, Smoke!NoProof, Smoke!ExitAfterCleanup,
      Smoke!Others, Smoke!varsExit, Smoke!varsFlags, Smoke!varsShell, Smoke!varsWorld,
      Smoke!varsOut
  <1>1. CASE Smoke!RetireSession BY <1>1 DEF Smoke!RetireSession
  <1>2. CASE Smoke!StopStale BY <1>2 DEF Smoke!StopStale
  <1>3. CASE Smoke!StaleVerify BY <1>3 DEF Smoke!StaleVerify
  <1>4. CASE Smoke!RetireEvidence BY <1>4 DEF Smoke!RetireEvidence
  <1>5. CASE Smoke!StartBackend BY <1>5 DEF Smoke!StartBackend
  <1>6. CASE Smoke!StartSynchronized BY <1>6 DEF Smoke!StartSynchronized
  <1>7. CASE Smoke!InstallTraps BY <1>7 DEF Smoke!InstallTraps
  <1>8. CASE Smoke!Launch BY <1>8 DEF Smoke!Launch
  <1>9. CASE Smoke!SetSupervisorPid BY <1>9 DEF Smoke!SetSupervisorPid
  <1>10. CASE Smoke!WaitPidOutput BY <1>10 DEF Smoke!WaitPidOutput
  <1>11. CASE Smoke!WaitReady BY <1>11 DEF Smoke!WaitReady
  <1>12. CASE Smoke!Record BY <1>12 DEF Smoke!Record
  <1>13. CASE Smoke!StageEnds BY <1>13 DEF Smoke!StageEnds
  <1>14. CASE Smoke!Phase4Request BY <1>14 DEF Smoke!Phase4Request
  <1>15. CASE Smoke!SynchronizedRequest BY <1>15 DEF Smoke!SynchronizedRequest
  <1>16. CASE Smoke!SendRequest BY <1>16 DEF Smoke!SendRequest
  <1>17. CASE Smoke!AssertCase BY <1>17 DEF Smoke!AssertCase
  <1>18. CASE Smoke!DisableFinal BY <1>18 DEF Smoke!DisableFinal
  <1>19. CASE Smoke!Untrap BY <1>19 DEF Smoke!Untrap
  <1>20. CASE Smoke!PublishResult BY <1>20 DEF Smoke!PublishResult
  <1>21. CASE Smoke!CleanupForgetSync BY <1>21 DEF Smoke!CleanupForgetSync
  <1>22. CASE Smoke!CleanupKillSync BY <1>22 DEF Smoke!CleanupKillSync
  <1>23. CASE Smoke!CleanupBranch BY <1>23 DEF Smoke!CleanupBranch
  <1>24. CASE Smoke!CleanupStop BY <1>24 DEF Smoke!CleanupStop
  <1>25. CASE Smoke!CleanupVerifyRunning BY <1>25 DEF Smoke!CleanupVerifyRunning
  <1>26. CASE Smoke!CleanupTerminate BY <1>26 DEF Smoke!CleanupTerminate
  <1>27. CASE Smoke!CleanupWait BY <1>27 DEF Smoke!CleanupWait
  <1>28. CASE Smoke!CleanupProof BY <1>28 DEF Smoke!CleanupProof
  <1>29. CASE Smoke!CleanupForgetBackend BY <1>29 DEF Smoke!CleanupForgetBackend
  <1>30. CASE Smoke!CleanupKillBackend BY <1>30 DEF Smoke!CleanupKillBackend
  <1>31. CASE Smoke!CleanupFiles BY <1>31 DEF Smoke!CleanupFiles
  <1>32. CASE Smoke!CleanupReceipt BY <1>32 DEF Smoke!CleanupReceipt
  <1>33. CASE Smoke!CleanupReturns BY <1>33 DEF Smoke!CleanupReturns
  <1>34. CASE Smoke!SupReadsRunner BY <1>34 DEF Smoke!SupReadsRunner
  <1>35. CASE Smoke!SupForks BY <1>35 DEF Smoke!SupForks
  <1>36. CASE Smoke!SupPublishes BY <1>36 DEF Smoke!SupPublishes
  <1>37. CASE Smoke!SupFails BY <1>37 DEF Smoke!SupFails
  <1>38. CASE Smoke!SupEndsSession BY <1>38 DEF Smoke!SupEndsSession
  <1>39. CASE Smoke!SupWithdraws BY <1>39 DEF Smoke!SupWithdraws
  <1>40. CASE Smoke!SignalShell BY <1>40 DEF Smoke!SignalShell
  <1>41. CASE Smoke!SupKilled BY <1>41 DEF Smoke!SupKilled
  <1>42. CASE Smoke!HttpdExits BY <1>42 DEF Smoke!HttpdExits
  <1>43. CASE Smoke!InitReaps BY <1>43 DEF Smoke!InitReaps
  <1> QED BY <1>1, <1>2, <1>3, <1>4, <1>5, <1>6, <1>7, <1>8, <1>9, <1>10, <1>11, <1>12, <1>13,
    <1>14, <1>15, <1>16, <1>17, <1>18, <1>19, <1>20, <1>21, <1>22, <1>23, <1>24, <1>25, <1>26,
    <1>27, <1>28, <1>29, <1>30, <1>31, <1>32, <1>33, <1>34, <1>35, <1>36, <1>37, <1>38, <1>39,
    <1>40, <1>41, <1>42, <1>43
    DEF Smoke!Next, Smoke!MainStep, Smoke!CleanupStep, Smoke!SupervisorStep

\* ... of the shell's flags ...
LEMMA ShellFlagsStep ==
  ASSUME Smoke!Next, ShellFlagsType
  PROVE  ShellFlagsType'
  <1> USE DEF ShellFlagsType, Smoke!At, Smoke!CallCleanup, Smoke!Exit, Smoke!OldStopped,
      Smoke!StartsHelper, Smoke!RecordExits, Smoke!Keep, Smoke!ForgetPid, Smoke!KillTracked,
      Smoke!NoProof, Smoke!ExitAfterCleanup, Smoke!Others, Smoke!varsExit, Smoke!varsFlags,
      Smoke!varsShell, Smoke!varsWorld, Smoke!varsOut
  <1>1. CASE Smoke!RetireSession BY <1>1 DEF Smoke!RetireSession
  <1>2. CASE Smoke!StopStale BY <1>2 DEF Smoke!StopStale
  <1>3. CASE Smoke!StaleVerify BY <1>3 DEF Smoke!StaleVerify
  <1>4. CASE Smoke!RetireEvidence BY <1>4 DEF Smoke!RetireEvidence
  <1>5. CASE Smoke!StartBackend BY <1>5 DEF Smoke!StartBackend
  <1>6. CASE Smoke!StartSynchronized BY <1>6 DEF Smoke!StartSynchronized
  <1>7. CASE Smoke!InstallTraps BY <1>7 DEF Smoke!InstallTraps
  <1>8. CASE Smoke!Launch BY <1>8 DEF Smoke!Launch
  <1>9. CASE Smoke!SetSupervisorPid BY <1>9 DEF Smoke!SetSupervisorPid
  <1>10. CASE Smoke!WaitPidOutput BY <1>10 DEF Smoke!WaitPidOutput
  <1>11. CASE Smoke!WaitReady BY <1>11 DEF Smoke!WaitReady
  <1>12. CASE Smoke!Record BY <1>12 DEF Smoke!Record
  <1>13. CASE Smoke!StageEnds BY <1>13 DEF Smoke!StageEnds
  <1>14. CASE Smoke!Phase4Request BY <1>14 DEF Smoke!Phase4Request
  <1>15. CASE Smoke!SynchronizedRequest BY <1>15 DEF Smoke!SynchronizedRequest
  <1>16. CASE Smoke!SendRequest BY <1>16 DEF Smoke!SendRequest
  <1>17. CASE Smoke!AssertCase BY <1>17 DEF Smoke!AssertCase
  <1>18. CASE Smoke!DisableFinal BY <1>18 DEF Smoke!DisableFinal
  <1>19. CASE Smoke!Untrap BY <1>19 DEF Smoke!Untrap
  <1>20. CASE Smoke!PublishResult BY <1>20 DEF Smoke!PublishResult
  <1>21. CASE Smoke!CleanupForgetSync BY <1>21 DEF Smoke!CleanupForgetSync
  <1>22. CASE Smoke!CleanupKillSync BY <1>22 DEF Smoke!CleanupKillSync
  <1>23. CASE Smoke!CleanupBranch BY <1>23 DEF Smoke!CleanupBranch
  <1>24. CASE Smoke!CleanupStop BY <1>24 DEF Smoke!CleanupStop
  <1>25. CASE Smoke!CleanupVerifyRunning BY <1>25 DEF Smoke!CleanupVerifyRunning
  <1>26. CASE Smoke!CleanupTerminate BY <1>26 DEF Smoke!CleanupTerminate
  <1>27. CASE Smoke!CleanupWait BY <1>27 DEF Smoke!CleanupWait
  <1>28. CASE Smoke!CleanupProof BY <1>28 DEF Smoke!CleanupProof
  <1>29. CASE Smoke!CleanupForgetBackend BY <1>29 DEF Smoke!CleanupForgetBackend
  <1>30. CASE Smoke!CleanupKillBackend BY <1>30 DEF Smoke!CleanupKillBackend
  <1>31. CASE Smoke!CleanupFiles BY <1>31 DEF Smoke!CleanupFiles
  <1>32. CASE Smoke!CleanupReceipt BY <1>32 DEF Smoke!CleanupReceipt
  <1>33. CASE Smoke!CleanupReturns BY <1>33 DEF Smoke!CleanupReturns
  <1>34. CASE Smoke!SupReadsRunner BY <1>34 DEF Smoke!SupReadsRunner
  <1>35. CASE Smoke!SupForks BY <1>35 DEF Smoke!SupForks
  <1>36. CASE Smoke!SupPublishes BY <1>36 DEF Smoke!SupPublishes
  <1>37. CASE Smoke!SupFails BY <1>37 DEF Smoke!SupFails
  <1>38. CASE Smoke!SupEndsSession BY <1>38 DEF Smoke!SupEndsSession
  <1>39. CASE Smoke!SupWithdraws BY <1>39 DEF Smoke!SupWithdraws
  <1>40. CASE Smoke!SignalShell BY <1>40 DEF Smoke!SignalShell
  <1>41. CASE Smoke!SupKilled BY <1>41 DEF Smoke!SupKilled
  <1>42. CASE Smoke!HttpdExits BY <1>42 DEF Smoke!HttpdExits
  <1>43. CASE Smoke!InitReaps BY <1>43 DEF Smoke!InitReaps
  <1> QED BY <1>1, <1>2, <1>3, <1>4, <1>5, <1>6, <1>7, <1>8, <1>9, <1>10, <1>11, <1>12, <1>13,
    <1>14, <1>15, <1>16, <1>17, <1>18, <1>19, <1>20, <1>21, <1>22, <1>23, <1>24, <1>25, <1>26,
    <1>27, <1>28, <1>29, <1>30, <1>31, <1>32, <1>33, <1>34, <1>35, <1>36, <1>37, <1>38, <1>39,
    <1>40, <1>41, <1>42, <1>43
    DEF Smoke!Next, Smoke!MainStep, Smoke!CleanupStep, Smoke!SupervisorStep

\* ... and of the flags that stand for files.
LEMMA FileFlagsStep ==
  ASSUME Smoke!Next, FileFlagsType
  PROVE  FileFlagsType'
  <1> USE DEF FileFlagsType, Smoke!At, Smoke!CallCleanup, Smoke!Exit, Smoke!OldStopped,
      Smoke!StartsHelper, Smoke!RecordExits, Smoke!Keep, Smoke!ForgetPid, Smoke!KillTracked,
      Smoke!NoProof, Smoke!ExitAfterCleanup, Smoke!Others, Smoke!varsExit, Smoke!varsFlags,
      Smoke!varsShell, Smoke!varsWorld, Smoke!varsOut
  <1>1. CASE Smoke!RetireSession BY <1>1 DEF Smoke!RetireSession
  <1>2. CASE Smoke!StopStale BY <1>2 DEF Smoke!StopStale
  <1>3. CASE Smoke!StaleVerify BY <1>3 DEF Smoke!StaleVerify
  <1>4. CASE Smoke!RetireEvidence BY <1>4 DEF Smoke!RetireEvidence
  <1>5. CASE Smoke!StartBackend BY <1>5 DEF Smoke!StartBackend
  <1>6. CASE Smoke!StartSynchronized BY <1>6 DEF Smoke!StartSynchronized
  <1>7. CASE Smoke!InstallTraps BY <1>7 DEF Smoke!InstallTraps
  <1>8. CASE Smoke!Launch BY <1>8 DEF Smoke!Launch
  <1>9. CASE Smoke!SetSupervisorPid BY <1>9 DEF Smoke!SetSupervisorPid
  <1>10. CASE Smoke!WaitPidOutput BY <1>10 DEF Smoke!WaitPidOutput
  <1>11. CASE Smoke!WaitReady BY <1>11 DEF Smoke!WaitReady
  <1>12. CASE Smoke!Record BY <1>12 DEF Smoke!Record
  <1>13. CASE Smoke!StageEnds BY <1>13 DEF Smoke!StageEnds
  <1>14. CASE Smoke!Phase4Request BY <1>14 DEF Smoke!Phase4Request
  <1>15. CASE Smoke!SynchronizedRequest BY <1>15 DEF Smoke!SynchronizedRequest
  <1>16. CASE Smoke!SendRequest BY <1>16 DEF Smoke!SendRequest
  <1>17. CASE Smoke!AssertCase BY <1>17 DEF Smoke!AssertCase
  <1>18. CASE Smoke!DisableFinal BY <1>18 DEF Smoke!DisableFinal
  <1>19. CASE Smoke!Untrap BY <1>19 DEF Smoke!Untrap
  <1>20. CASE Smoke!PublishResult BY <1>20 DEF Smoke!PublishResult
  <1>21. CASE Smoke!CleanupForgetSync BY <1>21 DEF Smoke!CleanupForgetSync
  <1>22. CASE Smoke!CleanupKillSync BY <1>22 DEF Smoke!CleanupKillSync
  <1>23. CASE Smoke!CleanupBranch BY <1>23 DEF Smoke!CleanupBranch
  <1>24. CASE Smoke!CleanupStop BY <1>24 DEF Smoke!CleanupStop
  <1>25. CASE Smoke!CleanupVerifyRunning BY <1>25 DEF Smoke!CleanupVerifyRunning
  <1>26. CASE Smoke!CleanupTerminate BY <1>26 DEF Smoke!CleanupTerminate
  <1>27. CASE Smoke!CleanupWait BY <1>27 DEF Smoke!CleanupWait
  <1>28. CASE Smoke!CleanupProof BY <1>28 DEF Smoke!CleanupProof
  <1>29. CASE Smoke!CleanupForgetBackend BY <1>29 DEF Smoke!CleanupForgetBackend
  <1>30. CASE Smoke!CleanupKillBackend BY <1>30 DEF Smoke!CleanupKillBackend
  <1>31. CASE Smoke!CleanupFiles BY <1>31 DEF Smoke!CleanupFiles
  <1>32. CASE Smoke!CleanupReceipt BY <1>32 DEF Smoke!CleanupReceipt
  <1>33. CASE Smoke!CleanupReturns BY <1>33 DEF Smoke!CleanupReturns
  <1>34. CASE Smoke!SupReadsRunner BY <1>34 DEF Smoke!SupReadsRunner
  <1>35. CASE Smoke!SupForks BY <1>35 DEF Smoke!SupForks
  <1>36. CASE Smoke!SupPublishes BY <1>36 DEF Smoke!SupPublishes
  <1>37. CASE Smoke!SupFails BY <1>37 DEF Smoke!SupFails
  <1>38. CASE Smoke!SupEndsSession BY <1>38 DEF Smoke!SupEndsSession
  <1>39. CASE Smoke!SupWithdraws BY <1>39 DEF Smoke!SupWithdraws
  <1>40. CASE Smoke!SignalShell BY <1>40 DEF Smoke!SignalShell
  <1>41. CASE Smoke!SupKilled BY <1>41 DEF Smoke!SupKilled
  <1>42. CASE Smoke!HttpdExits BY <1>42 DEF Smoke!HttpdExits
  <1>43. CASE Smoke!InitReaps BY <1>43 DEF Smoke!InitReaps
  <1> QED BY <1>1, <1>2, <1>3, <1>4, <1>5, <1>6, <1>7, <1>8, <1>9, <1>10, <1>11, <1>12, <1>13,
    <1>14, <1>15, <1>16, <1>17, <1>18, <1>19, <1>20, <1>21, <1>22, <1>23, <1>24, <1>25, <1>26,
    <1>27, <1>28, <1>29, <1>30, <1>31, <1>32, <1>33, <1>34, <1>35, <1>36, <1>37, <1>38, <1>39,
    <1>40, <1>41, <1>42, <1>43
    DEF Smoke!Next, Smoke!MainStep, Smoke!CleanupStep, Smoke!SupervisorStep

\* The script's own part of the invariant.
LEMMA ShellStep ==
  ASSUME Smoke!Next, Smoke!TypeOK, ShellInv, OldEvidenceInv, FlagsInv, ResultInv
  PROVE  ShellInv' /\ OldEvidenceInv' /\ FlagsInv' /\ ResultInv'
  <1> USE DEF ShellInv, OldEvidenceInv, FlagsInv, ResultInv, Recorded, Startup, Session,
      Smoke!CleanupPCs, Smoke!TypeOK, Smoke!At, Smoke!CallCleanup, Smoke!Exit, Smoke!OldStopped,
      Smoke!StartsHelper, Smoke!RecordExits, Smoke!Keep, Smoke!ForgetPid, Smoke!KillTracked,
      Smoke!NoProof, Smoke!ExitAfterCleanup, Smoke!Others, Smoke!varsExit, Smoke!varsFlags,
      Smoke!varsShell, Smoke!varsWorld, Smoke!varsOut
  <1>1. CASE Smoke!RetireSession BY <1>1 DEF Smoke!RetireSession
  <1>2. CASE Smoke!StopStale BY <1>2 DEF Smoke!StopStale
  <1>3. CASE Smoke!StaleVerify BY <1>3 DEF Smoke!StaleVerify
  <1>4. CASE Smoke!RetireEvidence BY <1>4 DEF Smoke!RetireEvidence
  <1>5. CASE Smoke!StartBackend BY <1>5 DEF Smoke!StartBackend
  <1>6. CASE Smoke!StartSynchronized BY <1>6 DEF Smoke!StartSynchronized
  <1>7. CASE Smoke!InstallTraps BY <1>7 DEF Smoke!InstallTraps
  <1>8. CASE Smoke!Launch BY <1>8 DEF Smoke!Launch
  <1>9. CASE Smoke!SetSupervisorPid BY <1>9 DEF Smoke!SetSupervisorPid
  <1>10. CASE Smoke!WaitPidOutput BY <1>10 DEF Smoke!WaitPidOutput
  <1>11. CASE Smoke!WaitReady BY <1>11 DEF Smoke!WaitReady
  <1>12. CASE Smoke!Record BY <1>12 DEF Smoke!Record
  <1>13. CASE Smoke!StageEnds BY <1>13 DEF Smoke!StageEnds
  <1>14. CASE Smoke!Phase4Request BY <1>14 DEF Smoke!Phase4Request
  <1>15. CASE Smoke!SynchronizedRequest BY <1>15 DEF Smoke!SynchronizedRequest
  <1>16. CASE Smoke!SendRequest BY <1>16 DEF Smoke!SendRequest
  <1>17. CASE Smoke!AssertCase BY <1>17 DEF Smoke!AssertCase
  <1>18. CASE Smoke!DisableFinal BY <1>18 DEF Smoke!DisableFinal
  <1>19. CASE Smoke!Untrap BY <1>19 DEF Smoke!Untrap
  <1>20. CASE Smoke!PublishResult BY <1>20 DEF Smoke!PublishResult
  <1>21. CASE Smoke!CleanupForgetSync BY <1>21 DEF Smoke!CleanupForgetSync
  <1>22. CASE Smoke!CleanupKillSync BY <1>22 DEF Smoke!CleanupKillSync
  <1>23. CASE Smoke!CleanupBranch BY <1>23 DEF Smoke!CleanupBranch
  <1>24. CASE Smoke!CleanupStop BY <1>24 DEF Smoke!CleanupStop
  <1>25. CASE Smoke!CleanupVerifyRunning BY <1>25 DEF Smoke!CleanupVerifyRunning
  <1>26. CASE Smoke!CleanupTerminate BY <1>26 DEF Smoke!CleanupTerminate
  <1>27. CASE Smoke!CleanupWait BY <1>27 DEF Smoke!CleanupWait
  <1>28. CASE Smoke!CleanupProof BY <1>28 DEF Smoke!CleanupProof
  <1>29. CASE Smoke!CleanupForgetBackend BY <1>29 DEF Smoke!CleanupForgetBackend
  <1>30. CASE Smoke!CleanupKillBackend BY <1>30 DEF Smoke!CleanupKillBackend
  <1>31. CASE Smoke!CleanupFiles BY <1>31 DEF Smoke!CleanupFiles
  <1>32. CASE Smoke!CleanupReceipt BY <1>32 DEF Smoke!CleanupReceipt
  <1>33. CASE Smoke!CleanupReturns BY <1>33 DEF Smoke!CleanupReturns
  <1>34. CASE Smoke!SupReadsRunner BY <1>34 DEF Smoke!SupReadsRunner
  <1>35. CASE Smoke!SupForks BY <1>35 DEF Smoke!SupForks
  <1>36. CASE Smoke!SupPublishes BY <1>36 DEF Smoke!SupPublishes
  <1>37. CASE Smoke!SupFails BY <1>37 DEF Smoke!SupFails
  <1>38. CASE Smoke!SupEndsSession BY <1>38 DEF Smoke!SupEndsSession
  <1>39. CASE Smoke!SupWithdraws BY <1>39 DEF Smoke!SupWithdraws
  <1>40. CASE Smoke!SignalShell BY <1>40 DEF Smoke!SignalShell
  <1>41. CASE Smoke!SupKilled BY <1>41 DEF Smoke!SupKilled
  <1>42. CASE Smoke!HttpdExits BY <1>42 DEF Smoke!HttpdExits
  <1>43. CASE Smoke!InitReaps BY <1>43 DEF Smoke!InitReaps
  <1> QED BY <1>1, <1>2, <1>3, <1>4, <1>5, <1>6, <1>7, <1>8, <1>9, <1>10, <1>11, <1>12, <1>13,
    <1>14, <1>15, <1>16, <1>17, <1>18, <1>19, <1>20, <1>21, <1>22, <1>23, <1>24, <1>25, <1>26,
    <1>27, <1>28, <1>29, <1>30, <1>31, <1>32, <1>33, <1>34, <1>35, <1>36, <1>37, <1>38, <1>39,
    <1>40, <1>41, <1>42, <1>43
    DEF Smoke!Next, Smoke!MainStep, Smoke!CleanupStep, Smoke!SupervisorStep

\* The supervisor's part: it is launched once, after the stale state file was ruled out.
LEMMA SessionStep ==
  ASSUME Smoke!Next, Smoke!TypeOK, ShellInv, FlagsInv, SessionInv
  PROVE  SessionInv'
  <1> USE DEF ShellInv, FlagsInv, SessionInv, Startup, Session, Smoke!TypeOK, Smoke!At,
      Smoke!CallCleanup, Smoke!Exit, Smoke!OldStopped, Smoke!StartsHelper, Smoke!RecordExits,
      Smoke!Keep, Smoke!ForgetPid, Smoke!KillTracked, Smoke!NoProof, Smoke!ExitAfterCleanup,
      Smoke!Others, Smoke!varsExit, Smoke!varsFlags, Smoke!varsShell, Smoke!varsWorld,
      Smoke!varsOut
  <1>1. CASE Smoke!RetireSession BY <1>1 DEF Smoke!RetireSession
  <1>2. CASE Smoke!StopStale BY <1>2 DEF Smoke!StopStale
  <1>3. CASE Smoke!StaleVerify BY <1>3 DEF Smoke!StaleVerify
  <1>4. CASE Smoke!RetireEvidence BY <1>4 DEF Smoke!RetireEvidence
  <1>5. CASE Smoke!StartBackend BY <1>5 DEF Smoke!StartBackend
  <1>6. CASE Smoke!StartSynchronized BY <1>6 DEF Smoke!StartSynchronized
  <1>7. CASE Smoke!InstallTraps BY <1>7 DEF Smoke!InstallTraps
  <1>8. CASE Smoke!Launch BY <1>8 DEF Smoke!Launch
  <1>9. CASE Smoke!SetSupervisorPid BY <1>9 DEF Smoke!SetSupervisorPid
  <1>10. CASE Smoke!WaitPidOutput BY <1>10 DEF Smoke!WaitPidOutput
  <1>11. CASE Smoke!WaitReady BY <1>11 DEF Smoke!WaitReady
  <1>12. CASE Smoke!Record BY <1>12 DEF Smoke!Record
  <1>13. CASE Smoke!StageEnds BY <1>13 DEF Smoke!StageEnds
  <1>14. CASE Smoke!Phase4Request BY <1>14 DEF Smoke!Phase4Request
  <1>15. CASE Smoke!SynchronizedRequest BY <1>15 DEF Smoke!SynchronizedRequest
  <1>16. CASE Smoke!SendRequest BY <1>16 DEF Smoke!SendRequest
  <1>17. CASE Smoke!AssertCase BY <1>17 DEF Smoke!AssertCase
  <1>18. CASE Smoke!DisableFinal BY <1>18 DEF Smoke!DisableFinal
  <1>19. CASE Smoke!Untrap BY <1>19 DEF Smoke!Untrap
  <1>20. CASE Smoke!PublishResult BY <1>20 DEF Smoke!PublishResult
  <1>21. CASE Smoke!CleanupForgetSync BY <1>21 DEF Smoke!CleanupForgetSync
  <1>22. CASE Smoke!CleanupKillSync BY <1>22 DEF Smoke!CleanupKillSync
  <1>23. CASE Smoke!CleanupBranch BY <1>23 DEF Smoke!CleanupBranch
  <1>24. CASE Smoke!CleanupStop BY <1>24 DEF Smoke!CleanupStop
  <1>25. CASE Smoke!CleanupVerifyRunning BY <1>25 DEF Smoke!CleanupVerifyRunning
  <1>26. CASE Smoke!CleanupTerminate BY <1>26 DEF Smoke!CleanupTerminate
  <1>27. CASE Smoke!CleanupWait BY <1>27 DEF Smoke!CleanupWait
  <1>28. CASE Smoke!CleanupProof BY <1>28 DEF Smoke!CleanupProof
  <1>29. CASE Smoke!CleanupForgetBackend BY <1>29 DEF Smoke!CleanupForgetBackend
  <1>30. CASE Smoke!CleanupKillBackend BY <1>30 DEF Smoke!CleanupKillBackend
  <1>31. CASE Smoke!CleanupFiles BY <1>31 DEF Smoke!CleanupFiles
  <1>32. CASE Smoke!CleanupReceipt BY <1>32 DEF Smoke!CleanupReceipt
  <1>33. CASE Smoke!CleanupReturns BY <1>33 DEF Smoke!CleanupReturns
  <1>34. CASE Smoke!SupReadsRunner BY <1>34 DEF Smoke!SupReadsRunner
  <1>35. CASE Smoke!SupForks BY <1>35 DEF Smoke!SupForks
  <1>36. CASE Smoke!SupPublishes BY <1>36 DEF Smoke!SupPublishes
  <1>37. CASE Smoke!SupFails BY <1>37 DEF Smoke!SupFails
  <1>38. CASE Smoke!SupEndsSession BY <1>38 DEF Smoke!SupEndsSession
  <1>39. CASE Smoke!SupWithdraws BY <1>39 DEF Smoke!SupWithdraws
  <1>40. CASE Smoke!SignalShell BY <1>40 DEF Smoke!SignalShell
  <1>41. CASE Smoke!SupKilled BY <1>41 DEF Smoke!SupKilled
  <1>42. CASE Smoke!HttpdExits BY <1>42 DEF Smoke!HttpdExits
  <1>43. CASE Smoke!InitReaps BY <1>43 DEF Smoke!InitReaps
  <1> QED BY <1>1, <1>2, <1>3, <1>4, <1>5, <1>6, <1>7, <1>8, <1>9, <1>10, <1>11, <1>12, <1>13,
    <1>14, <1>15, <1>16, <1>17, <1>18, <1>19, <1>20, <1>21, <1>22, <1>23, <1>24, <1>25, <1>26,
    <1>27, <1>28, <1>29, <1>30, <1>31, <1>32, <1>33, <1>34, <1>35, <1>36, <1>37, <1>38, <1>39,
    <1>40, <1>41, <1>42, <1>43
    DEF Smoke!Next, Smoke!MainStep, Smoke!CleanupStep, Smoke!SupervisorStep

\* The helper is named by a variable until cleanup has killed it.
LEMMA HelperStep ==
  ASSUME Smoke!Next, Smoke!TypeOK, ShellInv, HelperInv
  PROVE  HelperInv'
  <1> USE DEF ShellInv, HelperInv, Startup, Session, Smoke!CleanupPCs, Smoke!TypeOK, Smoke!At,
      Smoke!CallCleanup, Smoke!Exit, Smoke!OldStopped, Smoke!StartsHelper, Smoke!RecordExits,
      Smoke!Keep, Smoke!ForgetPid, Smoke!KillTracked, Smoke!NoProof, Smoke!ExitAfterCleanup,
      Smoke!Others, Smoke!varsExit, Smoke!varsFlags, Smoke!varsShell, Smoke!varsWorld,
      Smoke!varsOut
  <1>1. CASE Smoke!RetireSession BY <1>1 DEF Smoke!RetireSession
  <1>2. CASE Smoke!StopStale BY <1>2 DEF Smoke!StopStale
  <1>3. CASE Smoke!StaleVerify BY <1>3 DEF Smoke!StaleVerify
  <1>4. CASE Smoke!RetireEvidence BY <1>4 DEF Smoke!RetireEvidence
  <1>5. CASE Smoke!StartBackend BY <1>5 DEF Smoke!StartBackend
  <1>6. CASE Smoke!StartSynchronized BY <1>6 DEF Smoke!StartSynchronized
  <1>7. CASE Smoke!InstallTraps BY <1>7 DEF Smoke!InstallTraps
  <1>8. CASE Smoke!Launch BY <1>8 DEF Smoke!Launch
  <1>9. CASE Smoke!SetSupervisorPid BY <1>9 DEF Smoke!SetSupervisorPid
  <1>10. CASE Smoke!WaitPidOutput BY <1>10 DEF Smoke!WaitPidOutput
  <1>11. CASE Smoke!WaitReady BY <1>11 DEF Smoke!WaitReady
  <1>12. CASE Smoke!Record BY <1>12 DEF Smoke!Record
  <1>13. CASE Smoke!StageEnds BY <1>13 DEF Smoke!StageEnds
  <1>14. CASE Smoke!Phase4Request BY <1>14 DEF Smoke!Phase4Request
  <1>15. CASE Smoke!SynchronizedRequest BY <1>15 DEF Smoke!SynchronizedRequest
  <1>16. CASE Smoke!SendRequest BY <1>16 DEF Smoke!SendRequest
  <1>17. CASE Smoke!AssertCase BY <1>17 DEF Smoke!AssertCase
  <1>18. CASE Smoke!DisableFinal BY <1>18 DEF Smoke!DisableFinal
  <1>19. CASE Smoke!Untrap BY <1>19 DEF Smoke!Untrap
  <1>20. CASE Smoke!PublishResult BY <1>20 DEF Smoke!PublishResult
  <1>21. CASE Smoke!CleanupForgetSync BY <1>21 DEF Smoke!CleanupForgetSync
  <1>22. CASE Smoke!CleanupKillSync BY <1>22 DEF Smoke!CleanupKillSync
  <1>23. CASE Smoke!CleanupBranch BY <1>23 DEF Smoke!CleanupBranch
  <1>24. CASE Smoke!CleanupStop BY <1>24 DEF Smoke!CleanupStop
  <1>25. CASE Smoke!CleanupVerifyRunning BY <1>25 DEF Smoke!CleanupVerifyRunning
  <1>26. CASE Smoke!CleanupTerminate BY <1>26 DEF Smoke!CleanupTerminate
  <1>27. CASE Smoke!CleanupWait BY <1>27 DEF Smoke!CleanupWait
  <1>28. CASE Smoke!CleanupProof BY <1>28 DEF Smoke!CleanupProof
  <1>29. CASE Smoke!CleanupForgetBackend BY <1>29 DEF Smoke!CleanupForgetBackend
  <1>30. CASE Smoke!CleanupKillBackend BY <1>30 DEF Smoke!CleanupKillBackend
  <1>31. CASE Smoke!CleanupFiles BY <1>31 DEF Smoke!CleanupFiles
  <1>32. CASE Smoke!CleanupReceipt BY <1>32 DEF Smoke!CleanupReceipt
  <1>33. CASE Smoke!CleanupReturns BY <1>33 DEF Smoke!CleanupReturns
  <1>34. CASE Smoke!SupReadsRunner BY <1>34 DEF Smoke!SupReadsRunner
  <1>35. CASE Smoke!SupForks BY <1>35 DEF Smoke!SupForks
  <1>36. CASE Smoke!SupPublishes BY <1>36 DEF Smoke!SupPublishes
  <1>37. CASE Smoke!SupFails BY <1>37 DEF Smoke!SupFails
  <1>38. CASE Smoke!SupEndsSession BY <1>38 DEF Smoke!SupEndsSession
  <1>39. CASE Smoke!SupWithdraws BY <1>39 DEF Smoke!SupWithdraws
  <1>40. CASE Smoke!SignalShell BY <1>40 DEF Smoke!SignalShell
  <1>41. CASE Smoke!SupKilled BY <1>41 DEF Smoke!SupKilled
  <1>42. CASE Smoke!HttpdExits BY <1>42 DEF Smoke!HttpdExits
  <1>43. CASE Smoke!InitReaps BY <1>43 DEF Smoke!InitReaps
  <1> QED BY <1>1, <1>2, <1>3, <1>4, <1>5, <1>6, <1>7, <1>8, <1>9, <1>10, <1>11, <1>12, <1>13,
    <1>14, <1>15, <1>16, <1>17, <1>18, <1>19, <1>20, <1>21, <1>22, <1>23, <1>24, <1>25, <1>26,
    <1>27, <1>28, <1>29, <1>30, <1>31, <1>32, <1>33, <1>34, <1>35, <1>36, <1>37, <1>38, <1>39,
    <1>40, <1>41, <1>42, <1>43
    DEF Smoke!Next, Smoke!MainStep, Smoke!CleanupStep, Smoke!SupervisorStep

\* What cleanup has found stays so: a dead supervisor starts nothing and writes nothing.
LEMMA ProvenStep ==
  ASSUME Smoke!Next, Smoke!TypeOK, FlagsInv, SessionInv, ProvenInv
  PROVE  ProvenInv'
  <1> USE DEF FlagsInv, SessionInv, ProvenInv, Recorded, AfterWait, Startup, Session,
      Smoke!TypeOK, Smoke!At, Smoke!CallCleanup, Smoke!Exit, Smoke!OldStopped,
      Smoke!StartsHelper, Smoke!RecordExits, Smoke!Keep, Smoke!ForgetPid, Smoke!KillTracked,
      Smoke!NoProof, Smoke!ExitAfterCleanup, Smoke!Others, Smoke!varsExit, Smoke!varsFlags,
      Smoke!varsShell, Smoke!varsWorld, Smoke!varsOut
  <1>1. CASE Smoke!RetireSession BY <1>1 DEF Smoke!RetireSession
  <1>2. CASE Smoke!StopStale BY <1>2 DEF Smoke!StopStale
  <1>3. CASE Smoke!StaleVerify BY <1>3 DEF Smoke!StaleVerify
  <1>4. CASE Smoke!RetireEvidence BY <1>4 DEF Smoke!RetireEvidence
  <1>5. CASE Smoke!StartBackend BY <1>5 DEF Smoke!StartBackend
  <1>6. CASE Smoke!StartSynchronized BY <1>6 DEF Smoke!StartSynchronized
  <1>7. CASE Smoke!InstallTraps BY <1>7 DEF Smoke!InstallTraps
  <1>8. CASE Smoke!Launch BY <1>8 DEF Smoke!Launch
  <1>9. CASE Smoke!SetSupervisorPid BY <1>9 DEF Smoke!SetSupervisorPid
  <1>10. CASE Smoke!WaitPidOutput BY <1>10 DEF Smoke!WaitPidOutput
  <1>11. CASE Smoke!WaitReady BY <1>11 DEF Smoke!WaitReady
  <1>12. CASE Smoke!Record BY <1>12 DEF Smoke!Record
  <1>13. CASE Smoke!StageEnds BY <1>13 DEF Smoke!StageEnds
  <1>14. CASE Smoke!Phase4Request BY <1>14 DEF Smoke!Phase4Request
  <1>15. CASE Smoke!SynchronizedRequest BY <1>15 DEF Smoke!SynchronizedRequest
  <1>16. CASE Smoke!SendRequest BY <1>16 DEF Smoke!SendRequest
  <1>17. CASE Smoke!AssertCase BY <1>17 DEF Smoke!AssertCase
  <1>18. CASE Smoke!DisableFinal BY <1>18 DEF Smoke!DisableFinal
  <1>19. CASE Smoke!Untrap BY <1>19 DEF Smoke!Untrap
  <1>20. CASE Smoke!PublishResult BY <1>20 DEF Smoke!PublishResult
  <1>21. CASE Smoke!CleanupForgetSync BY <1>21 DEF Smoke!CleanupForgetSync
  <1>22. CASE Smoke!CleanupKillSync BY <1>22 DEF Smoke!CleanupKillSync
  <1>23. CASE Smoke!CleanupBranch BY <1>23 DEF Smoke!CleanupBranch
  <1>24. CASE Smoke!CleanupStop BY <1>24 DEF Smoke!CleanupStop
  <1>25. CASE Smoke!CleanupVerifyRunning BY <1>25 DEF Smoke!CleanupVerifyRunning
  <1>26. CASE Smoke!CleanupTerminate BY <1>26 DEF Smoke!CleanupTerminate
  <1>27. CASE Smoke!CleanupWait BY <1>27 DEF Smoke!CleanupWait
  <1>28. CASE Smoke!CleanupProof BY <1>28 DEF Smoke!CleanupProof
  <1>29. CASE Smoke!CleanupForgetBackend BY <1>29 DEF Smoke!CleanupForgetBackend
  <1>30. CASE Smoke!CleanupKillBackend BY <1>30 DEF Smoke!CleanupKillBackend
  <1>31. CASE Smoke!CleanupFiles BY <1>31 DEF Smoke!CleanupFiles
  <1>32. CASE Smoke!CleanupReceipt BY <1>32 DEF Smoke!CleanupReceipt
  <1>33. CASE Smoke!CleanupReturns BY <1>33 DEF Smoke!CleanupReturns
  <1>34. CASE Smoke!SupReadsRunner BY <1>34 DEF Smoke!SupReadsRunner
  <1>35. CASE Smoke!SupForks BY <1>35 DEF Smoke!SupForks
  <1>36. CASE Smoke!SupPublishes BY <1>36 DEF Smoke!SupPublishes
  <1>37. CASE Smoke!SupFails BY <1>37 DEF Smoke!SupFails
  <1>38. CASE Smoke!SupEndsSession BY <1>38 DEF Smoke!SupEndsSession
  <1>39. CASE Smoke!SupWithdraws BY <1>39 DEF Smoke!SupWithdraws
  <1>40. CASE Smoke!SignalShell BY <1>40 DEF Smoke!SignalShell
  <1>41. CASE Smoke!SupKilled BY <1>41 DEF Smoke!SupKilled
  <1>42. CASE Smoke!HttpdExits BY <1>42 DEF Smoke!HttpdExits
  <1>43. CASE Smoke!InitReaps BY <1>43 DEF Smoke!InitReaps
  <1> QED BY <1>1, <1>2, <1>3, <1>4, <1>5, <1>6, <1>7, <1>8, <1>9, <1>10, <1>11, <1>12, <1>13,
    <1>14, <1>15, <1>16, <1>17, <1>18, <1>19, <1>20, <1>21, <1>22, <1>23, <1>24, <1>25, <1>26,
    <1>27, <1>28, <1>29, <1>30, <1>31, <1>32, <1>33, <1>34, <1>35, <1>36, <1>37, <1>38, <1>39,
    <1>40, <1>41, <1>42, <1>43
    DEF Smoke!Next, Smoke!MainStep, Smoke!CleanupStep, Smoke!SupervisorStep

\* The receipt, the exit status and the result.
LEMMA OutcomeStep ==
  ASSUME Smoke!Next, Smoke!TypeOK, ShellInv, FlagsInv, ResultInv, SessionInv, HelperInv,
         ProvenInv, Smoke!ReceiptSound, Smoke!ExitZeroClean, Smoke!PassNeedsReceipt
  PROVE  Smoke!ReceiptSound' /\ Smoke!ExitZeroClean' /\ Smoke!PassNeedsReceipt'
  <1> USE DEF ShellInv, FlagsInv, ResultInv, SessionInv, HelperInv, ProvenInv, Recorded,
      AfterWait, Startup, Session, Smoke!CleanupPCs, Smoke!ReceiptSound, Smoke!ExitZeroClean,
      Smoke!PassNeedsReceipt, Smoke!Quiet, Smoke!TypeOK, Smoke!At, Smoke!CallCleanup,
      Smoke!Exit, Smoke!OldStopped, Smoke!StartsHelper, Smoke!RecordExits, Smoke!Keep,
      Smoke!ForgetPid, Smoke!KillTracked, Smoke!NoProof, Smoke!ExitAfterCleanup, Smoke!Others,
      Smoke!varsExit, Smoke!varsFlags, Smoke!varsShell, Smoke!varsWorld, Smoke!varsOut
  <1>1. CASE Smoke!RetireSession BY <1>1 DEF Smoke!RetireSession
  <1>2. CASE Smoke!StopStale BY <1>2 DEF Smoke!StopStale
  <1>3. CASE Smoke!StaleVerify BY <1>3 DEF Smoke!StaleVerify
  <1>4. CASE Smoke!RetireEvidence BY <1>4 DEF Smoke!RetireEvidence
  <1>5. CASE Smoke!StartBackend BY <1>5 DEF Smoke!StartBackend
  <1>6. CASE Smoke!StartSynchronized BY <1>6 DEF Smoke!StartSynchronized
  <1>7. CASE Smoke!InstallTraps BY <1>7 DEF Smoke!InstallTraps
  <1>8. CASE Smoke!Launch BY <1>8 DEF Smoke!Launch
  <1>9. CASE Smoke!SetSupervisorPid BY <1>9 DEF Smoke!SetSupervisorPid
  <1>10. CASE Smoke!WaitPidOutput BY <1>10 DEF Smoke!WaitPidOutput
  <1>11. CASE Smoke!WaitReady BY <1>11 DEF Smoke!WaitReady
  <1>12. CASE Smoke!Record BY <1>12 DEF Smoke!Record
  <1>13. CASE Smoke!StageEnds BY <1>13 DEF Smoke!StageEnds
  <1>14. CASE Smoke!Phase4Request BY <1>14 DEF Smoke!Phase4Request
  <1>15. CASE Smoke!SynchronizedRequest BY <1>15 DEF Smoke!SynchronizedRequest
  <1>16. CASE Smoke!SendRequest BY <1>16 DEF Smoke!SendRequest
  <1>17. CASE Smoke!AssertCase BY <1>17 DEF Smoke!AssertCase
  <1>18. CASE Smoke!DisableFinal BY <1>18 DEF Smoke!DisableFinal
  <1>19. CASE Smoke!Untrap BY <1>19 DEF Smoke!Untrap
  <1>20. CASE Smoke!PublishResult BY <1>20 DEF Smoke!PublishResult
  <1>21. CASE Smoke!CleanupForgetSync BY <1>21 DEF Smoke!CleanupForgetSync
  <1>22. CASE Smoke!CleanupKillSync BY <1>22 DEF Smoke!CleanupKillSync
  <1>23. CASE Smoke!CleanupBranch BY <1>23 DEF Smoke!CleanupBranch
  <1>24. CASE Smoke!CleanupStop BY <1>24 DEF Smoke!CleanupStop
  <1>25. CASE Smoke!CleanupVerifyRunning BY <1>25 DEF Smoke!CleanupVerifyRunning
  <1>26. CASE Smoke!CleanupTerminate BY <1>26 DEF Smoke!CleanupTerminate
  <1>27. CASE Smoke!CleanupWait BY <1>27 DEF Smoke!CleanupWait
  <1>28. CASE Smoke!CleanupProof BY <1>28 DEF Smoke!CleanupProof
  <1>29. CASE Smoke!CleanupForgetBackend BY <1>29 DEF Smoke!CleanupForgetBackend
  <1>30. CASE Smoke!CleanupKillBackend BY <1>30 DEF Smoke!CleanupKillBackend
  <1>31. CASE Smoke!CleanupFiles BY <1>31 DEF Smoke!CleanupFiles
  <1>32. CASE Smoke!CleanupReceipt BY <1>32 DEF Smoke!CleanupReceipt
  <1>33. CASE Smoke!CleanupReturns BY <1>33 DEF Smoke!CleanupReturns
  <1>34. CASE Smoke!SupReadsRunner BY <1>34 DEF Smoke!SupReadsRunner
  <1>35. CASE Smoke!SupForks BY <1>35 DEF Smoke!SupForks
  <1>36. CASE Smoke!SupPublishes BY <1>36 DEF Smoke!SupPublishes
  <1>37. CASE Smoke!SupFails BY <1>37 DEF Smoke!SupFails
  <1>38. CASE Smoke!SupEndsSession BY <1>38 DEF Smoke!SupEndsSession
  <1>39. CASE Smoke!SupWithdraws BY <1>39 DEF Smoke!SupWithdraws
  <1>40. CASE Smoke!SignalShell BY <1>40 DEF Smoke!SignalShell
  <1>41. CASE Smoke!SupKilled BY <1>41 DEF Smoke!SupKilled
  <1>42. CASE Smoke!HttpdExits BY <1>42 DEF Smoke!HttpdExits
  <1>43. CASE Smoke!InitReaps BY <1>43 DEF Smoke!InitReaps
  <1> QED BY <1>1, <1>2, <1>3, <1>4, <1>5, <1>6, <1>7, <1>8, <1>9, <1>10, <1>11, <1>12, <1>13,
    <1>14, <1>15, <1>16, <1>17, <1>18, <1>19, <1>20, <1>21, <1>22, <1>23, <1>24, <1>25, <1>26,
    <1>27, <1>28, <1>29, <1>30, <1>31, <1>32, <1>33, <1>34, <1>35, <1>36, <1>37, <1>38, <1>39,
    <1>40, <1>41, <1>42, <1>43
    DEF Smoke!Next, Smoke!MainStep, Smoke!CleanupStep, Smoke!SupervisorStep

\* Initially nothing of this run exists.
LEMMA SmokeInit == Smoke!SmokeAssumption /\ Smoke!Init => HInv
  <1> SUFFICES ASSUME Smoke!SmokeAssumption, Smoke!Init PROVE HInv
    OBVIOUS
  <1>1. ShellType /\ WorldType
    BY DEF Smoke!SmokeAssumption, Smoke!Init, ShellType, WorldType, Smoke!MainPCs
  <1>2. ShellFlagsType /\ FileFlagsType
    BY DEF Smoke!SmokeAssumption, Smoke!Init, ShellFlagsType, FileFlagsType
  <1>3. ShellInv /\ OldEvidenceInv /\ FlagsInv /\ ResultInv
    BY DEF Smoke!Init, ShellInv, OldEvidenceInv, FlagsInv, ResultInv, Startup, Session,
       Smoke!CleanupPCs
  <1>4. SessionInv /\ HelperInv /\ ProvenInv
    BY DEF Smoke!Init, SessionInv, HelperInv, ProvenInv, AfterWait, Session, Smoke!CleanupPCs
  <1>5. Smoke!ReceiptSound /\ Smoke!ExitZeroClean /\ Smoke!PassNeedsReceipt
    BY DEF Smoke!Init, Smoke!ReceiptSound, Smoke!ExitZeroClean, Smoke!PassNeedsReceipt
  <1> QED BY <1>1, <1>2, <1>3, <1>4, <1>5, SmokeTypeParts DEF HInv

LEMMA SmokeStep == Smoke!SmokeAssumption /\ HInv /\ [Smoke!Next]_(Smoke!vars) => HInv'
  <1> SUFFICES ASSUME Smoke!SmokeAssumption, HInv, [Smoke!Next]_(Smoke!vars) PROVE HInv'
    OBVIOUS
  <1>1. CASE Smoke!Next
    <2>1. ShellType /\ WorldType /\ ShellFlagsType /\ FileFlagsType
      BY SmokeTypeParts DEF HInv
    <2>2. (ShellType /\ WorldType)' /\ ShellFlagsType' /\ FileFlagsType'
      BY <1>1, <2>1, EnumTypeStep, ShellFlagsStep, FileFlagsStep DEF Smoke!SmokeAssumption
    <2>3. Smoke!TypeOK'
      BY <2>2 DEF Smoke!TypeOK, ShellType, WorldType, ShellFlagsType, FileFlagsType
    <2>4. ShellInv' /\ OldEvidenceInv' /\ FlagsInv' /\ ResultInv'
      BY <1>1, ShellStep DEF HInv
    <2>5. SessionInv' /\ HelperInv' /\ ProvenInv'
      BY <1>1, SessionStep, HelperStep, ProvenStep DEF HInv
    <2>6. Smoke!ReceiptSound' /\ Smoke!ExitZeroClean' /\ Smoke!PassNeedsReceipt'
      BY <1>1, OutcomeStep DEF HInv
    <2> QED BY <2>3, <2>4, <2>5, <2>6 DEF HInv
  <1>2. CASE UNCHANGED Smoke!vars
    <2> USE <1>2 DEF HInv, Smoke!vars, Smoke!varsShell, Smoke!varsExit, Smoke!varsFlags,
                     Smoke!varsWorld, Smoke!varsOut
    <2>1. Smoke!TypeOK'
      BY DEF Smoke!TypeOK
    <2>2. ShellInv' /\ OldEvidenceInv' /\ FlagsInv' /\ ResultInv'
      BY DEF ShellInv, OldEvidenceInv, FlagsInv, ResultInv, Recorded
    <2>3. SessionInv' /\ HelperInv' /\ ProvenInv'
      BY DEF SessionInv, HelperInv, ProvenInv, Recorded
    <2>4. Smoke!ReceiptSound' /\ Smoke!ExitZeroClean' /\ Smoke!PassNeedsReceipt'
      BY DEF Smoke!ReceiptSound, Smoke!ExitZeroClean, Smoke!Quiet, Smoke!PassNeedsReceipt
    <2> QED BY <2>1, <2>2, <2>3, <2>4
  <1> QED BY <1>1, <1>2

LEMMA SmokeInvariant ==
  ASSUME Smoke!SmokeAssumption
  PROVE  Smoke!Spec => []HInv
  BY SmokeInit, SmokeStep, PTL DEF Smoke!Spec

\* The cleanup receipt is true when it is published and stays true: however many
\* signals interrupt and restart cleanup, and whenever the supervisor is killed,
\* httpd has been reaped, the supervisor has ended and no PID file, state file or
\* PID output is left.
THEOREM ReceiptTheorem ==
  ASSUME Smoke!SmokeAssumption
  PROVE  Smoke!Spec => []Smoke!ReceiptSound
  <1>1. HInv => Smoke!ReceiptSound
    BY DEF HInv
  <1> QED BY <1>1, SmokeInvariant, PTL

\* Status 0 means that nothing of the run is left, and a profile run reports a
\* pass only with its receipt.
THEOREM StatusTheorem ==
  ASSUME Smoke!SmokeAssumption
  PROVE  Smoke!Spec => []Smoke!StatusJustified
  <1>1. HInv => Smoke!StatusJustified
    BY DEF HInv, Smoke!StatusJustified
  <1> QED BY <1>1, SmokeInvariant, PTL

\* The evidence of an earlier httpd is removed only once that httpd is gone: a
\* run whose predecessor may still serve never gets as far as its own record.
THEOREM OldEvidenceTheorem ==
  ASSUME Smoke!SmokeAssumption
  PROVE  Smoke!Spec => Smoke!OldEvidenceKept
  <1>1. HInv /\ [Smoke!Next]_(Smoke!vars)
          => [evidence = "old" /\ evidence' # "old" => old = "gone"]_(Smoke!vars)
    <2> SUFFICES ASSUME HInv, Smoke!Next, evidence = "old", evidence' # "old"
                 PROVE  old = "gone"
      OBVIOUS
    <2>1. CASE Smoke!RetireEvidence
      BY <2>1 DEF Smoke!RetireEvidence, Smoke!OldStopped
    <2>2. CASE Smoke!Record
      BY <2>2 DEF Smoke!Record, Smoke!RecordExits, HInv, OldEvidenceInv
    <2>3. CASE Smoke!RetireSession \/ Smoke!StopStale \/ Smoke!StaleVerify
              \/ Smoke!StartBackend \/ Smoke!StartSynchronized \/ Smoke!InstallTraps
              \/ Smoke!Launch \/ Smoke!SetSupervisorPid \/ Smoke!WaitPidOutput
              \/ Smoke!WaitReady \/ Smoke!StageEnds \/ Smoke!Phase4Request
              \/ Smoke!SynchronizedRequest \/ Smoke!SendRequest \/ Smoke!AssertCase
              \/ Smoke!DisableFinal \/ Smoke!Untrap \/ Smoke!PublishResult
      BY <2>3 DEF Smoke!RetireSession, Smoke!Exit, Smoke!varsExit, Smoke!varsFlags,
         Smoke!varsWorld, Smoke!varsOut, Smoke!CallCleanup, Smoke!StopStale, Smoke!StaleVerify,
         Smoke!StartBackend, Smoke!StartsHelper, Smoke!StartSynchronized, Smoke!InstallTraps,
         Smoke!Launch, Smoke!SetSupervisorPid, Smoke!At, Smoke!WaitPidOutput, Smoke!WaitReady,
         Smoke!StageEnds, Smoke!Phase4Request, Smoke!SynchronizedRequest, Smoke!SendRequest,
         Smoke!varsShell, Smoke!AssertCase, Smoke!DisableFinal, Smoke!Untrap,
         Smoke!PublishResult
    <2>4. CASE Smoke!CleanupForgetSync \/ Smoke!CleanupKillSync \/ Smoke!CleanupBranch
              \/ Smoke!CleanupStop \/ Smoke!CleanupVerifyRunning \/ Smoke!CleanupTerminate
              \/ Smoke!CleanupWait \/ Smoke!CleanupProof \/ Smoke!CleanupForgetBackend
              \/ Smoke!CleanupKillBackend \/ Smoke!CleanupFiles \/ Smoke!CleanupReceipt
              \/ Smoke!CleanupReturns
      BY <2>4 DEF Smoke!CleanupForgetSync, Smoke!At, Smoke!ForgetPid, Smoke!varsExit,
         Smoke!varsWorld, Smoke!varsOut, Smoke!CleanupKillSync, Smoke!Keep, Smoke!varsFlags,
         Smoke!CleanupBranch, Smoke!CleanupStop, Smoke!CleanupVerifyRunning,
         Smoke!CleanupTerminate, Smoke!CleanupWait, Smoke!CleanupProof,
         Smoke!CleanupForgetBackend, Smoke!CleanupKillBackend, Smoke!CleanupFiles,
         Smoke!CleanupReceipt, Smoke!CleanupReturns, Smoke!Exit, Smoke!CallCleanup
    <2>5. CASE Smoke!SupReadsRunner \/ Smoke!SupForks \/ Smoke!SupPublishes
              \/ Smoke!SupFails \/ Smoke!SupEndsSession \/ Smoke!SupWithdraws
      BY <2>5 DEF Smoke!SupReadsRunner, Smoke!varsShell, Smoke!varsOut, Smoke!varsExit,
         Smoke!varsFlags, Smoke!SupForks, Smoke!Others, Smoke!SupPublishes, Smoke!SupFails,
         Smoke!SupEndsSession, Smoke!SupWithdraws
    <2>6. CASE Smoke!SignalShell \/ Smoke!SupKilled \/ Smoke!HttpdExits \/ Smoke!InitReaps
      BY <2>6 DEF Smoke!SignalShell, Smoke!CallCleanup, Smoke!varsFlags, Smoke!varsWorld,
         Smoke!varsOut, Smoke!SupKilled, Smoke!Others, Smoke!varsShell, Smoke!varsExit,
         Smoke!HttpdExits, Smoke!InitReaps
    <2> QED BY <2>1, <2>2, <2>3, <2>4, <2>5, <2>6
      DEF Smoke!Next, Smoke!MainStep, Smoke!CleanupStep, Smoke!SupervisorStep
  <1> QED BY <1>1, SmokeInvariant, PTL DEF Smoke!Spec, Smoke!OldEvidenceKept
=============================================================================
