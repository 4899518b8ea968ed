-------------------------- MODULE NginxBrokerProofs --------------------------
(***************************************************************************)
(* Proofs about NginxBroker, for every set of artifacts, any number of     *)
(* attempts and of killed commands, and both manifest schemas.             *)
(***************************************************************************)
EXTENDS NginxBroker, TLAPS

Admitting == {"admit", "hash", "copy", "rollback"}
Starting == {"poll", "term", "write_state"}

-----------------------------------------------------------------------------
(***************************************************************************)
(* The inductive invariant.  What is admitted depends on what the copy     *)
(* loop has established for each file; what a stop or a removal may claim  *)
(* depends on which file names the master at every step.                   *)
(***************************************************************************)

\* What the step of the admission tells about root, copies and exit status.
AdmissionInv ==
  /\ \A a \in Artifacts : staged[a] \in {"declared", "other"}
  /\ root = "none" => /\ dest = [a \in Artifacts |-> "none"] /\ rootBy = 0
                      /\ state = NoState
  /\ pc \in Admitting => res = Fresh
  /\ pc \in {"hash", "copy", "rollback"} =>
       root = "partial" /\ rootBy = attempt /\ state = NoState
  /\ pc \in {"hash", "copy"} => \A a \in Artifacts : dest[a] # "other"
  /\ pc \notin Admitting \cup {"over"} => res.admit = "ok"
  /\ res.admit \in {"fail", "exists", "unremoved", "killed"} => pc = "over"

\* What the phases of NGINX tell about its processes, and when there are none.
ProcessInv ==
  /\ alive = {} <=> phase = "off"
  /\ "worker" \in alive => phase = "running"
  /\ pc \in Admitting \cup {"config-test", "start"} => alive = {}
  /\ pc \in {"config-test", "start"} \cup Starting => root = "admitted" /\ state = NoState
  /\ pc \in {"stop_pid", "stop_state"} => alive = {}
  /\ pc \in {"profile", "profile_state"} => state = {"master", "started"}

\* What the steps of the cleanup and the verdict have established.
VerdictInv ==
  /\ pc \in {"profile", "profile_state", "identity", "stop", "stop_kill", "stop_wait",
             "stop_kill9", "stop_pid", "stop_state", "project", "stage", "cleanup"}
       => root = "admitted"
  /\ pc = "remove" => root = "partial"
  /\ res.cleanup # "none" => pc \in {"report", "over"}
  /\ res.cleanup = "ok" => root = "none"
  /\ res.verdict # "none" => pc = "over"
  /\ res.verdict = "PASS" => res.cleanup = "ok"

SafetyInv ==
  /\ AdmittedBytesBound /\ AdmittedByThisAttempt /\ FailedAdmissionLeavesNothing
  /\ StoppedMeansGone /\ AdmissionInv /\ ProcessInv /\ VerdictInv

BInv == TypeOK /\ SafetyInv

\* A live master is the child of the running start, or the state file names it.
MasterIsNamed == "master" \in alive => pc \in Starting \/ "master" \in state

\* From the removal on nothing of NGINX is left.
NothingLeft == pc = "remove" \/ res.cleanup = "ok" => alive = {}

CInv == MasterIsNamed /\ NothingLeft

-----------------------------------------------------------------------------
\* TypeOK in three parts: the results, the flag, and the rest.
Results ==
  [main : {"none", "ok", "fail"},
   admit : {"none", "ok", "fail", "exists", "unremoved", "killed"},
   stop : {"none", "ok", "fail"}, cleanup : {"none", "ok", "fail"},
   staged : BOOLEAN, verdict : {"none", "PASS", "FAIL"}]
ValuesOK ==
  /\ pc \in Commands \cup {"hash", "copy", "rollback", "poll", "term", "write_state",
        "profile_state", "stop_kill", "stop_wait", "stop_kill9", "stop_pid",
        "stop_state", "stage", "remove", "report", "over"}
  /\ attempt \in 1 .. MaxAttempts /\ kills \in 0 .. MaxKills
  /\ staged \in [Artifacts -> Contents] /\ dest \in [Artifacts -> Contents]
  /\ root \in {"none", "partial", "admitted"} /\ rootBy \in 0 .. MaxAttempts
  /\ alive \subseteq {"master", "worker"} /\ phase \in Phases
  /\ pidfile \in {"none", "empty", "written"}
  /\ state = NoState \/ state \subseteq StateKeys
  /\ evidence \subseteq {"policy", "identity", "runtime", "projection"}

LEMMA TypeParts == TypeOK <=> ValuesOK /\ zombie \in BOOLEAN /\ res \in Results
  BY Zenon DEF TypeOK, ValuesOK, Results

\* Before the first attempt nothing exists.
LEMMA InvInit == Init => BInv /\ CInv
  <1> SUFFICES ASSUME Init
               PROVE  BInv /\ CInv
    OBVIOUS
  <1> USE BrokerConstants DEF Init, Fresh, NoState, Admitting, Starting
  <1>1. ValuesOK
    BY DEF ValuesOK, Commands, Contents, Phases
  <1>2. zombie \in BOOLEAN /\ res \in Results
    BY DEF Results
  <1>3. SafetyInv
    BY DEF SafetyInv, AdmittedBytesBound, AdmittedByThisAttempt, StoppedMeansGone,
           FailedAdmissionLeavesNothing, AdmissionInv, ProcessInv, VerdictInv
  <1>4. CInv
    BY DEF CInv, MasterIsNamed, NothingLeft
  <1> QED
    BY <1>1, <1>2, <1>3, <1>4, TypeParts DEF BInv

\* What a kill does, by the command that it ends.
KilledAdmission ==
  pc \in Admitting /\ pc' = "over" /\ res' = [res EXCEPT !.main = "fail", !.admit = "killed"]
KilledStop ==
  /\ pc \in {"stop", "stop_kill", "stop_wait", "stop_kill9", "stop_pid", "stop_state"}
  /\ \/ pc' = "cleanup" /\ res' = [res EXCEPT !.stop = "fail"]
     \/ FailMain
KilledCleanup ==
  pc \in {"cleanup", "remove"} /\ pc' = "report" /\ res' = [res EXCEPT !.cleanup = "fail"]
KilledMain ==
  /\ pc \in {"config-test", "start", "poll", "term", "write_state", "profile",
             "profile_state", "identity", "project"}
  /\ pc \in Starting => "start" \in Killable
  /\ FailMain

\* A kill ends one of the commands; stage, report and over are none.
LEMMA KillCases ==
  TypeOK /\ Kill => KilledAdmission \/ KilledStop \/ KilledCleanup \/ KilledMain
  BY BrokerConstants
     DEF Kill, Command, InStop, FailStop, Second, KilledAdmission, KilledStop,
         KilledCleanup, KilledMain, TypeOK, Commands, Admitting, Starting

\* A step keeps the types of all variables but zombie and res.
LEMMA ValuesStep == BInv /\ [Next]_vars => ValuesOK'
  <1> SUFFICES ASSUME BInv, [Next]_vars
               PROVE  ValuesOK'
    OBVIOUS
  <1> USE BrokerConstants
          DEF BInv, SafetyInv, TypeOK, ValuesOK, AdmissionInv, ProcessInv, Contents, Phases,
              NoState, StateKeys, Fresh, Commands, Admitting, Starting, files, nginx
  <1>1. CASE AdmitReject
    BY <1>1 DEF AdmitReject
  <1>2. CASE CreateRoot
    BY <1>2 DEF CreateRoot
  <1>3. CASE AdmitError
    BY <1>3 DEF AdmitError
  <1>4. CASE WriteManifest
    BY <1>4 DEF WriteManifest
  <1>5. CASE Rollback
    <2>1. CASE RootGone /\ res' = [res EXCEPT !.main = "fail", !.admit = "fail"]
      BY <1>5, <2>1 DEF Rollback, RootGone
    <2>2. CASE UNCHANGED files /\ res' = [res EXCEPT !.main = "fail", !.admit = "unremoved"]
      BY <1>5, <2>2 DEF Rollback
    <2> QED
      BY <1>5, <2>1, <2>2 DEF Rollback
  <1>6. ASSUME NEW a \in Artifacts, HashSource(a)
        PROVE  ValuesOK'
    BY <1>6 DEF HashSource
  <1>7. ASSUME NEW a \in Artifacts, CopyIntoRoot(a)
        PROVE  ValuesOK'
    BY <1>7 DEF CopyIntoRoot
  <1>8. CASE ConfigTest
    BY <1>8 DEF ConfigTest, FailMain, Always
  <1>9. CASE StartSpawn
    BY <1>9 DEF StartSpawn, FailMain, Always
  <1>10. CASE StartPoll
    BY <1>10 DEF StartPoll, FailMain, Always
  <1>11. CASE StartTerminate
    BY <1>11 DEF StartTerminate, FailMain, Always
  <1>12. CASE StartWriteState
    BY <1>12 DEF StartWriteState
  <1>13. CASE Profile
    BY <1>13 DEF Profile, FailMain, Always, PolicyEvidence
  <1>14. CASE ProfileState
    BY <1>14 DEF ProfileState
  <1>15. CASE Identity
    BY <1>15 DEF Identity, FailMain, Always
  <1>16. CASE StopBegin
    BY <1>16 DEF StopBegin, StopDone, FailStop, FailMain, Always, Second, GroupExists
  <1>17. CASE StopKill
    BY <1>17 DEF StopKill, FailStop, FailMain, Always, Second, GroupExists
  <1>18. CASE StopWait
    BY <1>18 DEF StopWait, GroupExists
  <1>19. CASE StopKill9
    BY <1>19 DEF StopKill9, FailStop, FailMain, Always, Second, GroupExists
  <1>20. CASE StopPid
    BY <1>20 DEF StopPid
  <1>21. CASE StopState
    BY <1>21 DEF StopState, StopDone, Second
  <1>22. CASE Project
    BY <1>22 DEF Project, FailMain, Always
  <1>23. CASE Stage
    BY <1>23 DEF Stage
  <1>24. CASE Cleanup
    BY <1>24 DEF Cleanup, CleanupClear, GroupExists, Listening
  <1>25. CASE CleanupRemove
    BY <1>25 DEF CleanupRemove, RootGone
  <1>26. CASE Report
    BY <1>26 DEF Report
  <1>27. CASE NginxBoot
    <2>1. CASE phase = "spawned"
      BY <1>27, <2>1 DEF NginxBoot
    <2>2. CASE phase = "bound"
      BY <1>27, <2>2 DEF NginxBoot
    <2>3. CASE phase = "opened"
      BY <1>27, <2>3 DEF NginxBoot
    <2> QED
      BY <1>27, <2>1, <2>2, <2>3 DEF NginxBoot
  <1>28. CASE NginxFork
    BY <1>28 DEF NginxFork
  <1>29. CASE Reap
    BY <1>29 DEF Reap
  <1>30. CASE Rerun
    BY <1>30 DEF Rerun, GroupExists
  <1>31. CASE Kill
    <2>1. CASE KilledAdmission
      BY <1>31, <2>1 DEF Kill, KilledAdmission
    <2>2. CASE KilledStop
      BY <1>31, <2>2 DEF Kill, KilledStop, FailMain, Always
    <2>3. CASE KilledCleanup
      BY <1>31, <2>3 DEF Kill, KilledCleanup
    <2>4. CASE KilledMain
      BY <1>31, <2>4 DEF Kill, KilledMain, FailMain, Always
    <2> QED
      BY <1>31, <2>1, <2>2, <2>3, <2>4, KillCases DEF BInv
  <1>32. ASSUME NEW p \in {"master", "worker"}, NginxExit(p)
        PROVE  ValuesOK'
    BY <1>32 DEF NginxExit
  <1>33. ASSUME NEW a \in Artifacts, Rewrite(a)
        PROVE  ValuesOK'
    BY <1>33 DEF Rewrite
  <1>34. CASE UNCHANGED vars
    BY <1>34 DEF vars
  <1> QED
    BY <1>1, <1>2, <1>3, <1>4, <1>5, <1>6, <1>7, <1>8, <1>9, <1>10, <1>11, <1>12,
       <1>13, <1>14, <1>15, <1>16, <1>17, <1>18, <1>19, <1>20, <1>21, <1>22, <1>23,
       <1>24, <1>25, <1>26, <1>27, <1>28, <1>29, <1>30, <1>31, <1>32, <1>33, <1>34
       DEF Next, Broker, Nginx

\* A step keeps the type of the results.
LEMMA ResultStep == BInv /\ [Next]_vars => (res \in Results)'
  <1> SUFFICES ASSUME res \in Results, BInv, [Next]_vars
               PROVE  res' \in Results
    BY TypeParts DEF BInv
  <1> USE DEF Results, Fresh
  <1>1. CASE AdmitReject
    BY <1>1 DEF AdmitReject
  <1>2. CASE CreateRoot
    BY <1>2 DEF CreateRoot
  <1>3. CASE AdmitError
    BY <1>3 DEF AdmitError
  <1>4. CASE WriteManifest
    BY <1>4 DEF WriteManifest
  <1>5. CASE Rollback
    <2>1. CASE RootGone /\ res' = [res EXCEPT !.main = "fail", !.admit = "fail"]
      BY <1>5, <2>1 DEF Rollback, RootGone
    <2>2. CASE UNCHANGED files /\ res' = [res EXCEPT !.main = "fail", !.admit = "unremoved"]
      BY <1>5, <2>2 DEF Rollback
    <2> QED
      BY <1>5, <2>1, <2>2 DEF Rollback
  <1>6. ASSUME NEW a \in Artifacts, HashSource(a)
        PROVE  res' \in Results
    BY <1>6 DEF HashSource
  <1>7. ASSUME NEW a \in Artifacts, CopyIntoRoot(a)
        PROVE  res' \in Results
    BY <1>7 DEF CopyIntoRoot
  <1>8. CASE ConfigTest
    BY <1>8 DEF ConfigTest, FailMain, Always
  <1>9. CASE StartSpawn
    BY <1>9 DEF StartSpawn, FailMain, Always
  <1>10. CASE StartPoll
    BY <1>10 DEF StartPoll, FailMain, Always
  <1>11. CASE StartTerminate
    BY <1>11 DEF StartTerminate, FailMain, Always
  <1>12. CASE StartWriteState
    BY <1>12 DEF StartWriteState
  <1>13. CASE Profile
    BY <1>13 DEF Profile, FailMain, Always, PolicyEvidence
  <1>14. CASE ProfileState
    BY <1>14 DEF ProfileState
  <1>15. CASE Identity
    BY <1>15 DEF Identity, FailMain, Always
  <1>16. CASE StopBegin
    BY <1>16 DEF StopBegin, StopDone, FailStop, FailMain, Always, Second, GroupExists
  <1>17. CASE StopKill
    BY <1>17 DEF StopKill, FailStop, FailMain, Always, Second, GroupExists
  <1>18. CASE StopWait
    BY <1>18 DEF StopWait, GroupExists
  <1>19. CASE StopKill9
    BY <1>19 DEF StopKill9, FailStop, FailMain, Always, Second, GroupExists
  <1>20. CASE StopPid
    BY <1>20 DEF StopPid
  <1>21. CASE StopState
    BY <1>21 DEF StopState, StopDone, Second
  <1>22. CASE Project
    BY <1>22 DEF Project, FailMain, Always
  <1>23. CASE Stage
    <2>1. ("projection" \in evidence) \in BOOLEAN
      OBVIOUS
    <2> QED
      BY <1>23, <2>1 DEF Stage
  <1>24. CASE Cleanup
    BY <1>24 DEF Cleanup, CleanupClear, GroupExists, Listening
  <1>25. CASE CleanupRemove
    BY <1>25 DEF CleanupRemove, RootGone
  <1>26. CASE Report
    BY <1>26 DEF Report
  <1>27. CASE NginxBoot
    BY <1>27 DEF NginxBoot
  <1>28. CASE NginxFork
    BY <1>28 DEF NginxFork
  <1>29. CASE Reap
    BY <1>29 DEF Reap
  <1>30. CASE Rerun
    BY <1>30 DEF Rerun, GroupExists
  <1>31. CASE Kill
    <2>1. CASE KilledAdmission
      BY <1>31, <2>1 DEF Kill, KilledAdmission
    <2>2. CASE KilledStop
      BY <1>31, <2>2 DEF Kill, KilledStop, FailMain, Always
    <2>3. CASE KilledCleanup
      BY <1>31, <2>3 DEF Kill, KilledCleanup
    <2>4. CASE KilledMain
      BY <1>31, <2>4 DEF Kill, KilledMain, FailMain, Always
    <2> QED
      BY <1>31, <2>1, <2>2, <2>3, <2>4, KillCases DEF BInv
  <1>32. ASSUME NEW p \in {"master", "worker"}, NginxExit(p)
        PROVE  res' \in Results
    BY <1>32 DEF NginxExit
  <1>33. ASSUME NEW a \in Artifacts, Rewrite(a)
        PROVE  res' \in Results
    BY <1>33 DEF Rewrite
  <1>34. CASE UNCHANGED vars
    BY <1>34 DEF vars
  <1> QED
    BY <1>1, <1>2, <1>3, <1>4, <1>5, <1>6, <1>7, <1>8, <1>9, <1>10, <1>11, <1>12,
       <1>13, <1>14, <1>15, <1>16, <1>17, <1>18, <1>19, <1>20, <1>21, <1>22, <1>23,
       <1>24, <1>25, <1>26, <1>27, <1>28, <1>29, <1>30, <1>31, <1>32, <1>33, <1>34
       DEF Next, Broker, Nginx

\* A step keeps the types.
LEMMA TypeStep == BInv /\ [Next]_vars => TypeOK'
  <1> SUFFICES ASSUME BInv, [Next]_vars
               PROVE  (zombie \in BOOLEAN)'
    BY ValuesStep, ResultStep, Zenon DEF TypeOK, ValuesOK, Results
  <1> zombie \in BOOLEAN
    BY TypeParts DEF BInv
  <1> QED
    BY DEF Next, Broker, Nginx, AdmitReject, CreateRoot, AdmitError, WriteManifest,
           Rollback, HashSource, CopyIntoRoot, ConfigTest, StartSpawn, StartPoll,
           StartTerminate, StartWriteState, Profile, ProfileState, Identity, StopBegin,
           StopKill, StopWait, StopKill9, StopPid, StopState, Project, Stage, Cleanup,
           CleanupRemove, Report, NginxBoot, NginxFork, NginxExit, Reap, Rerun, Kill,
           Rewrite, vars, nginx

\* Every step of the workflow, of NGINX and of the runner's user keeps BInv.
LEMMA InvStep == BInv /\ [Next]_vars => BInv'
  <1> SUFFICES ASSUME BInv, [Next]_vars
               PROVE  SafetyInv'
    BY TypeStep DEF BInv
  <1> USE BrokerConstants
          DEF BInv, SafetyInv, TypeOK, AdmittedBytesBound, AdmittedByThisAttempt,
              FailedAdmissionLeavesNothing, AdmissionInv, ProcessInv, StoppedMeansGone,
              VerdictInv, Contents, Phases, NoState, StateKeys, Fresh, Commands, Admitting,
              Starting, files, nginx
  <1>1. CASE AdmitReject
    BY <1>1 DEF AdmitReject
  <1>2. CASE CreateRoot
    BY <1>2 DEF CreateRoot
  <1>3. CASE AdmitError
    BY <1>3 DEF AdmitError
  <1>4. CASE WriteManifest
    BY <1>4 DEF WriteManifest
  <1>5. CASE Rollback
    <2>1. CASE RootGone /\ res' = [res EXCEPT !.main = "fail", !.admit = "fail"]
      BY <1>5, <2>1 DEF Rollback, RootGone
    <2>2. CASE UNCHANGED files /\ res' = [res EXCEPT !.main = "fail", !.admit = "unremoved"]
      BY <1>5, <2>2 DEF Rollback
    <2> QED
      BY <1>5, <2>1, <2>2 DEF Rollback
  <1>6. ASSUME NEW a \in Artifacts, HashSource(a)
        PROVE  SafetyInv'
    BY <1>6 DEF HashSource
  <1>7. ASSUME NEW a \in Artifacts, CopyIntoRoot(a)
        PROVE  SafetyInv'
    BY <1>7 DEF CopyIntoRoot
  <1>8. CASE ConfigTest
    BY <1>8 DEF ConfigTest, FailMain, Always
  <1>9. CASE StartSpawn
    BY <1>9 DEF StartSpawn, FailMain, Always
  <1>10. CASE StartPoll
    BY <1>10 DEF StartPoll, FailMain, Always
  <1>11. CASE StartTerminate
    BY <1>11 DEF StartTerminate, FailMain, Always
  <1>12. CASE StartWriteState
    BY <1>12 DEF StartWriteState
  <1>13. CASE Profile
    BY <1>13 DEF Profile, FailMain, Always, PolicyEvidence
  <1>14. CASE ProfileState
    BY <1>14 DEF ProfileState
  <1>15. CASE Identity
    BY <1>15 DEF Identity, FailMain, Always
  <1>16. CASE StopBegin
    BY <1>16 DEF StopBegin, StopDone, FailStop, FailMain, Always, Second, GroupExists
  <1>17. CASE StopKill
    BY <1>17 DEF StopKill, FailStop, FailMain, Always, Second, GroupExists
  <1>18. CASE StopWait
    BY <1>18 DEF StopWait, GroupExists
  <1>19. CASE StopKill9
    BY <1>19 DEF StopKill9, FailStop, FailMain, Always, Second, GroupExists
  <1>20. CASE StopPid
    BY <1>20 DEF StopPid
  <1>21. CASE StopState
    BY <1>21 DEF StopState, StopDone, Second
  <1>22. CASE Project
    BY <1>22 DEF Project, FailMain, Always
  <1>23. CASE Stage
    BY <1>23 DEF Stage
  <1>24. CASE Cleanup
    BY <1>24 DEF Cleanup, CleanupClear, GroupExists, Listening
  <1>25. CASE CleanupRemove
    BY <1>25 DEF CleanupRemove, RootGone
  <1>26. CASE Report
    BY <1>26 DEF Report
  <1>27. CASE NginxBoot
    BY <1>27 DEF NginxBoot
  <1>28. CASE NginxFork
    BY <1>28 DEF NginxFork
  <1>29. CASE Reap
    BY <1>29 DEF Reap
  <1>30. CASE Rerun
    BY <1>30 DEF Rerun, GroupExists
  <1>31. CASE Kill
    <2>1. CASE KilledAdmission
      BY <1>31, <2>1 DEF Kill, KilledAdmission
    <2>2. CASE KilledStop
      BY <1>31, <2>2 DEF Kill, KilledStop, FailMain, Always
    <2>3. CASE KilledCleanup
      BY <1>31, <2>3 DEF Kill, KilledCleanup
    <2>4. CASE KilledMain
      BY <1>31, <2>4 DEF Kill, KilledMain, FailMain, Always
    <2> QED
      BY <1>31, <2>1, <2>2, <2>3, <2>4, KillCases DEF BInv
  <1>32. ASSUME NEW p \in {"master", "worker"}, NginxExit(p)
        PROVE  SafetyInv'
    BY <1>32 DEF NginxExit
  <1>33. ASSUME NEW a \in Artifacts, Rewrite(a)
        PROVE  SafetyInv'
    BY <1>33 DEF Rewrite
  <1>34. CASE UNCHANGED vars
    BY <1>34 DEF vars
  <1> QED
    BY <1>1, <1>2, <1>3, <1>4, <1>5, <1>6, <1>7, <1>8, <1>9, <1>10, <1>11, <1>12,
       <1>13, <1>14, <1>15, <1>16, <1>17, <1>18, <1>19, <1>20, <1>21, <1>22, <1>23,
       <1>24, <1>25, <1>26, <1>27, <1>28, <1>29, <1>30, <1>31, <1>32, <1>33, <1>34
       DEF Next, Broker, Nginx

\* What validate-manifest admits, leaves behind and reports is true in every
\* attempt, however often commands are killed and staged files rewritten.
THEOREM AdmissionTheorem == Spec => []AdmissionSound
  <1>1. BInv => AdmissionSound
    BY DEF BInv, SafetyInv, AdmissionSound
  <1> QED
    BY <1>1, InvInit, InvStep, PTL DEF Spec

-----------------------------------------------------------------------------
(***************************************************************************)
(* The end of a run.  A start that is killed leaves a master without a     *)
(* name, so these results are about runs in which start is not killed.     *)
(***************************************************************************)

\* The two further parts of the invariant, when start is never killed.
LEMMA CleanStep ==
  ASSUME "start" \notin Killable
  PROVE  BInv /\ CInv /\ [Next]_vars => CInv'
  <1> SUFFICES ASSUME BInv, CInv, [Next]_vars
               PROVE  CInv'
    OBVIOUS
  <1> USE BrokerConstants, "start" \notin Killable
          DEF BInv, SafetyInv, CInv, MasterIsNamed, NothingLeft, TypeOK, AdmissionInv,
              ProcessInv, StoppedMeansGone, VerdictInv, Phases, NoState, StateKeys, Fresh,
              Admitting, Starting, files, nginx
  <1>1. CASE AdmitReject
    BY <1>1 DEF AdmitReject
  <1>2. CASE CreateRoot
    BY <1>2 DEF CreateRoot
  <1>3. CASE AdmitError
    BY <1>3 DEF AdmitError
  <1>4. CASE WriteManifest
    BY <1>4 DEF WriteManifest
  <1>5. CASE Rollback
    <2>1. CASE RootGone /\ res' = [res EXCEPT !.main = "fail", !.admit = "fail"]
      BY <1>5, <2>1 DEF Rollback, RootGone
    <2>2. CASE UNCHANGED files /\ res' = [res EXCEPT !.main = "fail", !.admit = "unremoved"]
      BY <1>5, <2>2 DEF Rollback
    <2> QED
      BY <1>5, <2>1, <2>2 DEF Rollback
  <1>6. ASSUME NEW a \in Artifacts, HashSource(a)
        PROVE  CInv'
    BY <1>6 DEF HashSource
  <1>7. ASSUME NEW a \in Artifacts, CopyIntoRoot(a)
        PROVE  CInv'
    BY <1>7 DEF CopyIntoRoot
  <1>8. CASE ConfigTest
    BY <1>8 DEF ConfigTest, FailMain, Always
  <1>9. CASE StartSpawn
    BY <1>9 DEF StartSpawn, FailMain, Always
  <1>10. CASE StartPoll
    BY <1>10 DEF StartPoll, FailMain, Always
  <1>11. CASE StartTerminate
    BY <1>11 DEF StartTerminate, FailMain, Always
  <1>12. CASE StartWriteState
    BY <1>12 DEF StartWriteState
  <1>13. CASE Profile
    BY <1>13 DEF Profile, FailMain, Always, PolicyEvidence
  <1>14. CASE ProfileState
    BY <1>14 DEF ProfileState
  <1>15. CASE Identity
    BY <1>15 DEF Identity, FailMain, Always
  <1>16. CASE StopBegin
    BY <1>16 DEF StopBegin, StopDone, FailStop, FailMain, Always, Second, GroupExists
  <1>17. CASE StopKill
    BY <1>17 DEF StopKill, FailStop, FailMain, Always, Second, GroupExists
  <1>18. CASE StopWait
    BY <1>18 DEF StopWait, GroupExists
  <1>19. CASE StopKill9
    BY <1>19 DEF StopKill9, FailStop, FailMain, Always, Second, GroupExists
  <1>20. CASE StopPid
    BY <1>20 DEF StopPid
  <1>21. CASE StopState
    BY <1>21 DEF StopState, StopDone, Second
  <1>22. CASE Project
    BY <1>22 DEF Project, FailMain, Always
  <1>23. CASE Stage
    BY <1>23 DEF Stage
  <1>24. CASE Cleanup
    BY <1>24 DEF Cleanup, CleanupClear, GroupExists, Listening
  <1>25. CASE CleanupRemove
    BY <1>25 DEF CleanupRemove, RootGone
  <1>26. CASE Report
    BY <1>26 DEF Report
  <1>27. CASE NginxBoot
    BY <1>27 DEF NginxBoot
  <1>28. CASE NginxFork
    BY <1>28 DEF NginxFork
  <1>29. CASE Reap
    BY <1>29 DEF Reap
  <1>30. CASE Rerun
    BY <1>30 DEF Rerun, GroupExists
  <1>31. CASE Kill
    <2>1. CASE KilledAdmission
      BY <1>31, <2>1 DEF Kill, KilledAdmission
    <2>2. CASE KilledStop
      BY <1>31, <2>2 DEF Kill, KilledStop, FailMain, Always
    <2>3. CASE KilledCleanup
      BY <1>31, <2>3 DEF Kill, KilledCleanup
    <2>4. CASE KilledMain
      BY <1>31, <2>4 DEF Kill, KilledMain, FailMain, Always
    <2> QED
      BY <1>31, <2>1, <2>2, <2>3, <2>4, KillCases DEF BInv
  <1>32. ASSUME NEW p \in {"master", "worker"}, NginxExit(p)
        PROVE  CInv'
    BY <1>32 DEF NginxExit
  <1>33. ASSUME NEW a \in Artifacts, Rewrite(a)
        PROVE  CInv'
    BY <1>33 DEF Rewrite
  <1>34. CASE UNCHANGED vars
    BY <1>34 DEF vars
  <1> QED
    BY <1>1, <1>2, <1>3, <1>4, <1>5, <1>6, <1>7, <1>8, <1>9, <1>10, <1>11, <1>12,
       <1>13, <1>14, <1>15, <1>16, <1>17, <1>18, <1>19, <1>20, <1>21, <1>22, <1>23,
       <1>24, <1>25, <1>26, <1>27, <1>28, <1>29, <1>30, <1>31, <1>32, <1>33, <1>34
       DEF Next, Broker, Nginx

\* What stop, cleanup-status and the workflow say about the end of NGINX is
\* true, unless start itself is killed.
THEOREM EndTheorem ==
  ASSUME "start" \notin Killable
  PROVE  Spec => []EndIsClean
  <1>1. BInv /\ CInv => EndIsClean
    BY DEF BInv, SafetyInv, CInv, NothingLeft, VerdictInv, EndIsClean, PassMeansClean
  <1> QED
    BY <1>1, InvInit, InvStep, CleanStep, PTL DEF Spec

\* A run root is taken away only when no process of NGINX lives, unless start
\* is killed.
THEOREM RemovalTheorem ==
  ASSUME "start" \notin Killable
  PROVE  Spec => RemovedOnlyWhenStopped
  <1>1. BInv /\ CInv /\ [Next]_vars
          => [root = "admitted" /\ root' # "admitted" => alive = {}]_vars
    <2> SUFFICES ASSUME BInv, CInv, Next, root = "admitted", root' # "admitted"
                 PROVE  alive = {}
      OBVIOUS
    <2>1. Cleanup
      BY DEF BInv, SafetyInv, AdmissionInv, VerdictInv, Next, Broker, Nginx, AdmitReject,
             CreateRoot, AdmitError, WriteManifest, Rollback, HashSource, CopyIntoRoot,
             ConfigTest, StartSpawn, StartPoll, StartTerminate, StartWriteState, Profile,
             ProfileState, Identity, StopBegin, StopKill, StopWait, StopKill9, StopPid,
             StopState, Project, Stage, CleanupRemove, Report, NginxBoot, NginxFork,
             NginxExit, Reap, Rerun, Kill, Rewrite, files
    <2> QED
      BY <2>1 DEF Cleanup, CleanupClear, GroupExists, Listening, BInv, SafetyInv, CInv,
                  TypeOK, ProcessInv, MasterIsNamed, Starting
  <1> QED
    BY <1>1, InvInit, InvStep, CleanStep, PTL DEF Spec, RemovedOnlyWhenStopped
=============================================================================
