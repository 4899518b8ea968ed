------------------------- MODULE MatrixSchedulerProofs -------------------------
(***************************************************************************)
(* Proofs about MatrixScheduler, for any number of runs, jobs, slots and   *)
(* faults, any verdict of a summary, with and without truncation of the    *)
(* manifest.                                                               *)
(***************************************************************************)
EXTENDS MatrixScheduler, FiniteSetTheorems, TLAPS

-----------------------------------------------------------------------------
(***************************************************************************)
(* The inductive invariant.  It follows a job through the completion FIFO: *)
(* which jobs the scheduler waits for, which have reported, which have     *)
(* left their record, and how many waits it has begun.                     *)
(***************************************************************************)

Messages == [kind : {"complete", "timeout"}, of : Jobs]
QueueType == queue \in [Runs -> Seq(Messages)]
Records == [run : Runs, job : Jobs, rc : Codes \cup {"blank"}]
FilesType == file \in [Jobs -> SUBSET Records]

\* The kernel lock: of two runs at most one has a process that holds it.
LockInv == \A r, q \in Runs : Holds(r) /\ Holds(q) => r = q

Over(r) == sched[r].pc \in {"done", "killed"}

\* make runs under its wrapper or outlives it; the wrapper of a job that has not
\* reported, or its make, keeps the job among those waited for.
JobInv(r) == \A j \in Jobs :
  /\ job[r][j].make => job[r][j].wrap \in {"make", "ended"}
  /\ job[r][j].wrap # "none" <=> j < sched[r].next
  /\ job[r][j].wrote => job[r][j].wrap \in {"report", "exit", "ended"}
  /\ j \in sched[r].active => j < sched[r].next
  /\ job[r][j].wrap \in {"clear", "make", "record", "report"} => j \in sched[r].active
  /\ sched[r].mode = "parallel" /\ job[r][j].make => j \in sched[r].active
  /\ sched[r].mode = "parallel" /\ job[r][j].wrap = "exit" =>
       j \in sched[r].active \/ j = sched[r].reap
  /\ job[r][j].wrap = "report" => sched[r].mode = "parallel"
  /\ sched[r].pc = "new" => ~Working(r, j)

\* The job that is reaped has reported, and its wrapper is about to end.
ReapInv(r) ==
  /\ sched[r].pc = "reap" =>
       /\ sched[r].mode = "parallel"
       /\ sched[r].reap \in Jobs \ sched[r].active /\ sched[r].reap < sched[r].next
       /\ job[r][sched[r].reap].wrap \in {"exit", "ended"} /\ ~job[r][sched[r].reap].make
  /\ ~Over(r) /\ sched[r].pc # "reap" /\ sched[r].reap \in Jobs
       => job[r][sched[r].reap].wrap = "ended"

\* A completion in the FIFO is the only one of a job that is still waited for; a
\* timeout in it is not later than the last one reported.
GoodMessage(r, m) ==
  /\ m.kind = "complete" =>
       /\ sched[r].mode = "parallel" /\ m.of \in sched[r].active
       /\ job[r][m.of].wrap \in {"exit", "ended"} /\ ~job[r][m.of].make
  /\ m.kind = "timeout" => m.of <= dog[r].fired
FifoInv(r) == \A i \in 1 .. Len(queue[r]) :
  /\ GoodMessage(r, queue[r][i])
  /\ \A h \in 1 .. Len(queue[r]) :
       queue[r][i].kind = "complete" /\ queue[r][h] = queue[r][i] => h = i

\* The watchdog that sleeps is the one of the last wait.
DogInv(r) ==
  /\ dog[r].fired <= sched[r].gen
  /\ dog[r].on # 0 => dog[r].on = sched[r].gen

\* A wait has begun for every job that was reaped and for the present one.
WaitInv(r) ==
  /\ sched[r].pc = "new" => sched[r].gen = 0 /\ sched[r].next = 1 /\ sched[r].active = {}
                            /\ sched[r].mode = "parallel"
  /\ sched[r].mode = "serial" => sched[r].gen = 0 /\ sched[r].pc \notin {"read", "abort"}
  /\ sched[r].mode = "serial" /\ sched[r].pc = "plan" => sched[r].active = {}
  /\ sched[r].pc = "waitall" => sched[r].mode = "serial"
  /\ sched[r].pc \in {"wait", "read"} => sched[r].active # {} /\ sched[r].mode = "parallel"
  /\ sched[r].mode = "parallel" /\ ~Over(r) =>
       sched[r].gen + Cardinality(sched[r].active)
         = sched[r].next - 1 + (IF sched[r].pc \in {"read", "abort"} THEN 1 ELSE 0)
  /\ sched[r].pc = "abort" => sched[r].active # {}

\* The slots: what is working is waited for, or reaped.
SlotInv(r) == sched[r].mode = "parallel" =>
  /\ ~Over(r) => Cardinality(sched[r].active) <= Cap
  /\ sched[r].pc \in {"new", "plan", "reap"} => Cardinality(sched[r].active) < Cap
  /\ sched[r].pc \in {"append", "report"} => sched[r].active = {} /\ sched[r].next \notin Jobs

\* The record that lies at the path of a job is the one of run r.
OwnRecord(r, j) == \E rc \in Codes : file[j] = {Record(r, j, rc)}

\* What a job has written is there, and is in the manifest when it is reported on; a job
\* that was reaped has ended, with 0 unless the run says that one failed.
RecordInv(r) == sched[r].mode = "parallel" /\ Alive(r) =>
  /\ \A j \in Jobs : job[r][j].wrote => OwnRecord(r, j)
  /\ \A j \in Jobs :
       j < sched[r].next /\ j \notin sched[r].active /\ ~(sched[r].pc = "reap" /\ j = sched[r].reap)
         => job[r][j].wrap = "ended" /\ (~sched[r].failed => job[r][j].rc = "zero")
  /\ sched[r].pc = "report" => \A j \in Jobs : file[j] \subseteq manifest

\* What concerns one run alone, and what relates it to the others and to the files.
RunInv(r) ==
  /\ JobInv(r) /\ ReapInv(r) /\ FifoInv(r) /\ DogInv(r) /\ WaitInv(r) /\ SlotInv(r)
  /\ sched[r].mode = "parallel" => Cardinality({j \in Jobs : Working(r, j)}) <= Cap
  /\ sched[r].pc = "abort" => dog[r].fired = sched[r].gen

MInv == TypeOK /\ QueueType /\ FilesType /\ LockInv /\ \A r \in Runs : RunInv(r) /\ RecordInv(r)

-----------------------------------------------------------------------------
(* One step of a run *)

\* The processes of run r take a step.
RunStep(r) ==
  \/ Scheduler(r) \/ Interrupt(r) \/ Kill(r) \/ WatchdogFires(r)
  \/ \E j \in Jobs : WrapperStep(r, j) \/ WrapperFault(r, j) \/ MakeEnds(r, j)

\* The types of the variables, one by one.
Pcs == {"new", "plan", "waitall", "wait", "read", "reap", "abort", "append", "report",
        "done", "killed"}
Scheds == [pc : Pcs, mode : {"parallel", "serial"}, gen : 0..N, next : 1..(N + 1),
           active : SUBSET Jobs, reap : 0..N, failed : BOOLEAN, blocked : BOOLEAN,
           code : {-1, 0, 2, 77}]
Wraps == {"none", "clear", "make", "record", "report", "exit", "ended"}
JobStates == [wrap : Wraps, make : BOOLEAN, rc : Codes, wrote : BOOLEAN]

SchedType == sched \in [Runs -> Scheds]
DogType == dog \in [Runs -> [on : 0..N, fired : 0..N]]
JobType == job \in [Runs -> [Jobs -> JobStates]]
SummaryType == summary \in [Jobs -> Summaries]
FileType == \A j \in Jobs : \A rec \in file[j] :
  rec \in [run : Runs, job : {j}, rc : Codes \cup {"blank"}]
ManifestType == manifest \subseteq Records
FaultsType == faults \in 0..MaxFaults

LEMMA TypeParts ==
  ASSUME TypeOK
  PROVE  SchedType /\ DogType /\ JobType /\ SummaryType /\ FileType /\ ManifestType /\ FaultsType
  BY Zenon DEF TypeOK, SchedType, DogType, JobType, SummaryType, FileType, ManifestType, FaultsType,
     Scheds, Pcs, JobStates, Wraps, Records

\* A step of one run leaves the other runs as they are.
LEMMA OtherRuns ==
  ASSUME MInv, NEW r \in Runs, RunStep(r), NEW q \in Runs, q # r
  PROVE  /\ sched'[q] = sched[q] /\ dog'[q] = dog[q] /\ queue'[q] = queue[q]
         /\ job'[q] = job[q]
  <1> DEFINE G == /\ sched'[q] = sched[q] /\ dog'[q] = dog[q] /\ queue'[q] = queue[q]
                  /\ job'[q] = job[q]
  <1>0. SchedType /\ DogType /\ QueueType /\ JobType
    BY TypeParts DEF MInv
  <1> USE <1>0 DEF SchedType, DogType, QueueType, JobType
  <1>1. CASE Refused(r)
    BY <1>1 DEF Refused
  <1>2. CASE Acquire(r)
    BY <1>2 DEF Acquire
  <1>3. CASE Spawn(r)
    BY <1>3 DEF Spawn, Wrapper
  <1>4. CASE PlanRead(r)
    BY <1>4 DEF PlanRead, Step, Release
  <1>5. CASE WaitActiveJobs(r)
    BY <1>5 DEF WaitActiveJobs
  <1>6. CASE StartWatchdog(r)
    BY <1>6 DEF StartWatchdog
  <1>7. CASE ReadComplete(r)
    BY <1>7 DEF ReadComplete, DogOff
  <1>8. CASE ReadTimeout(r)
    BY <1>8 DEF ReadTimeout, Step
  <1>9. CASE Reap(r)
    BY <1>9 DEF Reap
  <1>10. CASE Abort(r)
    BY <1>10 DEF Abort, Interrupt, Fault, Exit77, TerminateJobs, Release
  <1>11. CASE AppendJobs(r)
    BY <1>11 DEF AppendJobs
  <1>12. CASE Report(r)
    BY <1>12 DEF Report, Exit
  <1>13. CASE Interrupt(r)
    BY <1>13 DEF Abort, Interrupt, Fault, Exit77, TerminateJobs, Release
  <1>14. CASE Kill(r)
    BY <1>14 DEF Kill, Fault, Step
  <1>15. CASE WatchdogFires(r)
    BY <1>15 DEF WatchdogFires
  <1>16. ASSUME NEW j \in Jobs, ClearJob(r, j)
        PROVE  G
    BY <1>16 DEF ClearJob, StartMake
  <1>17. ASSUME NEW j \in Jobs, WriteJobJson(r, j)
        PROVE  G
    BY <1>17 DEF WriteJobJson, Wrapper
  <1>18. ASSUME NEW j \in Jobs, ReportCompletion(r, j)
        PROVE  G
    BY <1>18 DEF ReportCompletion, Wrapper
  <1>19. ASSUME NEW j \in Jobs, WrapperExits(r, j)
        PROVE  G
    BY <1>19 DEF WrapperExits, Wrapper
  <1>20. ASSUME NEW j \in Jobs, MakeEnds(r, j)
        PROVE  G
    BY <1>20 DEF MakeEnds
  <1>21. ASSUME NEW j \in Jobs, KillWrapper(r, j)
        PROVE  G
    BY <1>21 DEF KillWrapper, Fault
  <1>22. ASSUME NEW j \in Jobs, RefuseJob(r, j)
        PROVE  G
    BY <1>22 DEF RefuseJob, Fault
  <1>23. ASSUME NEW j \in Jobs, RefuseBuildRoot(r, j)
        PROVE  G
    BY <1>23 DEF RefuseBuildRoot, Fault
  <1>24. ASSUME NEW j \in Jobs, ClearFails(r, j)
        PROVE  G
    BY <1>24 DEF ClearFails, Fault, StartMake
  <1>25. ASSUME NEW j \in Jobs, WriteFails(r, j)
        PROVE  G
    BY <1>25 DEF WriteFails, Fault, Wrapper
  <1>26. CASE SkipReports(r)
    BY <1>26 DEF SkipReports, Exit
  <1> QED
    BY <1>1, <1>2, <1>3, <1>4, <1>5, <1>6, <1>7, <1>8, <1>9, <1>10, <1>11, <1>12,
       <1>13, <1>14, <1>15, <1>16, <1>17, <1>18, <1>19, <1>20, <1>21, <1>22, <1>23,
       <1>24, <1>25, <1>26
       DEF RunStep, Scheduler, WrapperStep, WrapperFault

-----------------------------------------------------------------------------
(* Types *)

\* The waits of a parallel run do not outnumber its jobs.
LEMMA WaitBound ==
  ASSUME MInv, NEW r \in Runs, sched[r].pc = "wait"
  PROVE  sched[r].gen + 1 \in 1 .. N
  <1>0. SchedType /\ WaitInv(r)
    BY TypeParts DEF MInv, RunInv
  <1>1. IsFiniteSet(Jobs)
    BY SchedulerConstants, FS_Interval DEF Jobs
  <1>2. /\ sched[r].active \in SUBSET Jobs /\ sched[r].gen \in 0..N /\ sched[r].next \in 1..(N + 1)
        /\ sched[r].active # {} /\ sched[r].mode = "parallel"
    BY <1>0 DEF SchedType, Scheds, WaitInv
  <1>3. Cardinality(sched[r].active) \in Nat \ {0}
    BY <1>1, <1>2, FS_Subset, FS_CardinalityType, FS_EmptySet
  <1>4. sched[r].gen + Cardinality(sched[r].active) = sched[r].next - 1
    BY <1>0, <1>2, SchedulerConstants DEF WaitInv, Over
  <1> QED
    BY <1>2, <1>3, <1>4, SchedulerConstants

LEMMA SchedStep ==
  ASSUME MInv, NEW r \in Runs, RunStep(r)
  PROVE  SchedType'
  <1>0. SchedType /\ QueueType
    BY TypeParts DEF MInv
  <1>a. sched[r] \in Scheds
    BY <1>0 DEF SchedType
  <1> USE <1>0 DEF SchedType
  <1>b. /\ sched[r].active \in SUBSET Jobs /\ sched[r].next \in 1..(N + 1)
        /\ sched[r].gen \in 0..N
    BY <1>a DEF Scheds
  <1>1. CASE Refused(r)
    <2>1. PICK x \in Scheds : sched' = [sched EXCEPT ![r] = x]
      BY <1>1, <1>a DEF Refused, Scheds, Pcs
    <2> QED
      BY <2>1
  <1>2. CASE Acquire(r)
    <2>1. PICK m \in {"parallel", "serial"} :
            sched' = [sched EXCEPT ![r].pc = "plan", ![r].mode = m]
      BY <1>2 DEF Acquire
    <2>2. PICK x \in Scheds : sched' = [sched EXCEPT ![r] = x]
      BY <1>a, <2>1 DEF Scheds, Pcs
    <2> QED
      BY <2>2
  <1>3. CASE Spawn(r)
    <2>1. sched[r].next + 1 \in 1..(N + 1) /\ sched[r].active \cup {sched[r].next} \in SUBSET Jobs
      BY <1>3, <1>b, SchedulerConstants DEF Spawn, Jobs
    <2>2. PICK p \in Pcs : sched' = [sched EXCEPT ![r].next = sched[r].next + 1,
                             ![r].active = sched[r].active \cup {sched[r].next}, ![r].pc = p]
      BY <1>3 DEF Spawn, Pcs
    <2>3. PICK x \in Scheds : sched' = [sched EXCEPT ![r] = x]
      BY <1>a, <2>1, <2>2 DEF Scheds
    <2> QED
      BY <2>3
  <1>4. CASE PlanRead(r)
    <2>1. PICK x \in Scheds : sched' = [sched EXCEPT ![r] = x]
      BY <1>4, <1>a DEF PlanRead, Step, Scheds, Pcs
    <2> QED
      BY <2>1
  <1>5. CASE WaitActiveJobs(r)
    <2>1. PICK b \in BOOLEAN :
            sched' = [sched EXCEPT ![r].pc = "plan", ![r].active = {}, ![r].failed = b]
      BY <1>5 DEF WaitActiveJobs
    <2>2. PICK x \in Scheds : sched' = [sched EXCEPT ![r] = x]
      BY <1>a, <2>1 DEF Scheds, Pcs
    <2> QED
      BY <2>2
  <1>6. CASE StartWatchdog(r)
    <2>1. sched[r].gen + 1 \in 0..N
      BY <1>6, WaitBound DEF StartWatchdog
    <2>2. PICK x \in Scheds : sched' = [sched EXCEPT ![r] = x]
      BY <1>6, <1>a, <2>1 DEF StartWatchdog, Scheds, Pcs
    <2> QED
      BY <2>2
  <1>7. CASE ReadComplete(r)
    <2>1. Head(queue[r]) \in Messages
      BY <1>7 DEF ReadComplete, QueueType
    <2>2. Head(queue[r]).of \in 0..N /\ sched[r].active \ {Head(queue[r]).of} \in SUBSET Jobs
      BY <1>b, <2>1 DEF Messages, Jobs
    <2>3. PICK x \in Scheds : sched' = [sched EXCEPT ![r] = x]
      BY <1>7, <1>a, <2>2 DEF ReadComplete, Scheds, Pcs
    <2> QED
      BY <2>3
  <1>8. CASE ReadTimeout(r)
    <2>1. CASE sched' = sched
      BY <2>1
    <2>2. CASE Step(r, "abort")
      <3>1. PICK x \in Scheds : sched' = [sched EXCEPT ![r] = x]
        BY <1>a, <2>2 DEF Step, Scheds, Pcs
      <3> QED
        BY <3>1
    <2> QED
      BY <1>8, <2>1, <2>2 DEF ReadTimeout
  <1>9. CASE Reap(r)
    <2>1. PICK b \in BOOLEAN, p \in {"plan", "wait"} :
            sched' = [sched EXCEPT ![r].pc = p, ![r].failed = b]
      BY <1>9 DEF Reap
    <2>2. PICK x \in Scheds : sched' = [sched EXCEPT ![r] = x]
      BY <1>a, <2>1 DEF Scheds, Pcs
    <2> QED
      BY <2>2
  <1>10. CASE Abort(r)
    <2>1. PICK x \in Scheds : sched' = [sched EXCEPT ![r] = x]
      BY <1>10, <1>a DEF Abort, Exit77, Scheds, Pcs
    <2> QED
      BY <2>1
  <1>11. CASE AppendJobs(r)
    <2>1. PICK b \in BOOLEAN : sched' = [sched EXCEPT ![r].pc = "report", ![r].blocked = b]
      BY <1>11 DEF AppendJobs
    <2>2. PICK x \in Scheds : sched' = [sched EXCEPT ![r] = x]
      BY <1>a, <2>1 DEF Scheds, Pcs
    <2> QED
      BY <2>2
  <1>12. CASE Report(r)
    <2>1. PICK c \in {0, 2, 77} : sched' = [sched EXCEPT ![r].pc = "done", ![r].code = c]
      BY <1>12 DEF Report, Exit, MatrixCode
    <2>2. PICK x \in Scheds : sched' = [sched EXCEPT ![r] = x]
      BY <1>a, <2>1 DEF Scheds, Pcs
    <2> QED
      BY <2>2
  <1>13. CASE Interrupt(r)
    <2>1. PICK x \in Scheds : sched' = [sched EXCEPT ![r] = x]
      BY <1>13, <1>a DEF Interrupt, Fault, Exit77, Scheds, Pcs
    <2> QED
      BY <2>1
  <1>14. CASE Kill(r)
    <2>1. PICK x \in Scheds : sched' = [sched EXCEPT ![r] = x]
      BY <1>14, <1>a DEF Kill, Fault, Step, Scheds, Pcs
    <2> QED
      BY <2>1
  <1>15. CASE WatchdogFires(r)
    BY <1>15 DEF WatchdogFires
  <1>16. ASSUME NEW j \in Jobs, ClearJob(r, j)
        PROVE  SchedType'
    BY <1>16 DEF ClearJob, StartMake
  <1>17. ASSUME NEW j \in Jobs, WriteJobJson(r, j)
        PROVE  SchedType'
    BY <1>17 DEF WriteJobJson, Wrapper
  <1>18. ASSUME NEW j \in Jobs, ReportCompletion(r, j)
        PROVE  SchedType'
    BY <1>18 DEF ReportCompletion, Wrapper
  <1>19. ASSUME NEW j \in Jobs, WrapperExits(r, j)
        PROVE  SchedType'
    BY <1>19 DEF WrapperExits, Wrapper
  <1>20. ASSUME NEW j \in Jobs, MakeEnds(r, j)
        PROVE  SchedType'
    BY <1>20 DEF MakeEnds
  <1>21. ASSUME NEW j \in Jobs, KillWrapper(r, j)
        PROVE  SchedType'
    BY <1>21 DEF KillWrapper, Fault
  <1>22. ASSUME NEW j \in Jobs, RefuseJob(r, j)
        PROVE  SchedType'
    BY <1>22 DEF RefuseJob, Fault
  <1>23. ASSUME NEW j \in Jobs, RefuseBuildRoot(r, j)
        PROVE  SchedType'
    BY <1>23 DEF RefuseBuildRoot, Fault
  <1>24. ASSUME NEW j \in Jobs, ClearFails(r, j)
        PROVE  SchedType'
    BY <1>24 DEF ClearFails, Fault, StartMake
  <1>25. ASSUME NEW j \in Jobs, WriteFails(r, j)
        PROVE  SchedType'
    BY <1>25 DEF WriteFails, Fault, Wrapper
  <1>26. CASE SkipReports(r)
    <2>1. PICK c \in {0, 2} : sched' = [sched EXCEPT ![r].pc = "done", ![r].code = c]
      BY <1>26 DEF SkipReports, Exit
    <2>2. PICK x \in Scheds : sched' = [sched EXCEPT ![r] = x]
      BY <1>a, <2>1 DEF Scheds, Pcs
    <2> QED
      BY <2>2
  <1> QED
    BY <1>1, <1>2, <1>3, <1>4, <1>5, <1>6, <1>7, <1>8, <1>9, <1>10, <1>11, <1>12,
       <1>13, <1>14, <1>15, <1>16, <1>17, <1>18, <1>19, <1>20, <1>21, <1>22, <1>23,
       <1>24, <1>25, <1>26
       DEF RunStep, Scheduler, WrapperStep, WrapperFault

LEMMA DogStep ==
  ASSUME MInv, NEW r \in Runs, RunStep(r)
  PROVE  DogType'
  <1>0. DogType
    BY TypeParts DEF MInv
  <1> USE <1>0, SchedulerConstants DEF DogType
  <1>1. CASE Refused(r)
    BY <1>1 DEF Refused
  <1>2. CASE Acquire(r)
    BY <1>2 DEF Acquire
  <1>3. CASE Spawn(r)
    BY <1>3 DEF Spawn, Wrapper
  <1>4. CASE PlanRead(r)
    BY <1>4 DEF PlanRead, Step, Release
  <1>5. CASE WaitActiveJobs(r)
    BY <1>5 DEF WaitActiveJobs
  <1>6. CASE StartWatchdog(r)
    <2>1. sched[r].gen + 1 \in 0..N
      BY <1>6, WaitBound DEF StartWatchdog
    <2> QED
      BY <1>6, <2>1 DEF StartWatchdog
  <1>7. CASE ReadComplete(r)
    BY <1>7 DEF ReadComplete, DogOff
  <1>8. CASE ReadTimeout(r)
    BY <1>8 DEF ReadTimeout, Step
  <1>9. CASE Reap(r)
    BY <1>9 DEF Reap
  <1>10. CASE Abort(r)
    BY <1>10 DEF Abort, Exit77, Release
  <1>11. CASE AppendJobs(r)
    BY <1>11 DEF AppendJobs
  <1>12. CASE Report(r)
    BY <1>12 DEF Report, Exit
  <1>13. CASE Interrupt(r)
    BY <1>13 DEF Interrupt, Fault, Exit77, Release
  <1>14. CASE Kill(r)
    BY <1>14 DEF Kill, Fault, Step
  <1>15. CASE WatchdogFires(r)
    BY <1>15 DEF WatchdogFires
  <1>16. ASSUME NEW j \in Jobs, ClearJob(r, j)
        PROVE  DogType'
    BY <1>16 DEF ClearJob, StartMake
  <1>17. ASSUME NEW j \in Jobs, WriteJobJson(r, j)
        PROVE  DogType'
    BY <1>17 DEF WriteJobJson, Wrapper
  <1>18. ASSUME NEW j \in Jobs, ReportCompletion(r, j)
        PROVE  DogType'
    BY <1>18 DEF ReportCompletion, Wrapper
  <1>19. ASSUME NEW j \in Jobs, WrapperExits(r, j)
        PROVE  DogType'
    BY <1>19 DEF WrapperExits, Wrapper
  <1>20. ASSUME NEW j \in Jobs, MakeEnds(r, j)
        PROVE  DogType'
    BY <1>20 DEF MakeEnds
  <1>21. ASSUME NEW j \in Jobs, KillWrapper(r, j)
        PROVE  DogType'
    BY <1>21 DEF KillWrapper, Fault
  <1>22. ASSUME NEW j \in Jobs, RefuseJob(r, j)
        PROVE  DogType'
    BY <1>22 DEF RefuseJob, Fault
  <1>23. ASSUME NEW j \in Jobs, RefuseBuildRoot(r, j)
        PROVE  DogType'
    BY <1>23 DEF RefuseBuildRoot, Fault
  <1>24. ASSUME NEW j \in Jobs, ClearFails(r, j)
        PROVE  DogType'
    BY <1>24 DEF ClearFails, Fault, StartMake
  <1>25. ASSUME NEW j \in Jobs, WriteFails(r, j)
        PROVE  DogType'
    BY <1>25 DEF WriteFails, Fault, Wrapper
  <1>26. CASE SkipReports(r)
    BY <1>26 DEF SkipReports, Exit
  <1> QED
    BY <1>1, <1>2, <1>3, <1>4, <1>5, <1>6, <1>7, <1>8, <1>9, <1>10, <1>11, <1>12,
       <1>13, <1>14, <1>15, <1>16, <1>17, <1>18, <1>19, <1>20, <1>21, <1>22, <1>23,
       <1>24, <1>25, <1>26
       DEF RunStep, Scheduler, WrapperStep, WrapperFault

\* A step appends a message to the FIFO, reads the first, removes it or leaves it alone.
LEMMA QueueCases ==
  ASSUME MInv, NEW r \in Runs, RunStep(r)
  PROVE  \/ queue' = queue
         \/ /\ queue[r] # <<>> /\ queue' = [queue EXCEPT ![r] = Tail(@)]
            /\ ReadComplete(r) \/ ReadTimeout(r)
         \/ /\ dog[r].on \in Jobs /\ WatchdogFires(r)
            /\ queue' = [queue EXCEPT ![r] = Append(@, Timeout(dog[r].on))]
         \/ queue' = [queue EXCEPT ![r] = <<>>]
         \/ \E j \in Jobs : /\ ReportCompletion(r, j)
                            /\ queue' = [queue EXCEPT ![r] = Append(@, Complete(j))]
  <1> DEFINE G ==
         \/ queue' = queue
         \/ /\ queue[r] # <<>> /\ queue' = [queue EXCEPT ![r] = Tail(@)]
            /\ ReadComplete(r) \/ ReadTimeout(r)
         \/ /\ dog[r].on \in Jobs /\ WatchdogFires(r)
            /\ queue' = [queue EXCEPT ![r] = Append(@, Timeout(dog[r].on))]
         \/ queue' = [queue EXCEPT ![r] = <<>>]
         \/ \E j \in Jobs : /\ ReportCompletion(r, j)
                            /\ queue' = [queue EXCEPT ![r] = Append(@, Complete(j))]
  <1>1. CASE Refused(r)
    BY <1>1 DEF Refused
  <1>2. CASE Acquire(r)
    BY <1>2 DEF Acquire
  <1>3. CASE Spawn(r)
    BY <1>3 DEF Spawn, Wrapper
  <1>4. CASE PlanRead(r)
    BY <1>4 DEF PlanRead, Step, Release
  <1>5. CASE WaitActiveJobs(r)
    BY <1>5 DEF WaitActiveJobs
  <1>6. CASE StartWatchdog(r)
    BY <1>6 DEF StartWatchdog
  <1>7. CASE ReadComplete(r)
    BY <1>7 DEF ReadComplete, DogOff
  <1>8. CASE ReadTimeout(r)
    BY <1>8 DEF ReadTimeout, Step
  <1>9. CASE Reap(r)
    BY <1>9 DEF Reap
  <1>10. CASE Abort(r)
    BY <1>10 DEF Abort, Exit77, Release
  <1>11. CASE AppendJobs(r)
    BY <1>11 DEF AppendJobs
  <1>12. CASE Report(r)
    BY <1>12 DEF Report, Exit
  <1>13. CASE Interrupt(r)
    BY <1>13 DEF Interrupt, Fault, Exit77, Release
  <1>14. CASE Kill(r)
    BY <1>14 DEF Kill, Fault, Step
  <1>15. CASE WatchdogFires(r)
    <2>1. dog[r].on \in 0..N
      BY TypeParts DEF MInv, DogType
    <2> QED
      BY <1>15, <2>1 DEF WatchdogFires, Jobs
  <1>16. ASSUME NEW j \in Jobs, ClearJob(r, j)
        PROVE  G
    BY <1>16 DEF ClearJob, StartMake
  <1>17. ASSUME NEW j \in Jobs, WriteJobJson(r, j)
        PROVE  G
    BY <1>17 DEF WriteJobJson, Wrapper
  <1>18. ASSUME NEW j \in Jobs, ReportCompletion(r, j)
        PROVE  G
    BY <1>18 DEF ReportCompletion, Wrapper
  <1>19. ASSUME NEW j \in Jobs, WrapperExits(r, j)
        PROVE  G
    BY <1>19 DEF WrapperExits, Wrapper
  <1>20. ASSUME NEW j \in Jobs, MakeEnds(r, j)
        PROVE  G
    BY <1>20 DEF MakeEnds
  <1>21. ASSUME NEW j \in Jobs, KillWrapper(r, j)
        PROVE  G
    BY <1>21 DEF KillWrapper, Fault
  <1>22. ASSUME NEW j \in Jobs, RefuseJob(r, j)
        PROVE  G
    BY <1>22 DEF RefuseJob, Fault
  <1>23. ASSUME NEW j \in Jobs, RefuseBuildRoot(r, j)
        PROVE  G
    BY <1>23 DEF RefuseBuildRoot, Fault
  <1>24. ASSUME NEW j \in Jobs, ClearFails(r, j)
        PROVE  G
    BY <1>24 DEF ClearFails, Fault, StartMake
  <1>25. ASSUME NEW j \in Jobs, WriteFails(r, j)
        PROVE  G
    BY <1>25 DEF WriteFails, Fault, Wrapper
  <1>26. CASE SkipReports(r)
    BY <1>26 DEF SkipReports, Exit
  <1> QED
    BY <1>1, <1>2, <1>3, <1>4, <1>5, <1>6, <1>7, <1>8, <1>9, <1>10, <1>11, <1>12,
       <1>13, <1>14, <1>15, <1>16, <1>17, <1>18, <1>19, <1>20, <1>21, <1>22, <1>23,
       <1>24, <1>25, <1>26
       DEF RunStep, Scheduler, WrapperStep, WrapperFault

LEMMA QueueStep ==
  ASSUME MInv, NEW r \in Runs, RunStep(r)
  PROVE  QueueType'
  <1>0. QueueType
    BY DEF MInv
  <1> USE <1>0 DEF QueueType
  <1>1. CASE queue' = queue
    BY <1>1
  <1>2. CASE queue[r] # <<>> /\ queue' = [queue EXCEPT ![r] = Tail(@)]
    BY <1>2
  <1>5. CASE queue' = [queue EXCEPT ![r] = <<>>]
    BY <1>5
  <1>3. ASSUME NEW m \in Messages, queue' = [queue EXCEPT ![r] = Append(@, m)]
        PROVE  QueueType'
    BY <1>3
  <1>4. \A j \in Jobs : Complete(j) \in Messages /\ Timeout(j) \in Messages
    BY DEF Complete, Timeout, Messages
  <1> QED
    BY <1>1, <1>2, <1>3, <1>4, <1>5, QueueCases

\* A step changes the state of one job, or ends the run and some of its wrappers.
LEMMA JobCases ==
  ASSUME MInv, NEW r \in Runs, RunStep(r)
  PROVE  \/ job' = job
         \/ TerminateJobs(r) /\ (Abort(r) \/ Interrupt(r))
         \/ \E j \in Jobs, x \in JobStates : job' = [job EXCEPT ![r][j] = x]
  <1> DEFINE G ==
         \/ job' = job
         \/ TerminateJobs(r) /\ (Abort(r) \/ Interrupt(r))
         \/ \E j \in Jobs, x \in JobStates : job' = [job EXCEPT ![r][j] = x]
  <1>0. JobType
    BY TypeParts DEF MInv
  <1>a. \A i \in Jobs : job[r][i] \in JobStates
    BY <1>0 DEF JobType
  <1>1. CASE Refused(r)
    BY <1>1 DEF Refused
  <1>2. CASE Acquire(r)
    BY <1>2 DEF Acquire
  <1>3. CASE Spawn(r)
    <2>1. sched[r].next \in Jobs /\ job' = [job EXCEPT ![r][sched[r].next].wrap = "clear"]
      BY <1>3 DEF Spawn, Wrapper
    <2>2. [job[r][sched[r].next] EXCEPT !.wrap = "clear"] \in JobStates
      BY <1>a, <2>1 DEF JobStates, Wraps
    <2> QED
      BY <2>1, <2>2
  <1>4. CASE PlanRead(r)
    BY <1>4 DEF PlanRead, Step, Release
  <1>5. CASE WaitActiveJobs(r)
    BY <1>5 DEF WaitActiveJobs
  <1>6. CASE StartWatchdog(r)
    BY <1>6 DEF StartWatchdog
  <1>7. CASE ReadComplete(r)
    BY <1>7 DEF ReadComplete, DogOff
  <1>8. CASE ReadTimeout(r)
    BY <1>8 DEF ReadTimeout, Step
  <1>9. CASE Reap(r)
    BY <1>9 DEF Reap
  <1>10. CASE Abort(r)
    BY <1>10 DEF Abort, Interrupt, Fault, Exit77
  <1>11. CASE AppendJobs(r)
    BY <1>11 DEF AppendJobs
  <1>12. CASE Report(r)
    BY <1>12 DEF Report, Exit
  <1>13. CASE Interrupt(r)
    BY <1>13 DEF Abort, Interrupt, Fault, Exit77
  <1>14. CASE Kill(r)
    BY <1>14 DEF Kill, Fault, Step
  <1>15. CASE WatchdogFires(r)
    BY <1>15 DEF WatchdogFires
  <1>16. ASSUME NEW j \in Jobs, ClearJob(r, j)
        PROVE  G
    <2>1. [job[r][j] EXCEPT !.wrap = "make", !.make = TRUE] \in JobStates
      BY <1>a DEF JobStates, Wraps
    <2>2. job' = [job EXCEPT ![r][j] = [job[r][j] EXCEPT !.wrap = "make", !.make = TRUE]]
      BY <1>16, <1>0 DEF ClearJob, StartMake, JobType
    <2> QED
      BY <2>1, <2>2
  <1>17. ASSUME NEW j \in Jobs, WriteJobJson(r, j)
        PROVE  G
    <2>1. PICK w \in Wraps : job' = [job EXCEPT ![r][j].wrap = w, ![r][j].wrote = TRUE]
      BY <1>17 DEF WriteJobJson, JobReturns, Wraps
    <2>2. [job[r][j] EXCEPT !.wrap = w, !.wrote = TRUE] \in JobStates
      BY <1>a, <2>1 DEF JobStates, Wraps
    <2>3. job' = [job EXCEPT ![r][j] = [job[r][j] EXCEPT !.wrap = w, !.wrote = TRUE]]
      BY <2>1, <1>0 DEF JobType
    <2> QED
      BY <2>2, <2>3
  <1>18. ASSUME NEW j \in Jobs, ReportCompletion(r, j)
        PROVE  G
    <2>1. PICK w \in Wraps : job' = [job EXCEPT ![r][j].wrap = w]
      BY <1>18 DEF ReportCompletion, WrapperExits, Wrapper, Wraps
    <2>2. [job[r][j] EXCEPT !.wrap = w] \in JobStates
      BY <1>a, <2>1 DEF JobStates, Wraps
    <2> QED
      BY <2>1, <2>2
  <1>19. ASSUME NEW j \in Jobs, WrapperExits(r, j)
        PROVE  G
    <2>1. PICK w \in Wraps : job' = [job EXCEPT ![r][j].wrap = w]
      BY <1>19 DEF ReportCompletion, WrapperExits, Wrapper, Wraps
    <2>2. [job[r][j] EXCEPT !.wrap = w] \in JobStates
      BY <1>a, <2>1 DEF JobStates, Wraps
    <2> QED
      BY <2>1, <2>2
  <1>20. ASSUME NEW j \in Jobs, MakeEnds(r, j)
        PROVE  G
    <2>1. PICK w \in Wraps, rc \in Codes :
            job' = [job EXCEPT ![r][j].make = FALSE, ![r][j].wrap = w, ![r][j].rc = rc]
      <3>1. job[r][j].wrap \in Wraps /\ job[r][j].rc \in Codes
        BY <1>a DEF JobStates
      <3>2. CASE job[r][j].wrap = "make"
        BY <1>20, <3>1, <3>2, <1>0 DEF MakeEnds, Wraps, Codes, JobType, JobStates
      <3>3. CASE job[r][j].wrap # "make"
        <4>1. job' = [job EXCEPT ![r][j].make = FALSE, ![r][j].wrap = job[r][j].wrap,
                                 ![r][j].rc = job[r][j].rc]
          BY <1>20, <3>3, <1>0 DEF MakeEnds, JobType, JobStates
        <4> QED
          BY <3>1, <4>1
      <3> QED
        BY <3>2, <3>3
    <2>2. [job[r][j] EXCEPT !.make = FALSE, !.wrap = w, !.rc = rc] \in JobStates
      BY <1>a, <2>1 DEF JobStates, Wraps
    <2>3. job' = [job EXCEPT ![r][j] = [job[r][j] EXCEPT !.make = FALSE, !.wrap = w, !.rc = rc]]
      BY <2>1, <1>0 DEF JobType
    <2> QED
      BY <2>2, <2>3
  <1>21. ASSUME NEW j \in Jobs, KillWrapper(r, j)
        PROVE  G
    <2>1. [job[r][j] EXCEPT !.wrap = "ended", !.rc = "error"] \in JobStates
      BY <1>a DEF JobStates, Wraps, Codes
    <2>2. job' = [job EXCEPT ![r][j] = [job[r][j] EXCEPT !.wrap = "ended", !.rc = "error"]]
      BY <1>21, <1>0 DEF KillWrapper, JobType
    <2> QED
      BY <2>1, <2>2
  <1>22. ASSUME NEW j \in Jobs, RefuseJob(r, j)
        PROVE  G
    <2>1. PICK w \in Wraps : job' = [job EXCEPT ![r][j].wrap = w, ![r][j].rc = "blocked"]
      BY <1>22 DEF RefuseJob, JobReturns, Wraps
    <2>2. [job[r][j] EXCEPT !.wrap = w, !.rc = "blocked"] \in JobStates
      BY <1>a, <2>1 DEF JobStates, Wraps, Codes
    <2>3. job' = [job EXCEPT ![r][j] = [job[r][j] EXCEPT !.wrap = w, !.rc = "blocked"]]
      BY <2>1, <1>0 DEF JobType
    <2> QED
      BY <2>2, <2>3
  <1>23. ASSUME NEW j \in Jobs, RefuseBuildRoot(r, j)
        PROVE  G
    <2>1. [job[r][j] EXCEPT !.wrap = "record", !.rc = "blocked"] \in JobStates
      BY <1>a DEF JobStates, Wraps, Codes
    <2>2. job' = [job EXCEPT ![r][j] = [job[r][j] EXCEPT !.wrap = "record", !.rc = "blocked"]]
      BY <1>23, <1>0 DEF RefuseBuildRoot, JobType
    <2> QED
      BY <2>1, <2>2
  <1>24. ASSUME NEW j \in Jobs, ClearFails(r, j)
        PROVE  G
    <2>1. [job[r][j] EXCEPT !.wrap = "make", !.make = TRUE] \in JobStates
      BY <1>a DEF JobStates, Wraps
    <2>2. job' = [job EXCEPT ![r][j] = [job[r][j] EXCEPT !.wrap = "make", !.make = TRUE]]
      BY <1>24, <1>0 DEF ClearFails, StartMake, JobType
    <2> QED
      BY <2>1, <2>2
  <1>25. ASSUME NEW j \in Jobs, WriteFails(r, j)
        PROVE  G
    <2>1. PICK w \in Wraps : job' = [job EXCEPT ![r][j].wrap = w]
      BY <1>25 DEF WriteFails, JobReturns, Wrapper, Wraps
    <2>2. [job[r][j] EXCEPT !.wrap = w] \in JobStates
      BY <1>a, <2>1 DEF JobStates, Wraps
    <2> QED
      BY <2>1, <2>2
  <1>26. CASE SkipReports(r)
    BY <1>26 DEF SkipReports, Exit
  <1> QED
    BY <1>1, <1>2, <1>3, <1>4, <1>5, <1>6, <1>7, <1>8, <1>9, <1>10, <1>11, <1>12,
       <1>13, <1>14, <1>15, <1>16, <1>17, <1>18, <1>19, <1>20, <1>21, <1>22, <1>23,
       <1>24, <1>25, <1>26
       DEF RunStep, Scheduler, WrapperStep, WrapperFault

LEMMA JobTypeStep ==
  ASSUME MInv, NEW r \in Runs, RunStep(r)
  PROVE  JobType'
  <1>0. JobType
    BY TypeParts DEF MInv
  <1> USE <1>0 DEF JobType
  <1>1. CASE job' = job
    BY <1>1
  <1>2. CASE TerminateJobs(r)
    <2> DEFINE f == [j \in Jobs |-> IF j \in sched[r].active /\ job[r][j].wrap # "ended"
                      THEN [job[r][j] EXCEPT !.wrap = "ended", !.rc = "error"] ELSE job[r][j]]
    <2>1. job' = [job EXCEPT ![r] = f]
      BY <1>2 DEF TerminateJobs
    <2>2. ASSUME NEW j \in Jobs
          PROVE  [job[r][j] EXCEPT !.wrap = "ended", !.rc = "error"] \in JobStates
      <3>1. job[r][j] \in JobStates
        OBVIOUS
      <3> QED
        BY <3>1 DEF JobStates, Wraps, Codes
    <2>3. f \in [Jobs -> JobStates]
      BY <2>2
    <2> HIDE DEF f
    <2> QED
      BY <2>1, <2>3
  <1>3. ASSUME NEW j \in Jobs, NEW x \in JobStates, job' = [job EXCEPT ![r][j] = x]
        PROVE  JobType'
    BY <1>3
  <1> QED
    BY <1>1, <1>2, <1>3, JobCases

LEMMA FilesStep ==
  ASSUME MInv, NEW r \in Runs, RunStep(r)
  PROVE  SummaryType' /\ FileType' /\ ManifestType' /\ FaultsType'
  <1>0. FilesType /\ SummaryType /\ FileType /\ ManifestType /\ FaultsType /\ JobType
    BY TypeParts DEF MInv
  <1> USE <1>0, SchedulerConstants DEF SummaryType, Summaries, ManifestType, FaultsType
  <1>a. file' = file => FileType'
    BY DEF FileType
  <1>1. CASE Refused(r)
    BY <1>1, <1>a DEF Refused
  <1>2. CASE Acquire(r)
    BY <1>2, <1>a DEF Acquire
  <1>3. CASE Spawn(r)
    BY <1>3, <1>a DEF Spawn, Wrapper
  <1>4. CASE PlanRead(r)
    BY <1>4, <1>a DEF PlanRead, Step, Release
  <1>5. CASE WaitActiveJobs(r)
    BY <1>5, <1>a DEF WaitActiveJobs
  <1>6. CASE StartWatchdog(r)
    BY <1>6, <1>a DEF StartWatchdog
  <1>7. CASE ReadComplete(r)
    BY <1>7, <1>a DEF ReadComplete, DogOff
  <1>8. CASE ReadTimeout(r)
    BY <1>8, <1>a DEF ReadTimeout, Step
  <1>9. CASE Reap(r)
    BY <1>9, <1>a DEF Reap
  <1>10. CASE Abort(r)
    BY <1>10, <1>a DEF Abort, Exit77, Release
  <1>11. CASE AppendJobs(r)
    <2>1. \A j \in Jobs : \A rec \in file[j] : rec \in Records
      BY DEF FileType, Records
    <2>2. manifest' \subseteq Records
      BY <1>11, <2>1 DEF AppendJobs
    <2> QED
      BY <1>11, <1>a, <2>2 DEF AppendJobs
  <1>12. CASE Report(r)
    BY <1>12, <1>a DEF Report, Exit
  <1>13. CASE Interrupt(r)
    BY <1>13, <1>a DEF Interrupt, Fault, Exit77, Release
  <1>14. CASE Kill(r)
    BY <1>14, <1>a DEF Kill, Fault, Step
  <1>15. CASE WatchdogFires(r)
    BY <1>15, <1>a DEF WatchdogFires
  <1>16. ASSUME NEW j \in Jobs, ClearJob(r, j)
        PROVE  SummaryType' /\ FileType' /\ ManifestType' /\ FaultsType'
    <2>1. FileType'
      BY <1>16 DEF ClearJob, FileType, FilesType
    <2> QED
      BY <1>16, <2>1 DEF ClearJob
  <1>17. ASSUME NEW j \in Jobs, WriteJobJson(r, j)
        PROVE  SummaryType' /\ FileType' /\ ManifestType' /\ FaultsType'
    <2>1. Record(r, j, job[r][j].rc) \in [run : Runs, job : {j}, rc : Codes \cup {"blank"}]
      BY DEF Record, JobType, JobStates
    <2>2. FileType'
      BY <1>17, <2>1 DEF WriteJobJson, FileType, FilesType
    <2> QED
      BY <1>17, <2>2 DEF WriteJobJson
  <1>18. ASSUME NEW j \in Jobs, ReportCompletion(r, j)
        PROVE  SummaryType' /\ FileType' /\ ManifestType' /\ FaultsType'
    BY <1>18, <1>a DEF ReportCompletion, Wrapper
  <1>19. ASSUME NEW j \in Jobs, WrapperExits(r, j)
        PROVE  SummaryType' /\ FileType' /\ ManifestType' /\ FaultsType'
    BY <1>19, <1>a DEF WrapperExits, Wrapper
  <1>20. ASSUME NEW j \in Jobs, MakeEnds(r, j)
        PROVE  SummaryType' /\ FileType' /\ ManifestType' /\ FaultsType'
    BY <1>20, <1>a DEF MakeEnds
  <1>21. ASSUME NEW j \in Jobs, KillWrapper(r, j)
        PROVE  SummaryType' /\ FileType' /\ ManifestType' /\ FaultsType'
    BY <1>21, <1>a DEF KillWrapper, Fault
  <1>22. ASSUME NEW j \in Jobs, RefuseJob(r, j)
        PROVE  SummaryType' /\ FileType' /\ ManifestType' /\ FaultsType'
    BY <1>22, <1>a DEF RefuseJob, Fault
  <1>23. ASSUME NEW j \in Jobs, RefuseBuildRoot(r, j)
        PROVE  SummaryType' /\ FileType' /\ ManifestType' /\ FaultsType'
    <2>1. FileType'
      BY <1>23 DEF RefuseBuildRoot, FileType, FilesType
    <2> QED
      BY <1>23, <2>1 DEF RefuseBuildRoot, Fault
  <1>24. ASSUME NEW j \in Jobs, ClearFails(r, j)
        PROVE  SummaryType' /\ FileType' /\ ManifestType' /\ FaultsType'
    <2>1. PICK f \in {{}, file[j]}, x \in {"none", summary[j]} :
            file' = [file EXCEPT ![j] = f] /\ summary' = [summary EXCEPT ![j] = x]
      BY <1>24 DEF ClearFails
    <2>2. FileType'
      BY <2>1 DEF FileType, FilesType
    <2>3. SummaryType'
      BY <2>1
    <2> QED
      BY <1>24, <2>2, <2>3 DEF ClearFails, Fault
  <1>25. ASSUME NEW j \in Jobs, WriteFails(r, j)
        PROVE  SummaryType' /\ FileType' /\ ManifestType' /\ FaultsType'
    <2>1. Record(r, j, "blank") \in [run : Runs, job : {j}, rc : Codes \cup {"blank"}]
      BY DEF Record
    <2>2. PICK f \in {file[j], {Record(r, j, "blank")}} : file' = [file EXCEPT ![j] = f]
      BY <1>25 DEF WriteFails
    <2>3. FileType'
      BY <2>1, <2>2 DEF FileType, FilesType
    <2> QED
      BY <1>25, <2>3 DEF WriteFails, Fault
  <1>26. CASE SkipReports(r)
    BY <1>26, <1>a DEF SkipReports, Exit
  <1> QED
    BY <1>1, <1>2, <1>3, <1>4, <1>5, <1>6, <1>7, <1>8, <1>9, <1>10, <1>11, <1>12,
       <1>13, <1>14, <1>15, <1>16, <1>17, <1>18, <1>19, <1>20, <1>21, <1>22, <1>23,
       <1>24, <1>25, <1>26
       DEF RunStep, Scheduler, WrapperStep, WrapperFault

-----------------------------------------------------------------------------
(* One run *)

\* What a step of run r does to its job i.
JobEffect(r, i) ==
  LET old == job[r][i]  new == job'[r][i] IN
  \/ new = old
  \/ Spawn(r) /\ i = sched[r].next /\ new.wrap = "clear" /\ new.make = old.make
     /\ new.wrote = old.wrote
     /\ sched[r].pc = "plan" /\ i < sched'[r].next /\ i \in sched'[r].active
  \/ (Abort(r) \/ Interrupt(r)) /\ new.wrap = "ended" /\ new.make = old.make
     /\ new.wrote = old.wrote /\ i \in sched[r].active /\ sched'[r].pc = "done"
  \/ WriteJobJson(r, i) /\ sched' = sched /\ old.wrap = "record" /\ new.make = old.make
     /\ new.rc = old.rc /\ new.wrote = TRUE /\ new.wrap = JobReturns(r, i)
  \/ /\ sched' = sched /\ new.wrote = old.wrote
     /\ \/ (ClearJob(r, i) \/ ClearFails(r, i)) /\ old.wrap = "clear" /\ new.wrap = "make"
           /\ new.make = TRUE /\ new.rc = old.rc
        \/ RefuseJob(r, i) /\ old.wrap = "clear" /\ new.wrap = JobReturns(r, i)
           /\ new.make = old.make
        \/ RefuseBuildRoot(r, i) /\ old.wrap = "clear" /\ new.wrap = "record"
           /\ new.make = old.make
        \/ WriteFails(r, i) /\ old.wrap = "record" /\ new.wrap = JobReturns(r, i)
           /\ new.make = old.make /\ new.rc = old.rc
        \/ ReportCompletion(r, i) /\ old.wrap = "report" /\ new.wrap = "exit"
           /\ new.make = old.make /\ new.rc = old.rc
        \/ WrapperExits(r, i) /\ old.wrap = "exit" /\ new.wrap = "ended"
           /\ new.make = old.make /\ new.rc = old.rc
        \/ MakeEnds(r, i) /\ old.make = TRUE /\ old.wrap = "make" /\ new.wrap = "record"
           /\ new.make = FALSE
        \/ MakeEnds(r, i) /\ old.make = TRUE /\ old.wrap # "make" /\ new.wrap = old.wrap
           /\ new.make = FALSE /\ new.rc = old.rc
        \/ KillWrapper(r, i) /\ old.wrap \notin {"none", "ended"} /\ new.wrap = "ended"
           /\ new.make = old.make

LEMMA JobStep ==
  ASSUME MInv, NEW r \in Runs, RunStep(r), NEW i \in Jobs
  PROVE  JobEffect(r, i)
  <1>0. JobType /\ SchedType
    BY TypeParts DEF MInv
  <1>a. sched[r] \in Scheds
    BY <1>0 DEF SchedType
  <1> USE <1>0 DEF JobType, SchedType
  <1>1. CASE Refused(r)
    <2>1. job'[r][i] = job[r][i]
      BY <1>1 DEF Refused
    <2> QED
      BY <2>1 DEF JobEffect
  <1>2. CASE Acquire(r)
    <2>1. job'[r][i] = job[r][i]
      BY <1>2 DEF Acquire
    <2> QED
      BY <2>1 DEF JobEffect
  <1>3. CASE Spawn(r)
    <2>1. sched[r].next \in Jobs /\ job' = [job EXCEPT ![r][sched[r].next].wrap = "clear"]
      BY <1>3 DEF Spawn, Wrapper
    <2>2. CASE i = sched[r].next
      <3>1. job'[r][i] = [job[r][i] EXCEPT !.wrap = "clear"]
        BY <2>1, <2>2
      <3>2. PICK p : sched'[r] = [sched[r] EXCEPT !.next = sched[r].next + 1,
                                   !.active = sched[r].active \cup {sched[r].next}, !.pc = p]
        BY <1>3 DEF Spawn
      <3>3. sched[r].pc = "plan" /\ i < sched'[r].next /\ i \in sched'[r].active
        BY <1>3, <1>a, <2>2, <3>2 DEF Spawn, Scheds, Jobs
      <3> QED
        BY <1>3, <2>2, <3>1, <3>3 DEF JobEffect, JobStates
    <2>3. CASE i # sched[r].next
      <3>1. job'[r][i] = job[r][i]
        BY <2>1, <2>3
      <3> QED
        BY <3>1 DEF JobEffect
    <2> QED
      BY <2>2, <2>3
  <1>4. CASE PlanRead(r)
    <2>1. job'[r][i] = job[r][i]
      BY <1>4 DEF PlanRead, Step, Release
    <2> QED
      BY <2>1 DEF JobEffect
  <1>5. CASE WaitActiveJobs(r)
    <2>1. job'[r][i] = job[r][i]
      BY <1>5 DEF WaitActiveJobs
    <2> QED
      BY <2>1 DEF JobEffect
  <1>6. CASE StartWatchdog(r)
    <2>1. job'[r][i] = job[r][i]
      BY <1>6 DEF StartWatchdog
    <2> QED
      BY <2>1 DEF JobEffect
  <1>7. CASE ReadComplete(r)
    <2>1. job'[r][i] = job[r][i]
      BY <1>7 DEF ReadComplete
    <2> QED
      BY <2>1 DEF JobEffect
  <1>8. CASE ReadTimeout(r)
    <2>1. job'[r][i] = job[r][i]
      BY <1>8 DEF ReadTimeout, Step
    <2> QED
      BY <2>1 DEF JobEffect
  <1>9. CASE Reap(r)
    <2>1. job'[r][i] = job[r][i]
      BY <1>9 DEF Reap
    <2> QED
      BY <2>1 DEF JobEffect
  <1>10. CASE Abort(r)
    <2>1. TerminateJobs(r)
      BY <1>10 DEF Abort, Interrupt, Fault, Exit77
    <2>2. \/ job'[r][i] = job[r][i]
          \/ /\ i \in sched[r].active
             /\ job'[r][i] = [job[r][i] EXCEPT !.wrap = "ended", !.rc = "error"]
      BY <2>1 DEF TerminateJobs
    <2>3. job[r][i] \in JobStates
      OBVIOUS
    <2>4. sched'[r] = [sched[r] EXCEPT !.pc = "done", !.code = 77]
      BY <1>10 DEF Abort, Interrupt, Fault, Exit77
    <2>5. sched'[r].pc = "done"
      BY <1>a, <2>4 DEF Scheds
    <2> QED
      BY <1>10, <2>2, <2>3, <2>5 DEF JobEffect, JobStates
  <1>11. CASE AppendJobs(r)
    <2>1. job'[r][i] = job[r][i]
      BY <1>11 DEF AppendJobs
    <2> QED
      BY <2>1 DEF JobEffect
  <1>12. CASE Report(r)
    <2>1. job'[r][i] = job[r][i]
      BY <1>12 DEF Report, Exit
    <2> QED
      BY <2>1 DEF JobEffect
  <1>13. CASE Interrupt(r)
    <2>1. TerminateJobs(r)
      BY <1>13 DEF Abort, Interrupt, Fault, Exit77
    <2>2. \/ job'[r][i] = job[r][i]
          \/ /\ i \in sched[r].active
             /\ job'[r][i] = [job[r][i] EXCEPT !.wrap = "ended", !.rc = "error"]
      BY <2>1 DEF TerminateJobs
    <2>3. job[r][i] \in JobStates
      OBVIOUS
    <2>4. sched'[r] = [sched[r] EXCEPT !.pc = "done", !.code = 77]
      BY <1>13 DEF Abort, Interrupt, Fault, Exit77
    <2>5. sched'[r].pc = "done"
      BY <1>a, <2>4 DEF Scheds
    <2> QED
      BY <1>13, <2>2, <2>3, <2>5 DEF JobEffect, JobStates
  <1>14. CASE Kill(r)
    <2>1. job'[r][i] = job[r][i]
      BY <1>14 DEF Kill, Fault, Step
    <2> QED
      BY <2>1 DEF JobEffect
  <1>15. CASE WatchdogFires(r)
    <2>1. job'[r][i] = job[r][i]
      BY <1>15 DEF WatchdogFires
    <2> QED
      BY <2>1 DEF JobEffect
  <1>16. ASSUME NEW j \in Jobs, ClearJob(r, j)
        PROVE  JobEffect(r, i)
    <2>1. CASE i # j
      <3>1. job'[r][i] = job[r][i]
        BY <1>16, <2>1 DEF ClearJob, StartMake
      <3> QED
        BY <3>1 DEF JobEffect
    <2>2. CASE i = j
      <3>1. job'[r][j] = [job[r][j] EXCEPT !.wrap = "make", !.make = TRUE]
        BY <1>16 DEF ClearJob, StartMake
      <3>2. sched' = sched /\ job[r][j].wrap = "clear"
        BY <1>16 DEF ClearJob, StartMake
      <3> QED
        BY <1>16, <2>2, <3>1, <3>2 DEF JobEffect, JobStates
    <2> QED
      BY <2>1, <2>2
  <1>17. ASSUME NEW j \in Jobs, WriteJobJson(r, j)
        PROVE  JobEffect(r, i)
    <2>1. CASE i # j
      <3>1. job'[r][i] = job[r][i]
        BY <1>17, <2>1 DEF WriteJobJson
      <3> QED
        BY <3>1 DEF JobEffect
    <2>2. CASE i = j
      <3>1. job'[r][j] = [job[r][j] EXCEPT !.wrap = JobReturns(r, j), !.wrote = TRUE]
        BY <1>17 DEF WriteJobJson
      <3>2. sched' = sched /\ job[r][j].wrap = "record"
        BY <1>17 DEF WriteJobJson
      <3> QED
        BY <1>17, <2>2, <3>1, <3>2 DEF JobEffect, JobStates
    <2> QED
      BY <2>1, <2>2
  <1>18. ASSUME NEW j \in Jobs, ReportCompletion(r, j)
        PROVE  JobEffect(r, i)
    <2>1. CASE i # j
      <3>1. job'[r][i] = job[r][i]
        BY <1>18, <2>1 DEF ReportCompletion, Wrapper
      <3> QED
        BY <3>1 DEF JobEffect
    <2>2. CASE i = j
      <3>1. job'[r][j] = [job[r][j] EXCEPT !.wrap = "exit"]
        BY <1>18 DEF ReportCompletion, Wrapper
      <3>2. sched' = sched /\ job[r][j].wrap = "report"
        BY <1>18 DEF ReportCompletion, Wrapper
      <3> QED
        BY <1>18, <2>2, <3>1, <3>2 DEF JobEffect, JobStates
    <2> QED
      BY <2>1, <2>2
  <1>19. ASSUME NEW j \in Jobs, WrapperExits(r, j)
        PROVE  JobEffect(r, i)
    <2>1. CASE i # j
      <3>1. job'[r][i] = job[r][i]
        BY <1>19, <2>1 DEF WrapperExits, Wrapper
      <3> QED
        BY <3>1 DEF JobEffect
    <2>2. CASE i = j
      <3>1. job'[r][j] = [job[r][j] EXCEPT !.wrap = "ended"]
        BY <1>19 DEF WrapperExits, Wrapper
      <3>2. sched' = sched /\ job[r][j].wrap = "exit"
        BY <1>19 DEF WrapperExits, Wrapper
      <3> QED
        BY <1>19, <2>2, <3>1, <3>2 DEF JobEffect, JobStates
    <2> QED
      BY <2>1, <2>2
  <1>20. ASSUME NEW j \in Jobs, MakeEnds(r, j)
        PROVE  JobEffect(r, i)
    <2>0. sched' = sched /\ job[r][j].make = TRUE
      BY <1>20 DEF MakeEnds, JobStates
    <2>1. CASE i # j
      <3>1. job'[r][i] = job[r][i]
        BY <1>20, <2>1 DEF MakeEnds
      <3> QED
        BY <3>1 DEF JobEffect
    <2>2. CASE i = j /\ job[r][j].wrap = "make"
      <3>1. job[r][j] \in JobStates
        OBVIOUS
      <3>2. PICK rc \in Codes :
              job' = [job EXCEPT ![r][j].make = FALSE, ![r][j].wrap = "record", ![r][j].rc = rc]
        BY <1>20, <2>2 DEF MakeEnds, JobStates, Codes
      <3> QED
        BY <1>20, <2>2, <3>1, <3>2, <2>0 DEF JobEffect, JobStates
    <2>3. CASE i = j /\ job[r][j].wrap # "make"
      <3>1. job[r][j] \in JobStates
        OBVIOUS
      <3>2. job' = [job EXCEPT ![r][j].make = FALSE, ![r][j].wrap = job[r][j].wrap,
                              ![r][j].rc = job[r][j].rc]
        BY <1>20, <2>3 DEF MakeEnds, JobStates
      <3> QED
        BY <1>20, <2>3, <3>1, <3>2, <2>0 DEF JobEffect, JobStates
    <2> QED
      BY <2>1, <2>2, <2>3
  <1>21. ASSUME NEW j \in Jobs, KillWrapper(r, j)
        PROVE  JobEffect(r, i)
    <2>1. CASE i # j
      <3>1. job'[r][i] = job[r][i]
        BY <1>21, <2>1 DEF KillWrapper, Fault
      <3> QED
        BY <3>1 DEF JobEffect
    <2>2. CASE i = j
      <3>1. job'[r][j] = [job[r][j] EXCEPT !.wrap = "ended", !.rc = "error"]
        BY <1>21 DEF KillWrapper, Fault
      <3>2. sched' = sched /\ job[r][j].wrap \notin {"none", "ended"}
        BY <1>21 DEF KillWrapper, Fault
      <3>3. /\ job'[r][j].wrap = "ended" /\ job'[r][j].make = job[r][j].make
            /\ job'[r][j].wrote = job[r][j].wrote
        BY <3>1 DEF JobStates
      <3> QED
        BY <1>21, <2>2, <3>2, <3>3 DEF JobEffect
    <2> QED
      BY <2>1, <2>2
  <1>22. ASSUME NEW j \in Jobs, RefuseJob(r, j)
        PROVE  JobEffect(r, i)
    <2>1. CASE i # j
      <3>1. job'[r][i] = job[r][i]
        BY <1>22, <2>1 DEF RefuseJob
      <3> QED
        BY <3>1 DEF JobEffect
    <2>2. CASE i = j
      <3>1. job'[r][j] = [job[r][j] EXCEPT !.wrap = JobReturns(r, j), !.rc = "blocked"]
        BY <1>22 DEF RefuseJob
      <3>2. sched' = sched /\ job[r][j].wrap = "clear"
        BY <1>22 DEF RefuseJob
      <3> QED
        BY <1>22, <2>2, <3>1, <3>2 DEF JobEffect, JobStates
    <2> QED
      BY <2>1, <2>2
  <1>23. ASSUME NEW j \in Jobs, RefuseBuildRoot(r, j)
        PROVE  JobEffect(r, i)
    <2>1. CASE i # j
      <3>1. job'[r][i] = job[r][i]
        BY <1>23, <2>1 DEF RefuseBuildRoot
      <3> QED
        BY <3>1 DEF JobEffect
    <2>2. CASE i = j
      <3>1. job'[r][j] = [job[r][j] EXCEPT !.wrap = "record", !.rc = "blocked"]
        BY <1>23 DEF RefuseBuildRoot
      <3>2. sched' = sched /\ job[r][j].wrap = "clear"
        BY <1>23 DEF RefuseBuildRoot
      <3> QED
        BY <1>23, <2>2, <3>1, <3>2 DEF JobEffect, JobStates
    <2> QED
      BY <2>1, <2>2
  <1>24. ASSUME NEW j \in Jobs, ClearFails(r, j)
        PROVE  JobEffect(r, i)
    <2>1. CASE i # j
      <3>1. job'[r][i] = job[r][i]
        BY <1>24, <2>1 DEF ClearFails, StartMake
      <3> QED
        BY <3>1 DEF JobEffect
    <2>2. CASE i = j
      <3>1. job'[r][j] = [job[r][j] EXCEPT !.wrap = "make", !.make = TRUE]
        BY <1>24 DEF ClearFails, StartMake
      <3>2. sched' = sched /\ job[r][j].wrap = "clear"
        BY <1>24 DEF ClearFails
      <3> QED
        BY <1>24, <2>2, <3>1, <3>2 DEF JobEffect, JobStates
    <2> QED
      BY <2>1, <2>2
  <1>25. ASSUME NEW j \in Jobs, WriteFails(r, j)
        PROVE  JobEffect(r, i)
    <2>1. CASE i # j
      <3>1. job'[r][i] = job[r][i]
        BY <1>25, <2>1 DEF WriteFails, Wrapper
      <3> QED
        BY <3>1 DEF JobEffect
    <2>2. CASE i = j
      <3>1. job'[r][j] = [job[r][j] EXCEPT !.wrap = JobReturns(r, j)]
        BY <1>25 DEF WriteFails, Wrapper
      <3>2. sched' = sched /\ job[r][j].wrap = "record"
        BY <1>25 DEF WriteFails
      <3> QED
        BY <1>25, <2>2, <3>1, <3>2 DEF JobEffect, JobStates
    <2> QED
      BY <2>1, <2>2
  <1>26. CASE SkipReports(r)
    <2>1. job'[r][i] = job[r][i]
      BY <1>26 DEF SkipReports, Exit
    <2> QED
      BY <2>1 DEF JobEffect
  <1> QED
    BY <1>1, <1>2, <1>3, <1>4, <1>5, <1>6, <1>7, <1>8, <1>9, <1>10, <1>11, <1>12,
       <1>13, <1>14, <1>15, <1>16, <1>17, <1>18, <1>19, <1>20, <1>21, <1>22, <1>23,
       <1>24, <1>25, <1>26
       DEF RunStep, Scheduler, WrapperStep, WrapperFault

\* What a step of run r does to its scheduler.
Keeps(old, new) ==
  /\ new.mode = old.mode /\ new.gen = old.gen /\ new.next = old.next
  /\ new.active = old.active /\ new.reap = old.reap /\ new.failed = old.failed

SchedEffect(r) ==
  LET old == sched[r]  new == sched'[r] IN
  \/ new = old
  \/ /\ Keeps(old, new)
     /\ \/ Refused(r) /\ old.pc = "new" /\ new.pc = "done"
        \/ PlanRead(r) /\ old.pc = "plan" /\ old.next \notin Jobs
           /\ new.pc = (IF old.active # {} THEN "wait" ELSE "append")
        \/ ReadTimeout(r) /\ old.pc = "read" /\ new.pc = "abort"
           /\ Head(queue[r]).kind = "timeout" /\ Head(queue[r]).of = old.gen
        \/ AppendJobs(r) /\ old.pc = "append" /\ new.pc = "report"
        \/ (Abort(r) \/ Interrupt(r) \/ Kill(r) \/ Report(r) \/ SkipReports(r)) /\ Alive(r)
           /\ new.pc \in {"done", "killed"}
  \/ /\ Acquire(r) /\ old.pc = "new" /\ new.pc = "plan" /\ new.mode \in {"parallel", "serial"}
     /\ new.gen = old.gen /\ new.next = old.next /\ new.active = old.active
     /\ new.reap = old.reap /\ new.failed = old.failed
  \/ /\ Spawn(r) /\ old.pc = "plan" /\ old.next \in Jobs /\ new.next = old.next + 1
     /\ new.active = old.active \cup {old.next} /\ new.mode = old.mode /\ new.gen = old.gen
     /\ new.reap = old.reap /\ new.failed = old.failed
     /\ new.pc = (IF old.mode = "serial" THEN "waitall"
                  ELSE IF Cardinality(new.active) < Cap THEN "plan" ELSE "wait")
  \/ /\ WaitActiveJobs(r) /\ old.pc = "waitall" /\ new.pc = "plan" /\ new.active = {}
     /\ job' = job /\ \A j \in old.active : job[r][j].wrap = "ended"
     /\ new.mode = old.mode /\ new.gen = old.gen /\ new.next = old.next /\ new.reap = old.reap
  \/ /\ StartWatchdog(r) /\ old.pc = "wait" /\ new.pc = "read" /\ new.gen = old.gen + 1
     /\ new.mode = old.mode /\ new.next = old.next /\ new.active = old.active
     /\ new.reap = old.reap /\ new.failed = old.failed
  \/ /\ ReadComplete(r) /\ job' = job /\ old.pc = "read" /\ new.pc = "reap" /\ new.reap = Head(queue[r]).of
     /\ new.active = old.active \ {new.reap} /\ new.mode = old.mode /\ new.gen = old.gen
     /\ new.next = old.next /\ new.failed = old.failed
  \/ /\ Reap(r) /\ job' = job /\ old.pc = "reap" /\ job[r][old.reap].wrap = "ended"
     /\ new.pc = (IF old.next \in Jobs \/ old.active = {} THEN "plan" ELSE "wait")
     /\ new.failed = (old.failed \/ job[r][old.reap].rc # "zero")
     /\ new.mode = old.mode /\ new.gen = old.gen /\ new.next = old.next
     /\ new.active = old.active /\ new.reap = old.reap

LEMMA SchedCases ==
  ASSUME MInv, NEW r \in Runs, RunStep(r)
  PROVE  SchedEffect(r)
  <1>0. SchedType
    BY TypeParts DEF MInv
  <1>a. sched[r] \in Scheds
    BY <1>0 DEF SchedType
  <1> USE <1>0 DEF SchedType
  <1>1. CASE Refused(r)
    <2>1. sched'[r] = [sched[r] EXCEPT !.pc = "done", !.code = 77]
      BY <1>1 DEF Refused
    <2>2. sched[r].pc = "new"
      BY <1>1 DEF Refused
    <2> QED
      BY <1>1, <1>a, <2>1, <2>2 DEF SchedEffect, Keeps, Scheds
  <1>2. CASE Acquire(r)
    <2>1. PICK m \in {"parallel", "serial"} : sched'[r] = [sched[r] EXCEPT !.pc = "plan", !.mode = m]
      BY <1>2 DEF Acquire
    <2>2. sched[r].pc = "new"
      BY <1>2 DEF Acquire
    <2> QED
      BY <1>2, <1>a, <2>1, <2>2 DEF SchedEffect, Scheds
  <1>3. CASE Spawn(r)
    <2>1. sched'[r] = [sched[r] EXCEPT !.next = sched[r].next + 1,
                  !.active = sched[r].active \cup {sched[r].next},
                  !.pc = IF sched[r].mode = "serial" THEN "waitall"
                         ELSE IF Cardinality(sched[r].active \cup {sched[r].next}) < Cap
                              THEN "plan" ELSE "wait"]
      BY <1>3 DEF Spawn, Wrapper
    <2>2. sched[r].pc = "plan" /\ sched[r].next \in Jobs
      BY <1>3 DEF Spawn, Wrapper
    <2> QED
      BY <1>3, <1>a, <2>1, <2>2 DEF SchedEffect, Keeps, Scheds
  <1>4. CASE PlanRead(r)
    <2>1. sched'[r] = [sched[r] EXCEPT !.pc = IF sched[r].active # {} THEN "wait" ELSE "append"]
      BY <1>4 DEF PlanRead, Step, Release
    <2>2. sched[r].pc = "plan" /\ sched[r].next \notin Jobs
      BY <1>4 DEF PlanRead, Step, Release
    <2> QED
      BY <1>4, <1>a, <2>1, <2>2 DEF SchedEffect, Keeps, Scheds
  <1>5. CASE WaitActiveJobs(r)
    <2>1. PICK b \in BOOLEAN :
            sched'[r] = [sched[r] EXCEPT !.pc = "plan", !.active = {}, !.failed = b]
      BY <1>5 DEF WaitActiveJobs
    <2>2. /\ sched[r].pc = "waitall" /\ job' = job
          /\ \A j \in sched[r].active : job[r][j].wrap = "ended"
      BY <1>5 DEF WaitActiveJobs
    <2> QED
      BY <1>5, <1>a, <2>1, <2>2 DEF SchedEffect, Scheds
  <1>6. CASE StartWatchdog(r)
    <2>1. sched'[r] = [sched[r] EXCEPT !.pc = "read", !.gen = @ + 1]
      BY <1>6 DEF StartWatchdog
    <2>2. sched[r].pc = "wait"
      BY <1>6 DEF StartWatchdog
    <2> QED
      BY <1>6, <1>a, <2>1, <2>2 DEF SchedEffect, Keeps, Scheds
  <1>7. CASE ReadComplete(r)
    <2>1. sched'[r] = [sched[r] EXCEPT !.pc = "reap", !.reap = Head(queue[r]).of,
                             !.active = @ \ {Head(queue[r]).of}]
      BY <1>7 DEF ReadComplete
    <2>2. sched[r].pc = "read" /\ job' = job
      BY <1>7 DEF ReadComplete
    <2> QED
      BY <1>7, <1>a, <2>1, <2>2 DEF SchedEffect, Keeps, Scheds
  <1>8. CASE ReadTimeout(r)
    <2>1. CASE sched' = sched
      BY <2>1 DEF SchedEffect
    <2>2. CASE Step(r, "abort") /\ Head(queue[r]).of = sched[r].gen
      <3>1. sched'[r] = [sched[r] EXCEPT !.pc = "abort"]
        BY <2>2 DEF Step
      <3>2. sched[r].pc = "read" /\ Head(queue[r]).kind = "timeout"
        BY <1>8 DEF ReadTimeout
      <3> QED
        BY <1>8, <1>a, <2>2, <3>1, <3>2 DEF SchedEffect, Keeps, Scheds
    <2> QED
      BY <1>8, <2>1, <2>2 DEF ReadTimeout
  <1>9. CASE Reap(r)
    <2>1. sched'[r] = [sched[r] EXCEPT !.pc = IF sched[r].next \in Jobs \/ sched[r].active = {}
                                     THEN "plan" ELSE "wait",
                             !.failed = @ \/ job[r][sched[r].reap].rc # "zero"]
      BY <1>9 DEF Reap
    <2>2. sched[r].pc = "reap" /\ job' = job /\ job[r][sched[r].reap].wrap = "ended"
      BY <1>9 DEF Reap
    <2> QED
      BY <1>9, <1>a, <2>1, <2>2 DEF SchedEffect, Keeps, Scheds
  <1>10. CASE Abort(r)
    <2>1. sched'[r] = [sched[r] EXCEPT !.pc = "done", !.code = 77]
      BY <1>10 DEF Abort, Exit77
    <2>2. Alive(r)
      BY <1>10 DEF Abort, Exit77, Alive
    <2> QED
      BY <1>10, <1>a, <2>1, <2>2 DEF SchedEffect, Keeps, Scheds
  <1>11. CASE AppendJobs(r)
    <2>1. PICK b : sched'[r] = [sched[r] EXCEPT !.pc = "report", !.blocked = b]
      BY <1>11 DEF AppendJobs
    <2>2. sched[r].pc = "append"
      BY <1>11 DEF AppendJobs
    <2> QED
      BY <1>11, <1>a, <2>1, <2>2 DEF SchedEffect, Keeps, Scheds
  <1>12. CASE Report(r)
    <2>1. PICK c : sched'[r] = [sched[r] EXCEPT !.pc = "done", !.code = c]
      BY <1>12 DEF Report, Exit
    <2>2. Alive(r)
      BY <1>12 DEF Report, Exit, Alive
    <2> QED
      BY <1>12, <1>a, <2>1, <2>2 DEF SchedEffect, Keeps, Scheds
  <1>13. CASE Interrupt(r)
    <2>1. sched'[r] = [sched[r] EXCEPT !.pc = "done", !.code = 77]
      BY <1>13 DEF Interrupt, Fault, Exit77
    <2>2. Alive(r)
      BY <1>13 DEF Interrupt, Fault, Exit77, Alive
    <2> QED
      BY <1>13, <1>a, <2>1, <2>2 DEF SchedEffect, Keeps, Scheds
  <1>14. CASE Kill(r)
    <2>1. sched'[r] = [sched[r] EXCEPT !.pc = "killed"]
      BY <1>14 DEF Kill, Fault, Step
    <2>2. Alive(r)
      BY <1>14 DEF Kill, Fault, Step
    <2> QED
      BY <1>14, <1>a, <2>1, <2>2 DEF SchedEffect, Keeps, Scheds
  <1>15. CASE WatchdogFires(r)
    <2>1. sched' = sched
      BY <1>15 DEF WatchdogFires
    <2> QED
      BY <2>1 DEF SchedEffect
  <1>16. ASSUME NEW j \in Jobs, ClearJob(r, j)
        PROVE  SchedEffect(r)
    <2>1. sched' = sched
      BY <1>16 DEF ClearJob, StartMake
    <2> QED
      BY <2>1 DEF SchedEffect
  <1>17. ASSUME NEW j \in Jobs, WriteJobJson(r, j)
        PROVE  SchedEffect(r)
    <2>1. sched' = sched
      BY <1>17 DEF WriteJobJson, Wrapper
    <2> QED
      BY <2>1 DEF SchedEffect
  <1>18. ASSUME NEW j \in Jobs, ReportCompletion(r, j)
        PROVE  SchedEffect(r)
    <2>1. sched' = sched
      BY <1>18 DEF ReportCompletion, Wrapper
    <2> QED
      BY <2>1 DEF SchedEffect
  <1>19. ASSUME NEW j \in Jobs, WrapperExits(r, j)
        PROVE  SchedEffect(r)
    <2>1. sched' = sched
      BY <1>19 DEF WrapperExits, Wrapper
    <2> QED
      BY <2>1 DEF SchedEffect
  <1>20. ASSUME NEW j \in Jobs, MakeEnds(r, j)
        PROVE  SchedEffect(r)
    <2>1. sched' = sched
      BY <1>20 DEF MakeEnds
    <2> QED
      BY <2>1 DEF SchedEffect
  <1>21. ASSUME NEW j \in Jobs, KillWrapper(r, j)
        PROVE  SchedEffect(r)
    <2>1. sched' = sched
      BY <1>21 DEF KillWrapper, Fault
    <2> QED
      BY <2>1 DEF SchedEffect
  <1>22. ASSUME NEW j \in Jobs, RefuseJob(r, j)
        PROVE  SchedEffect(r)
    <2>1. sched' = sched
      BY <1>22 DEF RefuseJob
    <2> QED
      BY <2>1 DEF SchedEffect
  <1>23. ASSUME NEW j \in Jobs, RefuseBuildRoot(r, j)
        PROVE  SchedEffect(r)
    <2>1. sched' = sched
      BY <1>23 DEF RefuseBuildRoot
    <2> QED
      BY <2>1 DEF SchedEffect
  <1>24. ASSUME NEW j \in Jobs, ClearFails(r, j)
        PROVE  SchedEffect(r)
    <2>1. sched' = sched
      BY <1>24 DEF ClearFails
    <2> QED
      BY <2>1 DEF SchedEffect
  <1>25. ASSUME NEW j \in Jobs, WriteFails(r, j)
        PROVE  SchedEffect(r)
    <2>1. sched' = sched
      BY <1>25 DEF WriteFails
    <2> QED
      BY <2>1 DEF SchedEffect
  <1>26. CASE SkipReports(r)
    <2>1. PICK c : sched'[r] = [sched[r] EXCEPT !.pc = "done", !.code = c]
      BY <1>26 DEF SkipReports, Exit
    <2>2. Alive(r)
      BY <1>26 DEF SkipReports, Alive
    <2> QED
      BY <1>26, <1>a, <2>1, <2>2 DEF SchedEffect, Keeps, Scheds
  <1> QED
    BY <1>1, <1>2, <1>3, <1>4, <1>5, <1>6, <1>7, <1>8, <1>9, <1>10, <1>11, <1>12,
       <1>13, <1>14, <1>15, <1>16, <1>17, <1>18, <1>19, <1>20, <1>21, <1>22, <1>23,
       <1>24, <1>25, <1>26
       DEF RunStep, Scheduler, WrapperStep, WrapperFault

\* What the invariant says of the types of run r before a step and after it.
LEMMA RunTypes ==
  ASSUME MInv, NEW r \in Runs, RunStep(r)
  PROVE  /\ sched[r] \in Scheds /\ sched'[r] \in Scheds
         /\ \A j \in Jobs : job[r][j] \in JobStates /\ job'[r][j] \in JobStates
         /\ RunInv(r)
  <1>1. SchedType /\ JobType /\ SchedType' /\ JobType'
    BY TypeParts, SchedStep, JobTypeStep DEF MInv
  <1> QED
    BY <1>1 DEF MInv, SchedType, JobType

\* The completion that the scheduler reads.
LEMMA HeadFacts ==
  ASSUME MInv, NEW r \in Runs, ReadComplete(r)
  PROVE  /\ sched[r].mode = "parallel" /\ Head(queue[r]).of \in sched[r].active
         /\ job[r][Head(queue[r]).of].wrap \in {"exit", "ended"}
         /\ ~job[r][Head(queue[r]).of].make
  <1>1. queue[r] \in Seq(Messages) /\ queue[r] # <<>> /\ FifoInv(r)
    BY DEF MInv, QueueType, RunInv, ReadComplete
  <1>2. 1 \in 1 .. Len(queue[r]) /\ Head(queue[r]) = queue[r][1]
    BY <1>1
  <1>3. queue[r][1].kind = "complete"
    BY <1>2 DEF ReadComplete
  <1> QED
    BY <1>1, <1>2, <1>3 DEF FifoInv, GoodMessage

\* The jobs waited for: a spawned one is added, one that has reported is taken away.
LEMMA ActiveStep ==
  ASSUME MInv, NEW r \in Runs, RunStep(r)
  PROVE  /\ \/ sched'[r].active = sched[r].active /\ sched'[r].next = sched[r].next
            \/ /\ Spawn(r) /\ sched[r].next \in Jobs /\ sched'[r].next = sched[r].next + 1
               /\ sched'[r].active = sched[r].active \cup {sched[r].next}
            \/ /\ sched[r].pc = "waitall" /\ sched[r].mode = "serial" /\ job' = job
               /\ sched'[r].active = {} /\ sched'[r].next = sched[r].next
               /\ \A j \in sched[r].active : job[r][j].wrap = "ended"
            \/ /\ ReadComplete(r) /\ job' = job /\ sched'[r].reap = Head(queue[r]).of
               /\ sched'[r].active = sched[r].active \ {sched'[r].reap}
               /\ sched'[r].next = sched[r].next
         /\ sched'[r].reap = sched[r].reap \/ ReadComplete(r)
         /\ sched'[r].mode = sched[r].mode \/ (sched[r].pc = "new" /\ sched[r].active = {})
         /\ sched'[r].pc = "new" => sched[r].pc = "new" /\ sched'[r] = sched[r]
  <1>1. WaitInv(r) /\ SchedEffect(r)
    BY RunTypes, SchedCases DEF RunInv
  <1>2. sched[r].pc = "waitall" => sched[r].mode = "serial"
    BY <1>1 DEF WaitInv
  <1>3. sched[r].pc = "new" => sched[r].active = {}
    BY <1>1 DEF WaitInv
  <1> QED
    BY <1>1, <1>2, <1>3 DEF SchedEffect, Keeps

LEMMA JobInvStep ==
  ASSUME MInv, NEW r \in Runs, RunStep(r)
  PROVE  JobInv(r)'
  <1> SUFFICES ASSUME NEW i \in Jobs
               PROVE  /\ job'[r][i].make => job'[r][i].wrap \in {"make", "ended"}
                      /\ job'[r][i].wrap # "none" <=> i < sched'[r].next
                      /\ job'[r][i].wrote => job'[r][i].wrap \in {"report", "exit", "ended"}
                      /\ i \in sched'[r].active => i < sched'[r].next
                      /\ job'[r][i].wrap \in {"clear", "make", "record", "report"}
                           => i \in sched'[r].active
                      /\ sched'[r].mode = "parallel" /\ job'[r][i].make => i \in sched'[r].active
                      /\ sched'[r].mode = "parallel" /\ job'[r][i].wrap = "exit" =>
                           i \in sched'[r].active \/ i = sched'[r].reap
                      /\ job'[r][i].wrap = "report" => sched'[r].mode = "parallel"
                      /\ sched'[r].pc = "new" => ~Working(r, i)'
    BY DEF JobInv
  <1>0. /\ sched[r].next \in 1..(N + 1) /\ sched[r].active \in SUBSET Jobs
        /\ job[r][i].make \in BOOLEAN /\ job'[r][i].make \in BOOLEAN /\ i \in 1..N
    BY RunTypes DEF Scheds, JobStates, Jobs
  <1>1. SchedEffect(r) /\ JobEffect(r, i)
    BY SchedCases, JobStep
  <1>a. /\ job[r][i].make => job[r][i].wrap \in {"make", "ended"}
        /\ job[r][i].wrap # "none" <=> i < sched[r].next
        /\ job[r][i].wrote => job[r][i].wrap \in {"report", "exit", "ended"}
        /\ i \in sched[r].active => i < sched[r].next
        /\ job[r][i].wrap \in {"clear", "make", "record", "report"} => i \in sched[r].active
        /\ sched[r].mode = "parallel" /\ job[r][i].make => i \in sched[r].active
        /\ sched[r].mode = "parallel" /\ job[r][i].wrap = "exit" =>
             i \in sched[r].active \/ i = sched[r].reap
        /\ job[r][i].wrap = "report" => sched[r].mode = "parallel"
        /\ sched[r].pc = "new" => ~Working(r, i)
    BY RunTypes DEF RunInv, JobInv
  <1>b. ReadComplete(r) => /\ job[r][Head(queue[r]).of].wrap \in {"exit", "ended"}
                           /\ ~job[r][Head(queue[r]).of].make
    BY HeadFacts
  <1>c. ReadComplete(r) /\ sched[r].reap \in Jobs => job[r][sched[r].reap].wrap = "ended"
    <2>1. ReadComplete(r) => sched[r].pc = "read"
      BY DEF ReadComplete
    <2> QED
      BY <2>1, RunTypes DEF RunInv, ReapInv, Over
  <1>d. \/ job'[r][i] = job[r][i]
        \/ Spawn(r) /\ i = sched[r].next /\ job'[r][i].make = job[r][i].make
           /\ job'[r][i].wrap = "clear" /\ i < sched'[r].next /\ i \in sched'[r].active
        \/ job'[r][i].wrap = "ended" /\ job'[r][i].make = job[r][i].make /\ i \in sched[r].active
           /\ sched'[r].pc = "done"
        \/ /\ sched' = sched /\ job[r][i].wrap # "none" /\ job'[r][i].wrap # "none"
           /\ \/ job'[r][i].wrap = "ended" /\ job'[r][i].make = job[r][i].make
              \/ job[r][i].wrap = "clear" /\ job'[r][i].wrap = "make"
              \/ job[r][i].wrap \in {"clear", "record", "report"}
                 /\ job'[r][i].make = job[r][i].make
              \/ job'[r][i].wrap = job[r][i].wrap /\ job'[r][i].make = FALSE
              \/ job[r][i].wrap = "make" /\ job'[r][i].make = FALSE
    BY <1>1, <1>a DEF JobEffect, JobReturns
  <1>2. job'[r][i].make => job'[r][i].wrap \in {"make", "ended"}
    <2>1. CASE i = sched[r].next /\ job'[r][i].make = job[r][i].make
      BY <1>0, <1>a, <2>1
    <2>2. CASE job'[r][i].make = FALSE
      BY <2>2
    <2>3. CASE job[r][i].wrap \in {"clear", "record", "report"} /\ job'[r][i].make = job[r][i].make
      BY <1>a, <2>3
    <2> QED
      BY <1>a, <1>d, <2>1, <2>2, <2>3
  <1>3. /\ job'[r][i].wrap # "none" <=> i < sched'[r].next
        /\ i \in sched'[r].active => i < sched'[r].next
    <2>1. sched'[r].next = sched[r].next \/ (Spawn(r) /\ sched'[r].next = sched[r].next + 1)
      BY ActiveStep
    <2>2. Spawn(r) => job'[r][sched[r].next].wrap = "clear" /\ sched[r].next \in Jobs
                      /\ (i # sched[r].next => job'[r][i] = job[r][i])
      BY TypeParts DEF Spawn, Wrapper, MInv, JobType, JobStates
    <2>3. i \in sched'[r].active => i < sched'[r].next
      BY <1>0, <1>a, <1>d, ActiveStep DEF Jobs
    <2>4. CASE Spawn(r) /\ sched'[r].next = sched[r].next + 1
      BY <1>0, <1>a, <2>2, <2>3, <2>4
    <2>5. CASE sched'[r].next = sched[r].next /\ ~Spawn(r)
      BY <1>0, <1>a, <1>d, <2>3, <2>5
    <2>6. CASE sched'[r].next = sched[r].next /\ Spawn(r)
      BY <1>0, <1>a, <1>d, <2>2, <2>3, <2>6
    <2> QED
      BY <2>1, <2>4, <2>5, <2>6
  <1>4. job'[r][i].wrap \in {"clear", "make", "record", "report"} => i \in sched'[r].active
    BY <1>0, <1>a, <1>b, <1>d, ActiveStep
  <1>5. sched'[r].mode = "parallel" /\ job'[r][i].make => i \in sched'[r].active
    BY <1>0, <1>a, <1>b, <1>d, ActiveStep DEF Working
  <1>6. sched'[r].mode = "parallel" /\ job'[r][i].wrap = "exit" =>
           i \in sched'[r].active \/ i = sched'[r].reap
    BY <1>0, <1>a, <1>b, <1>c, <1>d, ActiveStep DEF Working
  <1>7. sched'[r].pc = "new" => ~Working(r, i)'
    BY <1>0, <1>a, <1>d, ActiveStep DEF Working
  <1>8. job'[r][i].wrap = "report" => sched'[r].mode = "parallel"
    <2>1. \/ job'[r][i].wrap # "report"
          \/ job'[r][i] = job[r][i]
          \/ sched' = sched /\ job'[r][i].wrap = job[r][i].wrap
          \/ sched' = sched /\ sched[r].mode # "serial"
      BY <1>1 DEF JobEffect, JobReturns
    <2>2. sched[r].mode \in {"parallel", "serial"}
      BY RunTypes DEF Scheds
    <2> QED
      BY <1>a, <2>1, <2>2, ActiveStep DEF Working
  <1>9. job'[r][i].wrote => job'[r][i].wrap \in {"report", "exit", "ended"}
    <2>1. i = sched[r].next => ~job[r][i].wrote
      BY <1>0, <1>a
    <2> QED
      BY <1>1, <1>a, <2>1 DEF JobEffect, JobReturns
  <1> QED
    BY <1>2, <1>3, <1>4, <1>5, <1>6, <1>7, <1>8, <1>9

LEMMA ReapInvStep ==
  ASSUME MInv, NEW r \in Runs, RunStep(r)
  PROVE  ReapInv(r)'
  <1>0. /\ sched[r].next \in 1..(N + 1) /\ sched[r].active \in SUBSET Jobs
        /\ ReapInv(r) /\ SchedEffect(r) /\ JobInv(r) /\ WaitInv(r)
    BY RunTypes, SchedCases DEF RunInv, Scheds
  <1>1. CASE sched'[r].pc = "reap"
    <2>1. CASE ReadComplete(r)
      <3>1. /\ sched'[r].reap = Head(queue[r]).of /\ sched'[r].mode = sched[r].mode
            /\ sched'[r].active = sched[r].active \ {sched'[r].reap}
            /\ sched'[r].next = sched[r].next /\ job' = job
        <4>1. sched[r].pc = "read"
          BY <2>1 DEF ReadComplete
        <4> QED
          BY <1>0, <1>1, <2>1, <4>1 DEF SchedEffect, Alive
      <3> QED
        BY <1>0, <1>1, <2>1, <3>1, HeadFacts DEF ReapInv, JobInv, Over
    <2>2. CASE ~ReadComplete(r)
      <3>1. sched'[r] = sched[r]
        BY <1>0, <1>1, <2>2 DEF SchedEffect
      <3>2. sched[r].reap \in Jobs /\ JobEffect(r, sched[r].reap)
        BY <1>0, <1>1, <3>1, JobStep DEF ReapInv
      <3>3. /\ job[r][sched[r].reap].make = FALSE /\ job'[r][sched[r].reap].make \in BOOLEAN
            /\ job[r][sched[r].reap].wrap \in {"exit", "ended"}
        BY <1>0, <1>1, <3>1, <3>2, RunTypes DEF ReapInv, JobStates
      <3>4. job'[r][sched[r].reap].wrap \in {"exit", "ended"} /\ job'[r][sched[r].reap].make = FALSE
        BY <1>1, <3>1, <3>2, <3>3 DEF JobEffect
      <3> QED
        BY <1>0, <1>1, <3>1, <3>4 DEF ReapInv
    <2> QED
      BY <2>1, <2>2
  <1>2. CASE ~Over(r)' /\ sched'[r].pc # "reap" /\ sched'[r].reap \in Jobs
    <2>1. ~Over(r) /\ sched'[r].reap = sched[r].reap
      BY <1>0, <1>2 DEF SchedEffect, Keeps, Over
    <2>2. job[r][sched[r].reap].wrap = "ended"
      BY <1>0, <1>2, <2>1 DEF SchedEffect, Keeps, Over, ReapInv
    <2>3. sched[r].reap < sched[r].next
      BY <1>0, <1>2, <2>1, <2>2 DEF JobInv
    <2>4. JobEffect(r, sched[r].reap)
      BY <1>2, <2>1, JobStep
    <2> QED
      BY <1>0, <1>2, <2>1, <2>2, <2>3, <2>4 DEF JobEffect, ReapInv, Over
  <1> QED
    BY <1>1, <1>2 DEF ReapInv

\* What a step of run r does to its watchdog.
DogEffect(r) ==
  LET old == dog[r]  new == dog'[r] IN
  \/ new = old /\ sched'[r].gen = sched[r].gen
     /\ (sched'[r].pc = "abort" => sched[r].pc = "abort" \/ ReadTimeout(r))
  \/ new.on = 0 /\ new.fired = old.fired /\ sched'[r].gen = sched[r].gen
     /\ sched'[r].pc # "abort"
  \/ new.on = 0 /\ new.fired = 0 /\ sched'[r].gen = sched[r].gen
     /\ sched'[r].pc # "abort" /\ queue'[r] = <<>>
  \/ new.on = sched'[r].gen /\ new.fired = old.fired /\ sched'[r].gen = sched[r].gen + 1
     /\ sched'[r].pc = "read"
  \/ new.on = 0 /\ new.fired = old.on /\ old.on # 0 /\ sched'[r] = sched[r]

LEMMA DogCases ==
  ASSUME MInv, NEW r \in Runs, RunStep(r)
  PROVE  DogEffect(r)
  <1>0. DogType /\ sched[r] \in Scheds /\ SchedType /\ SchedEffect(r)
    BY RunTypes, SchedCases, TypeParts DEF MInv
  <1>1. CASE StartWatchdog(r)
    <2>1. sched'[r] = [sched[r] EXCEPT !.pc = "read", !.gen = @ + 1]
      BY <1>0, <1>1 DEF StartWatchdog, SchedType
    <2>2. dog'[r] = [dog[r] EXCEPT !.on = sched[r].gen + 1]
      BY <1>0, <1>1 DEF StartWatchdog, DogType
    <2> QED
      BY <1>0, <2>1, <2>2 DEF Scheds, DogType, DogEffect
  <1>2. CASE WatchdogFires(r)
    BY <1>0, <1>2 DEF WatchdogFires, DogType, DogEffect
  <1>3. CASE ReadComplete(r)
    <2>1. dog'[r] = [dog[r] EXCEPT !.on = 0]
      BY <1>0, <1>3 DEF ReadComplete, DogOff, DogType
    <2>2. sched'[r] = [sched[r] EXCEPT !.pc = "reap", !.reap = Head(queue[r]).of,
                                       !.active = @ \ {Head(queue[r]).of}]
      BY <1>0, <1>3 DEF ReadComplete, SchedType
    <2>3. sched'[r].gen = sched[r].gen /\ sched'[r].pc # "abort"
      BY <1>0, <2>2 DEF Scheds
    <2> QED
      BY <1>0, <2>1, <2>3 DEF DogType, DogEffect
  <1>6. CASE Release(r) /\ (PlanRead(r) \/ Abort(r) \/ Interrupt(r))
    <2>1. dog'[r].on = 0 /\ dog'[r].fired = 0 /\ queue'[r] = <<>>
      BY <1>0, <1>6 DEF Release, DogType, MInv, QueueType
    <2>2. \/ sched'[r] = [sched[r] EXCEPT !.pc = "append"]
          \/ sched'[r] = [sched[r] EXCEPT !.pc = "wait"]
          \/ sched'[r] = [sched[r] EXCEPT !.pc = "done", !.code = 77]
      BY <1>0, <1>6 DEF PlanRead, Step, Abort, Interrupt, Exit77, SchedType
    <2>3. sched'[r].gen = sched[r].gen /\ sched'[r].pc # "abort"
      BY <1>0, <2>2 DEF Scheds
    <2> QED
      BY <2>1, <2>3 DEF DogEffect
  <1>4. CASE dog' = dog /\ ~StartWatchdog(r)
    BY <1>0, <1>4 DEF SchedEffect, Keeps, DogEffect
  <1>5. \/ StartWatchdog(r) \/ WatchdogFires(r) \/ ReadComplete(r) \/ dog' = dog
        \/ Release(r) /\ (PlanRead(r) \/ Abort(r) \/ Interrupt(r))
    BY DEF RunStep, Scheduler, WrapperStep, WrapperFault, Refused, Acquire, Spawn, PlanRead,
       WaitActiveJobs, ReadTimeout, Reap, Abort, Interrupt, Exit77, AppendJobs, SkipReports, Report,
       Exit, Kill, ClearJob, WriteJobJson, ReportCompletion, WrapperExits, MakeEnds, RefuseJob,
       RefuseBuildRoot, ClearFails, WriteFails, KillWrapper
  <1> QED
    BY <1>1, <1>2, <1>3, <1>4, <1>5, <1>6

LEMMA DogInvStep ==
  ASSUME MInv, NEW r \in Runs, RunStep(r)
  PROVE  DogInv(r)' /\ (sched'[r].pc = "abort" => dog'[r].fired = sched'[r].gen)
  <1>0. /\ dog[r] \in [on : 0..N, fired : 0..N] /\ sched[r].gen \in 0..N
        /\ DogInv(r) /\ SchedEffect(r) /\ FifoInv(r)
        /\ sched[r].pc = "abort" => dog[r].fired = sched[r].gen
    BY RunTypes, SchedCases, TypeParts DEF RunInv, Scheds, MInv, DogType
  <1>1. DogEffect(r)
    BY DogCases
  <1>2. DogInv(r)'
    BY <1>0, <1>1 DEF DogInv, DogEffect
  <1>3. ReadTimeout(r) /\ sched[r].pc # "abort" /\ sched'[r].pc = "abort"
          => dog[r].fired = sched[r].gen
    <2> SUFFICES ASSUME ReadTimeout(r), sched[r].pc # "abort", sched'[r].pc = "abort"
                 PROVE  dog[r].fired = sched[r].gen
      OBVIOUS
    <2>1. Head(queue[r]).kind = "timeout" /\ Head(queue[r]).of = sched[r].gen
      BY <1>0 DEF SchedEffect
    <2>2. queue[r] \in Seq(Messages) /\ queue[r] # <<>>
      BY DEF MInv, QueueType, ReadTimeout
    <2>3. 1 \in 1 .. Len(queue[r]) /\ Head(queue[r]) = queue[r][1]
      BY <2>2
    <2>4. sched[r].gen <= dog[r].fired
      BY <1>0, <2>1, <2>3 DEF FifoInv, GoodMessage
    <2> QED
      BY <1>0, <2>4 DEF DogInv
  <1> QED
    BY <1>0, <1>1, <1>2, <1>3 DEF DogInv, DogEffect

LEMMA WaitInvStep ==
  ASSUME MInv, NEW r \in Runs, RunStep(r)
  PROVE  WaitInv(r)' /\ SlotInv(r)'
  <1>0. /\ sched[r].next \in 1..(N + 1) /\ sched[r].active \in SUBSET Jobs /\ sched[r].gen \in 0..N
        /\ sched[r].mode \in {"parallel", "serial"} /\ sched[r].pc \in Pcs
        /\ WaitInv(r) /\ SlotInv(r) /\ SchedEffect(r) /\ JobInv(r)
    BY RunTypes, SchedCases DEF RunInv, Scheds
  <1>1. IsFiniteSet(sched[r].active) /\ Cardinality(sched[r].active) \in Nat
    <2>1. IsFiniteSet(Jobs)
      BY SchedulerConstants, FS_Interval DEF Jobs
    <2>2. IsFiniteSet(sched[r].active)
      BY <1>0, <2>1, FS_Subset
    <2> QED
      BY <2>2, FS_CardinalityType
  <1>2. Cardinality({}) = 0 /\ (Cardinality(sched[r].active) = 0 <=> sched[r].active = {})
    BY <1>1, FS_EmptySet
  <1>3. sched[r].next \notin sched[r].active
    BY <1>0 DEF JobInv
  <1>4. Cardinality(sched[r].active \cup {sched[r].next}) = Cardinality(sched[r].active) + 1
    BY <1>1, <1>3, FS_AddElement
  <1>5. \A j \in sched[r].active :
          Cardinality(sched[r].active \ {j}) = Cardinality(sched[r].active) - 1
    BY <1>1, FS_RemoveElement
  <1>6. ReadComplete(r) => sched[r].mode = "parallel" /\ Head(queue[r]).of \in sched[r].active
    BY HeadFacts
  <1> USE <1>0, <1>1, <1>2, SchedulerConstants DEF WaitInv, SlotInv, Over
  <1>7. CASE sched'[r] = sched[r]
    BY <1>7
  <1>8. CASE Keeps(sched[r], sched'[r]) /\ sched'[r].pc \in {"done", "killed"}
    BY <1>8 DEF Keeps
  <1>9. CASE /\ Keeps(sched[r], sched'[r]) /\ sched[r].pc = "plan" /\ sched[r].next \notin Jobs
             /\ sched'[r].pc = (IF sched[r].active # {} THEN "wait" ELSE "append")
    BY <1>9 DEF Keeps
  <1>10. CASE /\ Keeps(sched[r], sched'[r])
              /\ \/ sched[r].pc = "read" /\ sched'[r].pc = "abort"
                 \/ sched[r].pc = "append" /\ sched'[r].pc = "report"
    BY <1>10 DEF Keeps
  <1>11. CASE Acquire(r) /\ SchedEffect(r) /\ sched[r].pc = "new" /\ sched'[r].pc = "plan"
    BY <1>11 DEF SchedEffect, Keeps, Alive
  <1>12. CASE /\ sched[r].pc = "plan" /\ sched[r].next \in Jobs /\ sched'[r].mode = sched[r].mode
              /\ sched'[r].next = sched[r].next + 1 /\ sched'[r].gen = sched[r].gen
              /\ sched'[r].active = sched[r].active \cup {sched[r].next}
              /\ sched'[r].pc = (IF sched[r].mode = "serial" THEN "waitall"
                   ELSE IF Cardinality(sched'[r].active) < Cap THEN "plan" ELSE "wait")
    <2>1. sched'[r].active # {} /\ Cardinality(sched'[r].active) = Cardinality(sched[r].active) + 1
      BY <1>4, <1>12
    <2>2. CASE sched[r].mode = "serial"
      BY <1>12, <2>1, <2>2
    <2>3. CASE sched[r].mode = "parallel"
      BY <1>12, <2>1, <2>3
    <2> QED
      BY <2>2, <2>3
  <1>13. CASE /\ sched[r].pc = "waitall" /\ sched'[r].pc = "plan" /\ sched'[r].active = {}
              /\ sched'[r].mode = sched[r].mode /\ sched'[r].gen = sched[r].gen
    BY <1>13
  <1>14. CASE /\ sched[r].pc = "wait" /\ sched'[r].pc = "read" /\ sched'[r].gen = sched[r].gen + 1
              /\ sched'[r].mode = sched[r].mode /\ sched'[r].next = sched[r].next
              /\ sched'[r].active = sched[r].active
    BY <1>14
  <1>15. CASE /\ ReadComplete(r) /\ sched[r].pc = "read" /\ sched'[r].pc = "reap"
              /\ sched'[r].active = sched[r].active \ {Head(queue[r]).of}
              /\ sched'[r].mode = sched[r].mode /\ sched'[r].gen = sched[r].gen
              /\ sched'[r].next = sched[r].next
    <2>1. Cardinality(sched'[r].active) = Cardinality(sched[r].active) - 1
      BY <1>5, <1>6, <1>15
    <2> QED
      BY <1>6, <1>15, <2>1
  <1>16. CASE /\ sched[r].pc = "reap" /\ sched'[r].mode = sched[r].mode
              /\ sched'[r].pc = (IF sched[r].next \in Jobs \/ sched[r].active = {}
                                 THEN "plan" ELSE "wait")
              /\ sched'[r].gen = sched[r].gen /\ sched'[r].next = sched[r].next
              /\ sched'[r].active = sched[r].active
    BY <1>16, RunTypes DEF RunInv, ReapInv
  <1>17. SchedEffect(r)
    BY SchedCases
  <1> QED
    BY <1>7, <1>8, <1>9, <1>10, <1>11, <1>12, <1>13, <1>14, <1>15, <1>16, <1>17 DEF SchedEffect

\* GoodMessage after the step, of a message that is before it in the FIFO.
GoodAfter(r, m) ==
  /\ m.kind = "complete" =>
       /\ sched'[r].mode = "parallel" /\ m.of \in sched'[r].active
       /\ job'[r][m.of].wrap \in {"exit", "ended"} /\ ~job'[r][m.of].make
  /\ m.kind = "timeout" => m.of <= dog'[r].fired

\* What holds of a message stays true until it is read or the FIFO goes.
LEMMA MessageStep ==
  ASSUME MInv, NEW r \in Runs, RunStep(r), NEW m \in Messages, GoodMessage(r, m),
         queue'[r] # <<>>,
         ~(ReadComplete(r) /\ m.kind = "complete" /\ m.of = Head(queue[r]).of)
  PROVE  GoodAfter(r, m)
  <1>1. CASE m.kind = "complete"
    <2>1. /\ sched[r].mode = "parallel" /\ m.of \in sched[r].active /\ m.of \in Jobs
          /\ job[r][m.of].wrap \in {"exit", "ended"} /\ job[r][m.of].make = FALSE
      BY <1>1, RunTypes DEF GoodMessage, Messages, JobStates
    <2>2. sched[r].next \in 1..(N + 1) /\ m.of < sched[r].next
      BY <2>1, RunTypes DEF Scheds, RunInv, JobInv
    <2>3. job'[r][m.of].wrap \in {"exit", "ended"} /\ job'[r][m.of].make = FALSE
      <3>1. JobEffect(r, m.of)
        BY <2>1, JobStep
      <3>2. m.of # sched[r].next /\ job[r][m.of].wrap \notin {"clear", "record", "make", "report"}
        BY <2>1, <2>2
      <3> QED
        BY <2>1, <3>1, <3>2 DEF JobEffect
    <2>4. sched'[r].mode = "parallel" /\ m.of \in sched'[r].active
      BY <1>1, <2>1, ActiveStep
    <2> QED
      BY <1>1, <2>3, <2>4 DEF GoodAfter
  <1>2. CASE m.kind = "timeout"
    <2>1. m.of <= dog[r].fired /\ m.of \in 1..N
      BY <1>2 DEF GoodMessage, Messages, Jobs
    <2>2. dog[r] \in [on : 0..N, fired : 0..N] /\ DogInv(r) /\ DogType /\ sched[r].gen \in 0..N
      BY TypeParts, RunTypes DEF MInv, DogType, RunInv, Scheds
    <2>3. dog'[r].fired = dog[r].fired \/ (dog[r].on # 0 /\ dog'[r].fired = dog[r].on)
      BY DogCases DEF DogEffect
    <2> QED
      BY <1>2, <2>1, <2>2, <2>3 DEF DogInv, GoodAfter
  <1> QED
    BY <1>1, <1>2 DEF Messages

LEMMA FifoInvStep ==
  ASSUME MInv, NEW r \in Runs, RunStep(r)
  PROVE  FifoInv(r)'
  <1> DEFINE q == queue[r]
             p == queue'[r]
  <1>0. q \in Seq(Messages) /\ FifoInv(r) /\ QueueType
    BY RunTypes DEF MInv, QueueType, RunInv
  <1>1. /\ \A i \in 1 .. Len(q) : q[i] \in Messages /\ GoodMessage(r, q[i])
        /\ \A i, h \in 1 .. Len(q) : q[i].kind = "complete" /\ q[h] = q[i] => h = i
        /\ Len(q) \in Nat
    BY <1>0 DEF FifoInv
  <1>2. SUFFICES /\ \A i \in 1 .. Len(p) : GoodAfter(r, p[i])
                 /\ \A i, h \in 1 .. Len(p) : p[i].kind = "complete" /\ p[h] = p[i] => h = i
    BY DEF FifoInv, GoodMessage, GoodAfter
  <1>3. CASE q # <<>> /\ p = Tail(q)
    <2>1. /\ Len(p) = Len(q) - 1 /\ Head(q) = q[1]
          /\ \A i \in 1 .. Len(p) : i + 1 \in 1 .. Len(q) /\ p[i] = q[i + 1]
          /\ 1 \in 1 .. Len(q)
      BY <1>0, <1>3
    <2>2. ASSUME NEW i \in 1 .. Len(p)
          PROVE  GoodAfter(r, p[i])
      <3>1. q[i + 1] \in Messages /\ q[1] \in Messages /\ GoodMessage(r, q[i + 1]) /\ p[i] = q[i + 1]
        BY <1>1, <2>1
      <3>2. q[1].kind = "complete" => q[i + 1] # q[1]
        BY <1>1, <2>1
      <3>3. ~(ReadComplete(r) /\ q[i + 1].kind = "complete" /\ q[i + 1].of = Head(q).of)
        <4>1. ReadComplete(r) => q[1].kind = "complete"
          BY <2>1 DEF ReadComplete
        <4> QED
          BY <2>1, <3>1, <3>2, <4>1 DEF Messages
      <3>4. GoodAfter(r, q[i + 1])
        BY <2>2, <3>1, <3>3, MessageStep
      <3> QED
        BY <3>1, <3>4
    <2>3. ASSUME NEW i \in 1 .. Len(p), NEW h \in 1 .. Len(p), p[i].kind = "complete", p[h] = p[i]
          PROVE  h = i
      <3>1. /\ i + 1 \in 1 .. Len(q) /\ p[i] = q[i + 1]
            /\ h + 1 \in 1 .. Len(q) /\ p[h] = q[h + 1]
        BY <2>1
      <3>2. h + 1 = i + 1
        BY <1>1, <2>3, <3>1
      <3> QED
        BY <3>2
    <2> QED
      BY <2>2, <2>3
  <1>4. CASE p = q /\ ~ReadComplete(r)
    <2>1. ASSUME NEW i \in 1 .. Len(q)
          PROVE  GoodAfter(r, q[i])
      <3>1. p # <<>>
        BY <1>4, <2>1
      <3> QED
        BY <1>1, <1>4, <3>1, MessageStep
    <2> QED
      BY <1>1, <1>4, <2>1
  <1>9. CASE p = <<>>
    BY <1>9
  <1>5. ASSUME NEW m \in Messages, p = Append(q, m), GoodAfter(r, m), ~ReadComplete(r),
               m.kind = "complete" => \A i \in 1 .. Len(q) : q[i] # m
        PROVE  /\ \A i \in 1 .. Len(p) : GoodAfter(r, p[i])
               /\ \A i, h \in 1 .. Len(p) : p[i].kind = "complete" /\ p[h] = p[i] => h = i
    <2>1. /\ Len(p) = Len(q) + 1 /\ p[Len(q) + 1] = m
          /\ \A i \in 1 .. Len(q) : p[i] = q[i]
      BY <1>0, <1>5
    <2>0. p # <<>>
      BY <1>1, <2>1
    <2>2. \A i \in 1 .. Len(q) : GoodAfter(r, q[i])
      BY <1>1, <1>5, <2>0, MessageStep
    <2>3. \A i \in 1 .. Len(p) : i \in 1 .. Len(q) \/ i = Len(q) + 1
      BY <1>1, <2>1
    <2>4. \A i \in 1 .. Len(p) : GoodAfter(r, p[i])
      BY <1>5, <2>1, <2>2, <2>3
    <2> QED
      BY <1>1, <1>5, <2>1, <2>3, <2>4
  <1>6. CASE ReadComplete(r)
    BY <1>0, <1>3, <1>6 DEF ReadComplete, QueueType
  <1>7. CASE WatchdogFires(r) /\ dog[r].on \in Jobs /\ ~ReadComplete(r)
              /\ queue' = [queue EXCEPT ![r] = Append(@, Timeout(dog[r].on))]
    <2>1. Timeout(dog[r].on) \in Messages /\ Timeout(dog[r].on).kind = "timeout"
      BY <1>7 DEF Timeout, Messages
    <2>2. dog'[r].fired = dog[r].on
      BY <1>7, TypeParts DEF WatchdogFires, MInv, DogType
    <2>3. GoodAfter(r, Timeout(dog[r].on))
      BY <1>7, <2>1, <2>2 DEF GoodAfter, Timeout, Jobs
    <2> QED
      BY <1>0, <1>5, <1>7, <2>1, <2>3 DEF QueueType
  <1>8. ASSUME NEW j \in Jobs, ReportCompletion(r, j), ~ReadComplete(r),
               queue' = [queue EXCEPT ![r] = Append(@, Complete(j))]
        PROVE  /\ \A i \in 1 .. Len(p) : GoodAfter(r, p[i])
               /\ \A i, h \in 1 .. Len(p) : p[i].kind = "complete" /\ p[h] = p[i] => h = i
    <2>1. Complete(j) \in Messages /\ Complete(j).of = j /\ Complete(j).kind = "complete"
      BY DEF Complete, Messages
    <2>2. job[r][j].wrap = "report" /\ sched' = sched
      BY <1>8 DEF ReportCompletion
    <2>3. ~job[r][j].make /\ sched[r].mode = "parallel" /\ j \in sched[r].active
      BY <2>2, RunTypes DEF RunInv, JobInv
    <2>4. job'[r][j].wrap = "exit" /\ job'[r][j].make = job[r][j].make
      <3>1. job'[r][j] = [job[r][j] EXCEPT !.wrap = "exit"] /\ job[r][j] \in JobStates
        BY <1>8, TypeParts DEF ReportCompletion, Wrapper, MInv, JobType
      <3> QED
        BY <3>1 DEF JobStates
    <2>5. GoodAfter(r, Complete(j))
      BY <2>1, <2>2, <2>3, <2>4 DEF GoodAfter
    <2>6. \A i \in 1 .. Len(q) : q[i] # Complete(j)
      BY <1>1, <2>1, <2>2 DEF GoodMessage
    <2> QED
      BY <1>0, <1>5, <1>8, <2>1, <2>5, <2>6 DEF QueueType
  <1> QED
    BY <1>0, <1>3, <1>4, <1>6, <1>7, <1>8, <1>9, QueueCases DEF QueueType

\* A job that works is waited for, or is being reaped; else nothing starts to work.
LEMMA CapStep ==
  ASSUME MInv, NEW r \in Runs, RunStep(r)
  PROVE  sched'[r].mode = "parallel" => Cardinality({j \in Jobs : Working(r, j)'}) <= Cap
  <1> SUFFICES ASSUME sched'[r].mode = "parallel"
               PROVE  Cardinality({j \in Jobs : Working(r, j)'}) <= Cap
    OBVIOUS
  <1> DEFINE Old == {j \in Jobs : Working(r, j)}
             New == {j \in Jobs : Working(r, j)'}
  <1>0. IsFiniteSet(Jobs) /\ Cap \in Nat
    BY SchedulerConstants, FS_Interval DEF Jobs
  <1>1. IsFiniteSet(Old) /\ Cardinality(Old) \in Nat
    BY <1>0, FS_Subset, FS_CardinalityType
  <1>2. CASE Spawn(r)
    <2>1. JobInv(r)' /\ ReapInv(r)' /\ SlotInv(r)'
      BY JobInvStep, ReapInvStep, WaitInvStep
    <2>2. sched'[r].pc \in {"plan", "waitall", "wait"} /\ sched'[r].active \in SUBSET Jobs
      <3>1. PICK w \in {"plan", "waitall", "wait"} :
              sched'[r] = [sched[r] EXCEPT !.next = sched[r].next + 1,
                             !.active = sched[r].active \cup {sched[r].next}, !.pc = w]
        BY <1>2, TypeParts DEF Spawn, MInv, SchedType
      <3> QED
        BY <3>1, RunTypes DEF Scheds
    <2>3. New \subseteq sched'[r].active
      <3> SUFFICES ASSUME NEW j \in Jobs, Working(r, j)'
                   PROVE  j \in sched'[r].active
        OBVIOUS
      <3>1. job'[r][j].wrap \in Wraps /\ (job'[r][j].wrap \notin {"none", "ended"} \/ job'[r][j].make)
        BY RunTypes DEF Working, JobStates
      <3> QED
        BY <2>1, <2>2, <3>1 DEF JobInv, ReapInv, Over, Wraps
    <2>4. Cardinality(sched'[r].active) <= Cap
      BY <2>1, <2>2 DEF SlotInv, Over
    <2>5. /\ IsFiniteSet(sched'[r].active) /\ IsFiniteSet(New)
          /\ Cardinality(New) <= Cardinality(sched'[r].active)
      BY <1>0, <2>2, <2>3, FS_Subset
    <2>6. Cardinality(New) \in Nat /\ Cardinality(sched'[r].active) \in Nat
      BY <2>5, FS_CardinalityType
    <2> QED
      BY <1>0, <2>4, <2>5, <2>6
  <1>3. CASE ~Spawn(r)
    <2>1. New \subseteq Old
      <3> SUFFICES ASSUME NEW j \in Jobs, Working(r, j)'
                   PROVE  Working(r, j)
        OBVIOUS
      <3>1. JobEffect(r, j)
        BY JobStep
      <3>2. job'[r][j].wrap \notin {"none", "ended"} \/ job'[r][j].make
        BY DEF Working
      <3>3. \/ job'[r][j] = job[r][j]
            \/ job'[r][j].wrap = "ended" /\ job'[r][j].make = job[r][j].make
            \/ job[r][j].wrap \notin {"none", "ended"}
            \/ job'[r][j].wrap = job[r][j].wrap /\ job'[r][j].make = FALSE
        BY <1>3, <3>1 DEF JobEffect
      <3> QED
        BY <3>2, <3>3 DEF Working
    <2>2. sched[r].mode = "parallel"
      BY ActiveStep, RunTypes DEF RunInv, WaitInv
    <2>3. Cardinality(Old) <= Cap
      BY <2>2, RunTypes DEF RunInv
    <2>4. IsFiniteSet(New) /\ Cardinality(New) <= Cardinality(Old)
      BY <1>1, <2>1, FS_Subset
    <2>5. Cardinality(New) \in Nat
      BY <2>4, FS_CardinalityType
    <2> QED
      BY <1>0, <1>1, <2>3, <2>4, <2>5
  <1> QED
    BY <1>2, <1>3

\* A run holds the lock only if it held it before or has just acquired it.
LEMMA HoldsStep ==
  ASSUME MInv, NEW r \in Runs, RunStep(r), Holds(r)'
  PROVE  Holds(r) \/ Acquire(r)
  <1> SUFFICES ASSUME ~Acquire(r)
               PROVE  Holds(r)
    OBVIOUS
  <1>1. CASE Alive(r)'
    BY <1>1, SchedCases DEF SchedEffect, Alive, Holds
  <1>2. ASSUME NEW j \in Jobs, Working(r, j)'
        PROVE  Holds(r)
    <2>1. JobEffect(r, j)
      BY JobStep
    <2>2. job'[r][j].wrap \notin {"none", "ended"} \/ job'[r][j].make
      BY <1>2 DEF Working
    <2>3. \/ job'[r][j] = job[r][j]
          \/ sched[r].pc = "plan"
          \/ job'[r][j].wrap = "ended" /\ job'[r][j].make = job[r][j].make
          \/ job[r][j].wrap \notin {"none", "ended"}
          \/ job'[r][j].wrap = job[r][j].wrap /\ job'[r][j].make = FALSE
      BY <2>1 DEF JobEffect
    <2> QED
      BY <2>2, <2>3 DEF Working, Holds, Alive
  <1> QED
    BY <1>1, <1>2 DEF Holds

LEMMA LockStep ==
  ASSUME MInv, NEW r \in Runs, RunStep(r)
  PROVE  LockInv'
  <1>1. ASSUME NEW q \in Runs, q # r
        PROVE  Holds(q)' <=> Holds(q)
    BY <1>1, OtherRuns DEF Holds, Alive, Working
  <1>2. Acquire(r) => \A q \in Runs \ {r} : ~Holds(q)
    BY DEF Acquire
  <1>3. LockInv
    BY DEF MInv
  <1>4. ASSUME NEW p \in Runs, NEW q \in Runs, Holds(p)', Holds(q)'
        PROVE  p = q
    BY <1>1, <1>2, <1>3, <1>4, HoldsStep DEF LockInv
  <1> QED
    BY <1>4 DEF LockInv

-----------------------------------------------------------------------------
(* The records of the jobs *)

LEMMA FilesTypeStep ==
  ASSUME MInv, NEW r \in Runs, RunStep(r)
  PROVE  FilesType'
  <1>0. FilesType /\ JobType
    BY TypeParts DEF MInv
  <1> USE <1>0 DEF FilesType
  <1>1. CASE Refused(r)
    BY <1>1 DEF Refused
  <1>2. CASE Acquire(r)
    BY <1>2 DEF Acquire
  <1>3. CASE Spawn(r)
    BY <1>3 DEF Spawn, Wrapper
  <1>4. CASE PlanRead(r)
    BY <1>4 DEF PlanRead, Step, Release
  <1>5. CASE WaitActiveJobs(r)
    BY <1>5 DEF WaitActiveJobs
  <1>6. CASE StartWatchdog(r)
    BY <1>6 DEF StartWatchdog
  <1>7. CASE ReadComplete(r)
    BY <1>7 DEF ReadComplete, DogOff
  <1>8. CASE ReadTimeout(r)
    BY <1>8 DEF ReadTimeout, Step
  <1>9. CASE Reap(r)
    BY <1>9 DEF Reap
  <1>10. CASE Abort(r)
    BY <1>10 DEF Abort, Exit77, Release
  <1>11. CASE AppendJobs(r)
    BY <1>11 DEF AppendJobs
  <1>12. CASE Report(r)
    BY <1>12 DEF Report, Exit
  <1>13. CASE Interrupt(r)
    BY <1>13 DEF Interrupt, Fault, Exit77, Release
  <1>14. CASE Kill(r)
    BY <1>14 DEF Kill, Fault, Step
  <1>15. CASE WatchdogFires(r)
    BY <1>15 DEF WatchdogFires
  <1>16. ASSUME NEW j \in Jobs, ClearJob(r, j)
        PROVE  FilesType'
    BY <1>16 DEF ClearJob
  <1>17. ASSUME NEW j \in Jobs, WriteJobJson(r, j)
        PROVE  FilesType'
    <2>1. Record(r, j, job[r][j].rc) \in Records
      BY DEF Record, Records, JobType, JobStates
    <2> QED
      BY <1>17, <2>1 DEF WriteJobJson
  <1>18. ASSUME NEW j \in Jobs, ReportCompletion(r, j)
        PROVE  FilesType'
    BY <1>18 DEF ReportCompletion, Wrapper
  <1>19. ASSUME NEW j \in Jobs, WrapperExits(r, j)
        PROVE  FilesType'
    BY <1>19 DEF WrapperExits, Wrapper
  <1>20. ASSUME NEW j \in Jobs, MakeEnds(r, j)
        PROVE  FilesType'
    BY <1>20 DEF MakeEnds
  <1>21. ASSUME NEW j \in Jobs, KillWrapper(r, j)
        PROVE  FilesType'
    BY <1>21 DEF KillWrapper, Fault
  <1>22. ASSUME NEW j \in Jobs, RefuseJob(r, j)
        PROVE  FilesType'
    BY <1>22 DEF RefuseJob, Fault
  <1>23. ASSUME NEW j \in Jobs, RefuseBuildRoot(r, j)
        PROVE  FilesType'
    BY <1>23 DEF RefuseBuildRoot, Fault
  <1>24. ASSUME NEW j \in Jobs, ClearFails(r, j)
        PROVE  FilesType'
    <2>1. PICK f \in {{}, file[j]} : file' = [file EXCEPT ![j] = f]
      BY <1>24 DEF ClearFails
    <2> QED
      BY <2>1
  <1>25. ASSUME NEW j \in Jobs, WriteFails(r, j)
        PROVE  FilesType'
    <2>1. Record(r, j, "blank") \in Records
      BY DEF Record, Records
    <2>2. PICK f \in {file[j], {Record(r, j, "blank")}} : file' = [file EXCEPT ![j] = f]
      BY <1>25 DEF WriteFails
    <2> QED
      BY <2>1, <2>2
  <1>26. CASE SkipReports(r)
    BY <1>26 DEF SkipReports, Exit
  <1> QED
    BY <1>1, <1>2, <1>3, <1>4, <1>5, <1>6, <1>7, <1>8, <1>9, <1>10, <1>11, <1>12,
       <1>13, <1>14, <1>15, <1>16, <1>17, <1>18, <1>19, <1>20, <1>21, <1>22, <1>23,
       <1>24, <1>25, <1>26
       DEF RunStep, Scheduler, WrapperStep, WrapperFault

\* The wrapper of a job clears its path and writes the record there.
LEMMA FileCases ==
  ASSUME MInv, NEW r \in Runs, RunStep(r), NEW i \in Jobs
  PROVE  \/ file'[i] = file[i]
         \/ job[r][i].wrap \in {"clear", "record"} /\ job'[r][i].wrote = job[r][i].wrote
         \/ WriteJobJson(r, i) /\ job[r][i].wrap = "record"
            /\ file'[i] = {Record(r, i, job[r][i].rc)}
  <1> DEFINE G ==
         \/ file'[i] = file[i]
         \/ job[r][i].wrap \in {"clear", "record"} /\ job'[r][i].wrote = job[r][i].wrote
         \/ WriteJobJson(r, i) /\ job[r][i].wrap = "record"
            /\ file'[i] = {Record(r, i, job[r][i].rc)}
  <1>0. FilesType
    BY DEF MInv
  <1> USE <1>0 DEF FilesType
  <1>1. CASE Refused(r)
    BY <1>1 DEF Refused
  <1>2. CASE Acquire(r)
    BY <1>2 DEF Acquire
  <1>3. CASE Spawn(r)
    BY <1>3 DEF Spawn, Wrapper
  <1>4. CASE PlanRead(r)
    BY <1>4 DEF PlanRead, Step, Release
  <1>5. CASE WaitActiveJobs(r)
    BY <1>5 DEF WaitActiveJobs
  <1>6. CASE StartWatchdog(r)
    BY <1>6 DEF StartWatchdog
  <1>7. CASE ReadComplete(r)
    BY <1>7 DEF ReadComplete, DogOff
  <1>8. CASE ReadTimeout(r)
    BY <1>8 DEF ReadTimeout, Step
  <1>9. CASE Reap(r)
    BY <1>9 DEF Reap
  <1>10. CASE Abort(r)
    BY <1>10 DEF Abort, Exit77, Release
  <1>11. CASE AppendJobs(r)
    BY <1>11 DEF AppendJobs
  <1>12. CASE Report(r)
    BY <1>12 DEF Report, Exit
  <1>13. CASE Interrupt(r)
    BY <1>13 DEF Interrupt, Fault, Exit77, Release
  <1>14. CASE Kill(r)
    BY <1>14 DEF Kill, Fault, Step
  <1>15. CASE WatchdogFires(r)
    BY <1>15 DEF WatchdogFires
  <1>16. ASSUME NEW j \in Jobs, ClearJob(r, j)
        PROVE  G
    <2>1. CASE i = j
      <3>1. job'[r][i].wrote = job[r][i].wrote
        BY <1>16, <2>1, TypeParts DEF ClearJob, StartMake, MInv, JobType, JobStates
      <3> QED
        BY <1>16, <2>1, <3>1 DEF ClearJob
    <2>2. CASE i # j
      BY <1>16, <2>2 DEF ClearJob
    <2> QED
      BY <2>1, <2>2
  <1>17. ASSUME NEW j \in Jobs, WriteJobJson(r, j)
        PROVE  G
    <2>1. CASE i = j
      <3>1. job[r][i].wrap = "record" /\ file'[i] = {Record(r, i, job[r][i].rc)}
        BY <1>17, <2>1 DEF WriteJobJson
      <3> QED
        BY <1>17, <2>1, <3>1
    <2>2. CASE i # j
      BY <1>17, <2>2 DEF WriteJobJson
    <2> QED
      BY <2>1, <2>2
  <1>18. ASSUME NEW j \in Jobs, ReportCompletion(r, j)
        PROVE  G
    BY <1>18 DEF ReportCompletion, Wrapper
  <1>19. ASSUME NEW j \in Jobs, WrapperExits(r, j)
        PROVE  G
    BY <1>19 DEF WrapperExits, Wrapper
  <1>20. ASSUME NEW j \in Jobs, MakeEnds(r, j)
        PROVE  G
    BY <1>20 DEF MakeEnds
  <1>21. ASSUME NEW j \in Jobs, KillWrapper(r, j)
        PROVE  G
    BY <1>21 DEF KillWrapper, Fault
  <1>22. ASSUME NEW j \in Jobs, RefuseJob(r, j)
        PROVE  G
    BY <1>22 DEF RefuseJob, Fault
  <1>23. ASSUME NEW j \in Jobs, RefuseBuildRoot(r, j)
        PROVE  G
    <2>1. CASE i = j
      <3>1. job'[r][i].wrote = job[r][i].wrote
        BY <1>23, <2>1, TypeParts DEF RefuseBuildRoot, MInv, JobType, JobStates
      <3> QED
        BY <1>23, <2>1, <3>1 DEF RefuseBuildRoot
    <2>2. CASE i # j
      BY <1>23, <2>2 DEF RefuseBuildRoot
    <2> QED
      BY <2>1, <2>2
  <1>24. ASSUME NEW j \in Jobs, ClearFails(r, j)
        PROVE  G
    <2>1. CASE i = j
      <3>1. job'[r][i].wrote = job[r][i].wrote
        BY <1>24, <2>1, TypeParts DEF ClearFails, StartMake, MInv, JobType, JobStates
      <3> QED
        BY <1>24, <2>1, <3>1 DEF ClearFails
    <2>2. CASE i # j
      BY <1>24, <2>2 DEF ClearFails
    <2> QED
      BY <2>1, <2>2
  <1>25. ASSUME NEW j \in Jobs, WriteFails(r, j)
        PROVE  G
    <2>1. CASE i = j
      <3>1. job'[r][i].wrote = job[r][i].wrote
        BY <1>25, <2>1, TypeParts DEF WriteFails, Wrapper, MInv, JobType, JobStates
      <3> QED
        BY <1>25, <2>1, <3>1 DEF WriteFails
    <2>2. CASE i # j
      BY <1>25, <2>2 DEF WriteFails
    <2> QED
      BY <2>1, <2>2
  <1>26. CASE SkipReports(r)
    BY <1>26 DEF SkipReports, Exit
  <1> QED
    BY <1>1, <1>2, <1>3, <1>4, <1>5, <1>6, <1>7, <1>8, <1>9, <1>10, <1>11, <1>12,
       <1>13, <1>14, <1>15, <1>16, <1>17, <1>18, <1>19, <1>20, <1>21, <1>22, <1>23,
       <1>24, <1>25, <1>26
       DEF RunStep, Scheduler, WrapperStep, WrapperFault

LEMMA ManifestCases ==
  ASSUME NEW r \in Runs, RunStep(r)
  PROVE  \/ manifest' = manifest
         \/ Acquire(r)
         \/ AppendJobs(r) /\ manifest' = manifest \cup UNION {file[j] : j \in Jobs} /\ file' = file
  <1> DEFINE G ==
         \/ manifest' = manifest
         \/ Acquire(r)
         \/ AppendJobs(r) /\ manifest' = manifest \cup UNION {file[j] : j \in Jobs} /\ file' = file
  <1>1. CASE Refused(r)
    BY <1>1 DEF Refused
  <1>2. CASE Acquire(r)
    BY <1>2 DEF Acquire
  <1>3. CASE Spawn(r)
    BY <1>3 DEF Spawn, Wrapper
  <1>4. CASE PlanRead(r)
    BY <1>4 DEF PlanRead, Step, Release
  <1>5. CASE WaitActiveJobs(r)
    BY <1>5 DEF WaitActiveJobs
  <1>6. CASE StartWatchdog(r)
    BY <1>6 DEF StartWatchdog
  <1>7. CASE ReadComplete(r)
    BY <1>7 DEF ReadComplete, DogOff
  <1>8. CASE ReadTimeout(r)
    BY <1>8 DEF ReadTimeout, Step
  <1>9. CASE Reap(r)
    BY <1>9 DEF Reap
  <1>10. CASE Abort(r)
    BY <1>10 DEF Abort, Exit77, Release
  <1>11. CASE AppendJobs(r)
    BY <1>11 DEF AppendJobs
  <1>12. CASE Report(r)
    BY <1>12 DEF Report, Exit
  <1>13. CASE Interrupt(r)
    BY <1>13 DEF Interrupt, Fault, Exit77, Release
  <1>14. CASE Kill(r)
    BY <1>14 DEF Kill, Fault, Step
  <1>15. CASE WatchdogFires(r)
    BY <1>15 DEF WatchdogFires
  <1>16. ASSUME NEW j \in Jobs, ClearJob(r, j)
        PROVE  G
    BY <1>16 DEF ClearJob, StartMake
  <1>17. ASSUME NEW j \in Jobs, WriteJobJson(r, j)
        PROVE  G
    BY <1>17 DEF WriteJobJson, Wrapper
  <1>18. ASSUME NEW j \in Jobs, ReportCompletion(r, j)
        PROVE  G
    BY <1>18 DEF ReportCompletion, Wrapper
  <1>19. ASSUME NEW j \in Jobs, WrapperExits(r, j)
        PROVE  G
    BY <1>19 DEF WrapperExits, Wrapper
  <1>20. ASSUME NEW j \in Jobs, MakeEnds(r, j)
        PROVE  G
    BY <1>20 DEF MakeEnds
  <1>21. ASSUME NEW j \in Jobs, KillWrapper(r, j)
        PROVE  G
    BY <1>21 DEF KillWrapper, Fault
  <1>22. ASSUME NEW j \in Jobs, RefuseJob(r, j)
        PROVE  G
    BY <1>22 DEF RefuseJob, Fault
  <1>23. ASSUME NEW j \in Jobs, RefuseBuildRoot(r, j)
        PROVE  G
    BY <1>23 DEF RefuseBuildRoot, Fault
  <1>24. ASSUME NEW j \in Jobs, ClearFails(r, j)
        PROVE  G
    BY <1>24 DEF ClearFails, Fault, StartMake
  <1>25. ASSUME NEW j \in Jobs, WriteFails(r, j)
        PROVE  G
    BY <1>25 DEF WriteFails, Fault, Wrapper
  <1>26. CASE SkipReports(r)
    BY <1>26 DEF SkipReports, Exit
  <1> QED
    BY <1>1, <1>2, <1>3, <1>4, <1>5, <1>6, <1>7, <1>8, <1>9, <1>10, <1>11, <1>12,
       <1>13, <1>14, <1>15, <1>16, <1>17, <1>18, <1>19, <1>20, <1>21, <1>22, <1>23,
       <1>24, <1>25, <1>26
       DEF RunStep, Scheduler, WrapperStep, WrapperFault

\* While a run is alive no other touches the files of the jobs, nor the manifest.
LEMMA RecordOthers ==
  ASSUME MInv, NEW r \in Runs, RunStep(r), NEW q \in Runs, q # r
  PROVE  RecordInv(q)'
  <1> SUFFICES ASSUME sched'[q].mode = "parallel", Alive(q)'
               PROVE  RecordInv(q)'
    BY DEF RecordInv
  <1>0. /\ sched'[q] = sched[q] /\ dog'[q] = dog[q] /\ queue'[q] = queue[q]
        /\ job'[q] = job[q]
    BY OtherRuns
  <1>1. Alive(q) /\ Holds(q) /\ ~Holds(r) /\ RecordInv(q)
    BY <1>0 DEF Alive, Holds, MInv, LockInv
  <1>2. \A i \in Jobs : job[r][i].wrap \notin {"clear", "record"}
    BY <1>1 DEF Holds, Working
  <1>3. \A i \in Jobs : file'[i] = file[i]
    BY <1>2, FileCases
  <1>4. manifest \subseteq manifest'
    BY <1>1, ManifestCases DEF Acquire
  <1> QED
    BY <1>0, <1>1, <1>3, <1>4 DEF RecordInv, OwnRecord, Alive, Record

\* The record that a job has written stays where it is.
LEMMA OwnRecordStep ==
  ASSUME MInv, NEW r \in Runs, RunStep(r), Alive(r), sched[r].mode = "parallel",
         NEW j \in Jobs, job'[r][j].wrote
  PROVE  OwnRecord(r, j)'
  <1>0. /\ JobInv(r) /\ JobEffect(r, j) /\ RecordInv(r) /\ job[r][j].rc \in Codes
        /\ job[r][j].wrote \in BOOLEAN
    BY JobStep, RunTypes DEF MInv, RunInv, JobStates
  <1>1. CASE WriteJobJson(r, j)
    <2>1. file'[j] = {Record(r, j, job[r][j].rc)}
      BY <1>1 DEF WriteJobJson, MInv, FilesType
    <2> QED
      BY <1>0, <2>1 DEF OwnRecord, Record
  <1>2. CASE ~WriteJobJson(r, j)
    <2>1. job[r][j].wrote
      BY <1>0, <1>2 DEF JobEffect
    <2>2. job[r][j].wrap \notin {"clear", "record"}
      BY <1>0, <2>1 DEF JobInv
    <2>3. file'[j] = file[j]
      BY <1>2, <2>2, FileCases
    <2> QED
      BY <1>0, <2>1, <2>3 DEF RecordInv, OwnRecord, Record
  <1> QED
    BY <1>1, <1>2

LEMMA RecordOwn ==
  ASSUME MInv, NEW r \in Runs, RunStep(r)
  PROVE  RecordInv(r)'
  <1> SUFFICES ASSUME sched'[r].mode = "parallel", Alive(r)'
               PROVE  RecordInv(r)'
    BY DEF RecordInv
  <1>0. /\ sched[r].next \in 1..(N + 1) /\ sched'[r].next \in 1..(N + 1)
        /\ JobInv(r) /\ JobInv(r)' /\ FifoInv(r)' /\ WaitInv(r) /\ SlotInv(r) /\ ReapInv(r)
        /\ RecordInv(r) /\ SchedEffect(r)
    BY RunTypes, JobInvStep, FifoInvStep, SchedCases DEF Scheds, RunInv, MInv
  <1>1. CASE Alive(r)
    <2>1. sched[r].mode = "parallel"
      BY <1>1, ActiveStep DEF Alive
    <2>2. \A j \in Jobs : job'[r][j].wrote => OwnRecord(r, j)'
      BY <1>1, <2>1, OwnRecordStep
    <2>3. ASSUME NEW j \in Jobs, j < sched'[r].next, j \notin sched'[r].active,
                 ~(sched'[r].pc = "reap" /\ j = sched'[r].reap)
          PROVE  job'[r][j].wrap = "ended" /\ (~sched'[r].failed => job'[r][j].rc = "zero")
      <3>1. CASE Reap(r) /\ j = sched[r].reap /\ sched[r].pc = "reap" /\ sched'[r] # sched[r]
        <4>1. /\ job' = job /\ job[r][j].wrap = "ended"
              /\ sched'[r].failed = (sched[r].failed \/ job[r][j].rc # "zero")
          BY <1>0, <3>1 DEF SchedEffect, Alive
        <4> QED
          BY <2>3, <4>1
      <3>2. CASE /\ ~sched'[r].failed => ~sched[r].failed
                 /\ j < sched[r].next /\ j \notin sched[r].active
                 /\ ~(sched[r].pc = "reap" /\ j = sched[r].reap)
        <4>1. job[r][j].wrap = "ended" /\ (~sched[r].failed => job[r][j].rc = "zero")
          BY <1>0, <1>1, <2>1, <3>2 DEF RecordInv
        <4>2. job'[r][j] = job[r][j] \/ (job'[r][j].rc = job[r][j].rc /\ job'[r][j].wrap = "ended")
          <5>1. JobEffect(r, j)
            BY JobStep
          <5>2. j # sched[r].next /\ j \notin sched[r].active
            BY <1>0, <3>2 DEF Jobs
          <5>3. job[r][j].wrap = "ended"
            BY <4>1
          <5> QED
            BY <5>1, <5>2, <5>3 DEF JobEffect
        <4> QED
          BY <3>2, <4>1, <4>2
      <3>3. j < sched[r].next /\ (j \notin sched[r].active \/ (sched'[r].pc = "reap" /\ j = sched'[r].reap))
        <4>1. ReadComplete(r) => sched'[r].pc = "reap"
          <5> SUFFICES ASSUME ReadComplete(r)
                       PROVE  sched'[r].pc = "reap"
            OBVIOUS
          <5>1. sched'[r] = [sched[r] EXCEPT !.pc = "reap", !.reap = Head(queue[r]).of,
                                             !.active = @ \ {Head(queue[r]).of}]
            BY TypeParts DEF ReadComplete, MInv, SchedType
          <5> QED
            BY <5>1, RunTypes DEF Scheds
        <4> QED
          BY <1>0, <2>1, <2>3, <4>1, ActiveStep DEF Jobs
      <3>4. \/ Reap(r) /\ sched[r].pc = "reap" /\ sched'[r] # sched[r]
            \/ sched'[r] = sched[r]
            \/ sched[r].pc # "reap" /\ sched'[r].failed = sched[r].failed
        BY <1>0, <2>1 DEF SchedEffect, Keeps, Alive, WaitInv
      <3>5. Reap(r) /\ sched[r].pc = "reap" /\ sched'[r] # sched[r] 
              => (~sched'[r].failed => ~sched[r].failed)
        BY <1>0, <2>3 DEF SchedEffect, Alive
      <3> QED
        BY <2>3, <3>1, <3>2, <3>3, <3>4, <3>5
    <2>4. ASSUME sched'[r].pc = "report", NEW j \in Jobs
          PROVE  file'[j] \subseteq manifest'
      <3>1. CASE AppendJobs(r)
        BY <3>1 DEF AppendJobs
      <3>2. CASE ~AppendJobs(r)
        <4>1. sched[r].pc = "report"
          BY <1>0, <2>4, <3>2 DEF SchedEffect
        <4>2. sched[r].active = {} /\ file[j] \subseteq manifest
          BY <1>0, <1>1, <2>1, <4>1 DEF SlotInv, RecordInv
        <4>3. job[r][j].wrap \notin {"clear", "record"}
          BY <1>0, <4>2 DEF JobInv
        <4>4. file'[j] = file[j]
          BY <4>3, FileCases
        <4>5. manifest' = manifest
          BY <3>2, <4>1, ManifestCases DEF Acquire
        <4> QED
          BY <4>2, <4>4, <4>5
      <3> QED
        BY <3>1, <3>2
    <2> QED
      BY <2>2, <2>3, <2>4 DEF RecordInv
  <1>2. CASE ~Alive(r)
    <2>1. /\ sched[r].pc = "new" /\ sched'[r].pc = "plan" /\ sched'[r].next = 1
          /\ sched'[r].active = {}
      BY <1>0, <1>2 DEF SchedEffect, Keeps, Alive, WaitInv
    <2>2. \A j \in Jobs : ~job'[r][j].wrote
      <3> SUFFICES ASSUME NEW j \in Jobs, job'[r][j].wrote
                   PROVE  FALSE
        OBVIOUS
      <3>1. ~(j < sched'[r].next)
        BY <2>1 DEF Jobs
      <3> QED
        BY <1>0, <3>1 DEF JobInv
    <2>3. \A j \in Jobs : ~(j < sched'[r].next)
      BY <2>1 DEF Jobs
    <2> QED
      BY <2>1, <2>2, <2>3 DEF RecordInv
  <1> QED
    BY <1>1, <1>2

-----------------------------------------------------------------------------
(* The inductive invariant holds *)

LEMMA InvInit == Init => MInv
  <1> SUFFICES ASSUME Init
               PROVE  MInv
    OBVIOUS
  <1> USE SchedulerConstants DEF Init
  <1>1. SchedType /\ DogType /\ JobType
    BY DEF SchedType, Scheds, Pcs, DogType, JobType, JobStates, Wraps, Codes
  <1>2. QueueType /\ FilesType /\ SummaryType /\ FileType /\ ManifestType /\ FaultsType
    BY DEF QueueType, FilesType, SummaryType, Summaries, FileType, ManifestType, FaultsType
  <1>3. \A r \in Runs : \A i \in 1..Len(queue[r]) : queue[r][i] \in Messages
    OBVIOUS
  <1>4. TypeOK
    BY <1>1, <1>2, <1>3, Zenon
       DEF TypeOK, SchedType, DogType, JobType, SummaryType, FileType, ManifestType, FaultsType,
           Scheds, Pcs, JobStates, Wraps, Messages, Records
  <1>5. \A r \in Runs : /\ sched[r].pc = "new" /\ sched[r].mode = "parallel" /\ sched[r].gen = 0
                        /\ sched[r].next = 1 /\ sched[r].active = {} /\ sched[r].reap = 0
                        /\ dog[r].on = 0 /\ dog[r].fired = 0 /\ Len(queue[r]) = 0
                        /\ \A j \in Jobs : /\ job[r][j].wrap = "none" /\ ~job[r][j].make
                                           /\ ~job[r][j].wrote
    OBVIOUS
  <1> HIDE DEF Init
  <1>6. \A r \in Runs : ~Holds(r) /\ ~Alive(r) /\ \A j \in Jobs : ~Working(r, j)
    BY <1>5 DEF Holds, Alive, Working
  <1>7. LockInv /\ \A r \in Runs : RecordInv(r)
    BY <1>6 DEF LockInv, RecordInv
  <1>8. Cardinality({}) = 0 /\ Cap >= 1 /\ Cap \in Nat
    BY FS_EmptySet
  <1>9. ASSUME NEW r \in Runs
        PROVE  RunInv(r)
    <2>1. JobInv(r) /\ ReapInv(r) /\ FifoInv(r) /\ DogInv(r)
      BY <1>5, <1>6 DEF JobInv, ReapInv, FifoInv, DogInv, Over, Jobs
    <2>2. /\ sched[r].pc = "new" /\ sched[r].mode = "parallel" /\ sched[r].gen = 0
          /\ sched[r].next = 1 /\ sched[r].active = {} /\ Cardinality(sched[r].active) = 0
      BY <1>5, <1>8
    <2>3. WaitInv(r)
      BY <2>2 DEF WaitInv
    <2>4. SlotInv(r)
      BY <1>8, <2>2 DEF SlotInv
    <2>5. Cardinality({j \in Jobs : Working(r, j)}) <= Cap
      <3>1. {j \in Jobs : Working(r, j)} = {}
        BY <1>6
      <3> QED
        BY <1>8, <3>1
    <2> QED
      BY <2>1, <2>2, <2>3, <2>4, <2>5 DEF RunInv
  <1> QED
    BY <1>2, <1>4, <1>7, <1>9 DEF MInv

\* What concerns a run alone holds while the run does not change.
LEMMA RunFrame ==
  ASSUME NEW q \in Runs, sched'[q] = sched[q], dog'[q] = dog[q], queue'[q] = queue[q],
         job'[q] = job[q], RunInv(q)
  PROVE  RunInv(q)'
  <1>1. \A j \in Jobs : Working(q, j)' <=> Working(q, j)
    BY DEF Working
  <1>2. JobInv(q)' /\ ReapInv(q)'
    BY <1>1 DEF RunInv, JobInv, ReapInv, Over
  <1>3. FifoInv(q)' /\ DogInv(q)'
    BY DEF RunInv, FifoInv, GoodMessage, DogInv
  <1>4. WaitInv(q)' /\ SlotInv(q)'
    BY DEF RunInv, WaitInv, SlotInv, Over
  <1>5. {j \in Jobs : Working(q, j)'} = {j \in Jobs : Working(q, j)}
    BY <1>1
  <1> QED
    BY <1>2, <1>3, <1>4, <1>5 DEF RunInv

LEMMA InvStep == MInv /\ [Next]_vars => MInv'
  <1> SUFFICES ASSUME MInv, [Next]_vars
               PROVE  MInv'
    OBVIOUS
  <1>1. ASSUME NEW r \in Runs, RunStep(r)
        PROVE  MInv'
    <2>1. /\ SchedType' /\ DogType' /\ JobType' /\ SummaryType' /\ FileType' /\ ManifestType'
          /\ FaultsType' /\ QueueType' /\ FilesType' /\ LockInv'
      BY <1>1, SchedStep, DogStep, JobTypeStep, FilesStep, QueueStep, FilesTypeStep, LockStep
    <2>2. \A q \in Runs : \A i \in 1..Len(queue'[q]) : queue'[q][i] \in Messages
      BY <2>1 DEF QueueType
    <2>3. TypeOK'
      BY <2>1, <2>2, Zenon
         DEF TypeOK, SchedType, DogType, JobType, SummaryType, FileType, ManifestType, FaultsType,
             Scheds, Pcs, JobStates, Wraps, Messages, Records
    <2>4. RunInv(r)' /\ RecordInv(r)'
      BY <1>1, JobInvStep, ReapInvStep, FifoInvStep, DogInvStep, WaitInvStep, CapStep, RecordOwn
         DEF RunInv
    <2>5. ASSUME NEW q \in Runs, q # r
          PROVE  RunInv(q)' /\ RecordInv(q)'
      BY <1>1, <2>5, OtherRuns, RunFrame, RecordOthers DEF MInv
    <2> QED
      BY <2>1, <2>3, <2>4, <2>5 DEF MInv
  <1>2. CASE UNCHANGED vars
    <2>1. TypeOK' /\ QueueType' /\ FilesType'
      BY <1>2, Zenon DEF MInv, vars, TypeOK, QueueType, FilesType
    <2>2. LockInv'
      BY <1>2 DEF MInv, vars, LockInv, Holds, Alive, Working
    <2>3. ASSUME NEW q \in Runs
          PROVE  RunInv(q)' /\ RecordInv(q)'
      BY <1>2, RunFrame DEF vars, MInv, RecordInv, OwnRecord, Alive, Record
    <2> QED
      BY <2>1, <2>2, <2>3 DEF MInv
  <1> QED
    BY <1>1, <1>2 DEF Next, RunStep

LEMMA Invariant == Spec => []MInv
  BY InvInit, InvStep, PTL DEF Spec

-----------------------------------------------------------------------------
(***************************************************************************)
(* Runs never overlap in the job roots, a parallel run keeps to its slots  *)
(* although wrappers are killed and their make goes on, and a run gives up *)
(* only after the watchdog of its present wait has reported.               *)
(***************************************************************************)
THEOREM SchedulerTheorem == Spec => []SchedulerSound
  <1>1. MInv => SchedulerSound
    <2> SUFFICES ASSUME MInv
                 PROVE  SchedulerSound
      OBVIOUS
    <2>1. NoOverlap
      <3>1. \A r \in Runs, i \in Jobs : Working(r, i) => Holds(r)
        BY DEF Holds
      <3> QED
        BY <3>1 DEF MInv, LockInv, NoOverlap
    <2>2. CapRespected /\ TimeoutIsCurrent
      BY DEF MInv, RunInv, CapRespected, TimeoutIsCurrent
    <2> QED
      BY <2>1, <2>2 DEF MInv, SchedulerSound
  <1> QED
    BY <1>1, Invariant, PTL

\* Only the report of a run that went to its end sets the exit code to 0.
LEMMA CodeStep ==
  ASSUME MInv, NEW r \in Runs, RunStep(r)
  PROVE  Report(r) \/ SkipReports(r) \/ sched'[r].code \in {sched[r].code, 77}
  <1> DEFINE G == Report(r) \/ SkipReports(r) \/ sched'[r].code \in {sched[r].code, 77}
  <1>0. sched \in [Runs -> Scheds]
    BY TypeParts DEF MInv, SchedType
  <1> USE <1>0 DEF Scheds
  <1>1. CASE Refused(r)
    BY <1>1 DEF Refused
  <1>2. CASE Acquire(r)
    BY <1>2 DEF Acquire
  <1>3. CASE Spawn(r)
    BY <1>3 DEF Spawn
  <1>4. CASE PlanRead(r)
    BY <1>4 DEF PlanRead, Step, Release
  <1>5. CASE WaitActiveJobs(r)
    BY <1>5 DEF WaitActiveJobs
  <1>6. CASE StartWatchdog(r)
    BY <1>6 DEF StartWatchdog
  <1>7. CASE ReadComplete(r)
    BY <1>7 DEF ReadComplete
  <1>8. CASE ReadTimeout(r)
    BY <1>8 DEF ReadTimeout, Step
  <1>9. CASE Reap(r)
    BY <1>9 DEF Reap
  <1>10. CASE Abort(r) \/ Interrupt(r)
    BY <1>10 DEF Abort, Interrupt, Exit77
  <1>11. CASE AppendJobs(r)
    BY <1>11 DEF AppendJobs
  <1>12. CASE Kill(r)
    BY <1>12 DEF Kill, Step
  <1>13. CASE WatchdogFires(r)
    BY <1>13 DEF WatchdogFires
  <1>14. ASSUME NEW j \in Jobs, WrapperStep(r, j)
        PROVE  G
    BY <1>14 DEF WrapperStep, ClearJob, WriteJobJson, ReportCompletion, WrapperExits
  <1>15. ASSUME NEW j \in Jobs, MakeEnds(r, j)
        PROVE  G
    BY <1>15 DEF MakeEnds
  <1>16. ASSUME NEW j \in Jobs, WrapperFault(r, j)
        PROVE  G
    BY <1>16 DEF WrapperFault, RefuseJob, RefuseBuildRoot, ClearFails, WriteFails, KillWrapper
  <1> QED
    BY <1>1, <1>2, <1>3, <1>4, <1>5, <1>6, <1>7, <1>8, <1>9, <1>10,
       <1>11, <1>12, <1>13, <1>14, <1>15, <1>16
       DEF RunStep, Scheduler

(***************************************************************************)
(* An exit code of 0 of a parallel run is never owed to a job that was not *)
(* waited for or to a killed wrapper; with SkipReports no job failed, and  *)
(* with the report every record that a job wrote is in the manifest and    *)
(* passes, whatever an earlier run has left in the job roots.              *)
(***************************************************************************)
THEOREM ExitCodeTheorem == Spec => ZeroMeansEnded
  <1> DEFINE Zero(r) ==
        sched[r].mode = "parallel" /\ sched[r].code # 0 /\ sched'[r].code = 0 =>
          /\ AllEnded(r)
          /\ SkipReports(r) => \A j \in Jobs : job[r][j].rc = "zero"
          /\ Report(r) => RecordsPass(r)
  <1>1. ASSUME MInv, [Next]_vars, NEW r \in Runs
        PROVE  Zero(r)
    <2> SUFFICES ASSUME sched[r].mode = "parallel", sched[r].code # 0, sched'[r].code = 0
                 PROVE  /\ AllEnded(r)
                        /\ SkipReports(r) => \A j \in Jobs : job[r][j].rc = "zero"
                        /\ Report(r) => RecordsPass(r)
      OBVIOUS
    <2>1. Report(r) \/ SkipReports(r)
      <3>1. CASE UNCHANGED vars
        BY <3>1 DEF vars
      <3>2. CASE RunStep(r)
        BY <1>1, <3>2, CodeStep
      <3>3. ASSUME NEW q \in Runs, RunStep(q), q # r
            PROVE  FALSE
        <4>1. sched'[r] = sched[r]
          BY <1>1, <3>3, OtherRuns
        <4> QED
          BY <4>1
      <3> QED
        BY <1>1, <3>1, <3>2, <3>3 DEF Next, RunStep
    <2>2. /\ sched[r].pc = "report" /\ Alive(r) /\ sched \in [Runs -> Scheds]
          /\ sched[r].next \in 1..(N + 1) /\ SlotInv(r) /\ RecordInv(r) /\ JobInv(r)
      BY <1>1, <2>1, TypeParts DEF Report, SkipReports, Alive, MInv, RunInv, SchedType, Scheds
    <2>3. sched[r].active = {} /\ \A j \in Jobs : j < sched[r].next
      BY <2>2, SchedulerConstants DEF SlotInv, Jobs
    <2>4. \A j \in Jobs : /\ job[r][j].wrap = "ended" /\ ~job[r][j].make
                          /\ ~sched[r].failed => job[r][j].rc = "zero"
      BY <2>2, <2>3 DEF RecordInv, JobInv
    <2>5. SkipReports(r) => ~sched[r].failed
      BY <2>2 DEF SkipReports, Exit, Scheds
    <2>6. ASSUME Report(r), NEW j \in Jobs, job[r][j].wrote
          PROVE  summary[j] = "pass" /\ \E rc \in Codes \ {"error"} : Record(r, j, rc) \in manifest
      <3>1. PICK idle \in SUBSET Jobs : MatrixCode(r, idle) = 0
        BY <2>2, <2>6 DEF Report, Exit, Scheds
      <3>2. PICK rc \in Codes : Record(r, j, rc) \in manifest
        BY <2>2, <2>6 DEF RecordInv, OwnRecord
      <3> DEFINE rec == Record(r, j, rc)
      <3>3. rec.rc = rc /\ rec.job = j /\ rc # "blank"
        BY DEF Record, Codes
      <3>4. ~RunFails(rec, idle) /\ ~RunBlocked(rec)
        BY <3>1, <3>2, <3>3 DEF MatrixCode
      <3>5. summary[j] \in {"none", "pass", "fail", "blocked"}
        BY <1>1, TypeParts, SchedulerConstants DEF MInv, SummaryType, Summaries
      <3> HIDE DEF rec
      <3>6. summary[j] = "pass" /\ rc # "error"
        BY <3>3, <3>4, <3>5 DEF RunFails, RunBlocked
      <3> QED
        BY <3>2, <3>6
    <2>7. AllEnded(r)
      BY <2>4 DEF AllEnded
    <2>8. Report(r) => RecordsPass(r)
      BY <2>6 DEF RecordsPass
    <2> QED
      BY <2>4, <2>5, <2>7, <2>8
  <1>2. MInv /\ [Next]_vars => [\A r \in Runs : Zero(r)]_vars
    BY <1>1
  <1> QED
    BY <1>2, Invariant, PTL DEF Spec, ZeroMeansEnded

================================================================================
