--------------------------- MODULE MatrixScheduler ---------------------------
(***************************************************************************)
(* The full-matrix scheduler of runtime/lifecycle/                         *)
(* run-full-matrix-parallel.sh.  A run takes a kernel lock that its jobs   *)
(* inherit, starts one wrapper per planned job, at most Cap at a time, and *)
(* reads what they report from a FIFO into which a watchdog writes too.  A *)
(* wrapper runs make, which outlives a wrapper that is killed, as the      *)
(* wrappers outlive a scheduler that is.  The exit code is what            *)
(* evidence/reports/generate-full-runtime-matrix.py makes of the records   *)
(* in the manifest and of the summaries they point at.                     *)
(***************************************************************************)
EXTENDS Integers, FiniteSets, Sequences

CONSTANTS Runs,
          N,        \* jobs of the port plan
          Truncate, \* FULL_MATRIX_TRUNCATE_MANIFEST
          Cap,      \* FULL_MATRIX_MAX_PARALLEL_JOBS
          Outcomes, \* what a summary can say: "pass", "fail", "blocked"
          MaxFaults \* processes killed from outside, commands of a job that fail

ASSUME SchedulerConstants ==
  /\ N \in Nat /\ Truncate \in BOOLEAN /\ Cap \in Nat \ {0} /\ MaxFaults \in Nat
  /\ Outcomes \subseteq {"pass", "fail", "blocked"}

Jobs == 1..N

VARIABLES
  sched,    \* per run: step, mode, generation of its waits, next job, jobs it waits
            \* for, the one it reaps, whether a job failed, port_check_blocked, exit code
  dog,      \* per run: generation the watchdog sleeps for (0: none), last one it reported
  queue,    \* per run: the completion FIFO
  job,      \* per run and job: step of the wrapper, its status, whether make is
            \* running, whether the wrapper has written its record
  file,     \* the job.json at each job's path: at most one record
  summary,  \* the summary at each job's path
  manifest, \* the records of the run manifest
  faults

vars == <<sched, dog, queue, job, file, summary, manifest, faults>>

Codes == {"zero", "blocked", "error"}   \* return codes: 0, 77 and the others
Summaries == {"none"} \cup Outcomes

\* A line of the manifest; it is blank when the job.json it was copied from is empty.
Record(r, j, rc) == [run |-> r, job |-> j, rc |-> rc]
Complete(j) == [kind |-> "complete", of |-> j]
Timeout(g) == [kind |-> "timeout", of |-> g]

Alive(r) == sched[r].pc \notin {"new", "done", "killed"}
Working(r, j) == job[r][j].wrap \notin {"none", "ended"} \/ job[r][j].make

\* Deliberately wrong: the jobs close FD 9.
HoldsJobsNot(r) == Alive(r)

\* The wrappers and make inherit FD 9; the watchdog and the servers do not keep it.
Holds(r) == Alive(r) \/ \E j \in Jobs : Working(r, j)

Fault == faults < MaxFaults /\ faults' = faults + 1
Step(r, pc) == sched' = [sched EXCEPT ![r].pc = pc]
Wrapper(r, j, step) == job' = [job EXCEPT ![r][j].wrap = step]
DogOff(r) == dog' = [dog EXCEPT ![r].on = 0]

\* release_matrix_completion_queue: the FIFO goes, with what is in it and its watchdog.
Release(r) ==
  queue' = [queue EXCEPT ![r] = <<>>] /\ dog' = [dog EXCEPT ![r] = [on |-> 0, fired |-> 0]]

-----------------------------------------------------------------------------
(* The scheduler *)

\* The lock is taken by another run, or by what a HAProxy job of one has left running.
Refused(r) ==
  /\ sched[r].pc = "new"
  /\ \E q \in Runs \ {r} : Holds(q) \/ \E j \in Jobs : job[q][j].wrap # "none"
  /\ sched' = [sched EXCEPT ![r].pc = "done", ![r].code = 77]
  /\ UNCHANGED <<dog, queue, job, file, summary, manifest, faults>>

\* Jobs run in parallel when the cached artifacts of every connector are ready.
Acquire(r) ==
  /\ sched[r].pc = "new" /\ \A q \in Runs \ {r} : ~Holds(q)
  /\ \E mode \in {"parallel", "serial"} :
       sched' = [sched EXCEPT ![r].pc = "plan", ![r].mode = mode]
  /\ manifest' = IF Truncate THEN {} ELSE manifest
  /\ UNCHANGED <<dog, queue, job, file, summary, faults>>

Spawn(r) ==
  LET j == sched[r].next  active == sched[r].active \cup {j} IN
  /\ sched[r].pc = "plan" /\ j \in Jobs
  /\ Wrapper(r, j, "clear")
  /\ sched' = [sched EXCEPT ![r].next = j + 1, ![r].active = active, ![r].pc =
                 IF sched[r].mode = "serial" THEN "waitall"
                 ELSE IF Cardinality(active) < Cap THEN "plan" ELSE "wait"]
  /\ UNCHANGED <<dog, queue, file, summary, manifest, faults>>

\* The plan is read to its end; in parallel mode the last jobs are waited for one by one.
PlanRead(r) ==
  /\ sched[r].pc = "plan" /\ sched[r].next \notin Jobs
  /\ IF sched[r].active # {} THEN Step(r, "wait") /\ UNCHANGED <<queue, dog>>
                             ELSE Step(r, "append") /\ Release(r)
  /\ UNCHANGED <<job, file, summary, manifest, faults>>

\* wait_active_jobs, without a watchdog.
WaitActiveJobs(r) ==
  /\ sched[r].pc = "waitall" /\ \A j \in sched[r].active : job[r][j].wrap = "ended"
  /\ sched' = [sched EXCEPT ![r].pc = "plan", ![r].active = {}, ![r].failed =
                 @ \/ \E j \in sched[r].active : job[r][j].rc # "zero"]
  /\ UNCHANGED <<dog, queue, job, file, summary, manifest, faults>>

\* Deliberately wrong: a wait without a watchdog.
StartWatchdogNot(r) ==
  /\ sched[r].pc = "wait"
  /\ sched' = [sched EXCEPT ![r].pc = "read", ![r].gen = @ + 1]
  /\ UNCHANGED <<dog, queue, job, file, summary, manifest, faults>>

StartWatchdog(r) ==
  /\ sched[r].pc = "wait"
  /\ sched' = [sched EXCEPT ![r].pc = "read", ![r].gen = @ + 1]
  /\ dog' = [dog EXCEPT ![r].on = sched[r].gen + 1]
  /\ UNCHANGED <<queue, job, file, summary, manifest, faults>>

\* A completion stops the watchdog, whether or not it has just reported.
ReadComplete(r) ==
  /\ sched[r].pc = "read" /\ queue[r] # <<>> /\ Head(queue[r]).kind = "complete"
  /\ queue' = [queue EXCEPT ![r] = Tail(@)]
  /\ sched' = [sched EXCEPT ![r].pc = "reap", ![r].reap = Head(queue[r]).of,
                            ![r].active = @ \ {Head(queue[r]).of}]
  /\ DogOff(r)
  /\ UNCHANGED <<job, file, summary, manifest, faults>>

\* Deliberately wrong: after a timeout the run goes on with what it has.
ReadTimeoutGoesOn(r) ==
  /\ sched[r].pc = "read" /\ queue[r] # <<>> /\ Head(queue[r]).kind = "timeout"
  /\ queue' = [queue EXCEPT ![r] = Tail(@)]
  /\ IF Head(queue[r]).of = sched[r].gen THEN Step(r, "append") ELSE UNCHANGED sched
  /\ UNCHANGED <<dog, job, file, summary, manifest, faults>>

\* A timeout of an earlier wait is dropped.
ReadTimeout(r) ==
  /\ sched[r].pc = "read" /\ queue[r] # <<>> /\ Head(queue[r]).kind = "timeout"
  /\ queue' = [queue EXCEPT ![r] = Tail(@)]
  /\ IF Head(queue[r]).of = sched[r].gen THEN Step(r, "abort") ELSE UNCHANGED sched
  /\ UNCHANGED <<dog, job, file, summary, manifest, faults>>

\* wait for the wrapper that has reported.
Reap(r) ==
  LET j == sched[r].reap IN
  /\ sched[r].pc = "reap" /\ job[r][j].wrap = "ended"
  /\ sched' = [sched EXCEPT ![r].pc = IF sched[r].next \in Jobs \/ sched[r].active = {}
                                      THEN "plan" ELSE "wait",
                            ![r].failed = @ \/ job[r][j].rc # "zero"]
  /\ UNCHANGED <<dog, queue, job, file, summary, manifest, faults>>

\* terminate_jobs: the wrappers die of SIGTERM, what make started goes on.
TerminateJobs(r) ==
  job' = [job EXCEPT ![r] = [j \in Jobs |->
            IF j \in sched[r].active /\ @[j].wrap # "ended"
            THEN [@[j] EXCEPT !.wrap = "ended", !.rc = "error"] ELSE @[j]]]

Exit77(r) ==
  /\ TerminateJobs(r)
  /\ sched' = [sched EXCEPT ![r].pc = "done", ![r].code = 77]
  /\ Release(r)
  /\ UNCHANGED <<file, summary, manifest>>

Abort(r) == sched[r].pc = "abort" /\ Exit77(r) /\ UNCHANGED faults

\* trap 'exit 77' INT TERM, and the cleanup on exit.
Interrupt(r) ==
  /\ Alive(r) /\ Fault
  /\ Exit77(r)

Kill(r) ==
  /\ Alive(r) /\ Fault
  /\ Step(r, "killed")
  /\ UNCHANGED <<dog, queue, job, file, summary, manifest>>

\* The probe fails when a port is bound, and the function returns 0 after it.
CheckPortsFree(busy) == TRUE

AppendJobs(r) ==
  /\ sched[r].pc = "append"
  /\ manifest' = manifest \cup UNION {file[j] : j \in Jobs}
  /\ \E busy \in BOOLEAN :
       sched' = [sched EXCEPT ![r].pc = "report", ![r].blocked = ~CheckPortsFree(busy)]
  /\ UNCHANGED <<dog, queue, job, file, summary, faults>>

\* The verdict of the report on a record, from its return code and from the summary that
\* lies at the path of its job now; in an idle job no case was attempted.
RunFails(rec, idle) ==
  \/ summary[rec.job] = "fail"
  \/ rec.rc = "error" /\ summary[rec.job] = "pass"
  \/ rec.rc = "error" /\ summary[rec.job] = "blocked" /\ rec.job \notin idle

RunBlocked(rec) == summary[rec.job] \in {"none", "blocked"}

\* An empty manifest is an error; blank lines and planned jobs without a record say nothing.
MatrixCode(r, idle) ==
  LET records == {rec \in manifest : rec.rc # "blank"} IN
  IF manifest = {} \/ \E rec \in records : RunFails(rec, idle) THEN 2
  ELSE IF sched[r].blocked \/ \E rec \in records : RunBlocked(rec) THEN 77
  ELSE 0

Exit(r, code) ==
  /\ sched' = [sched EXCEPT ![r].pc = "done", ![r].code = code]
  /\ UNCHANGED <<dog, queue, job, file, summary, manifest, faults>>

\* Whether a job failed is asked under FULL_MATRIX_SKIP_REPORTS only.
SkipReports(r) == sched[r].pc = "report" /\ Exit(r, IF sched[r].failed THEN 2 ELSE 0)

\* Otherwise a failed report generator is a 2, and the matrix report decides.
Report(r) ==
  /\ sched[r].pc = "report"
  /\ Exit(r, 2) \/ \E idle \in SUBSET Jobs : Exit(r, MatrixCode(r, idle))

-----------------------------------------------------------------------------
(* The watchdog, the wrappers and what make starts *)

WatchdogFires(r) ==
  /\ dog[r].on # 0
  /\ queue' = [queue EXCEPT ![r] = Append(@, Timeout(dog[r].on))]
  /\ dog' = [dog EXCEPT ![r] = [on |-> 0, fired |-> dog[r].on]]
  /\ UNCHANGED <<sched, job, file, summary, manifest, faults>>

\* The wrapper of a parallel run reports before it exits.
JobReturns(r, j) == IF sched[r].mode = "serial" THEN "exit" ELSE "report"

\* run_job returns 77 when a path of the job is not safe, and leaves what lies there.
RefuseJob(r, j) ==
  /\ job[r][j].wrap = "clear" /\ Fault
  /\ job' = [job EXCEPT ![r][j].wrap = JobReturns(r, j), ![r][j].rc = "blocked"]
  /\ UNCHANGED <<sched, dog, queue, file, summary, manifest>>

StartMake(r, j) == job' = [job EXCEPT ![r][j].wrap = "make", ![r][j].make = TRUE]

\* run_job removes the job's root, with what an earlier run left there.
ClearJob(r, j) ==
  /\ job[r][j].wrap = "clear"
  /\ file' = [file EXCEPT ![j] = {}] /\ summary' = [summary EXCEPT ![j] = "none"]
  /\ StartMake(r, j)
  /\ UNCHANGED <<sched, dog, queue, manifest, faults>>

\* The removal fails, nobody asks, and the record, the summary or both stay.
ClearFails(r, j) ==
  /\ job[r][j].wrap = "clear" /\ Fault
  /\ \E f \in {{}, file[j]}, s \in {"none", summary[j]} :
       /\ f # {} \/ s # "none"
       /\ file' = [file EXCEPT ![j] = f] /\ summary' = [summary EXCEPT ![j] = s]
  /\ StartMake(r, j)
  /\ UNCHANGED <<sched, dog, queue, manifest>>

\* The build root of the connector is not valid: 77 without a make.
RefuseBuildRoot(r, j) ==
  /\ job[r][j].wrap = "clear" /\ Fault
  /\ file' = [file EXCEPT ![j] = {}] /\ summary' = [summary EXCEPT ![j] = "none"]
  /\ job' = [job EXCEPT ![r][j].wrap = "record", ![r][j].rc = "blocked"]
  /\ UNCHANGED <<sched, dog, queue, manifest>>

\* make ends, with a summary or without one; nothing says that it does.
MakeEnds(r, j) ==
  /\ job[r][j].make
  /\ \E rc \in {"zero", "error"} :
       job' = [job EXCEPT ![r][j].make = FALSE,
                          ![r][j].wrap = IF @ = "make" THEN "record" ELSE @,
                          ![r][j].rc = IF job[r][j].wrap = "make" THEN rc ELSE @]
  /\ \E s \in {summary[j]} \cup Outcomes : summary' = [summary EXCEPT ![j] = s]
  /\ UNCHANGED <<sched, dog, queue, file, manifest, faults>>

WriteJobJson(r, j) ==
  /\ job[r][j].wrap = "record"
  /\ file' = [file EXCEPT ![j] = {Record(r, j, job[r][j].rc)}]
  /\ job' = [job EXCEPT ![r][j].wrap = JobReturns(r, j), ![r][j].wrote = TRUE]
  /\ UNCHANGED <<sched, dog, queue, summary, manifest, faults>>

\* The file cannot be opened, or Python fails and leaves it empty; run_job returns the
\* code of make all the same.
WriteFails(r, j) ==
  /\ job[r][j].wrap = "record" /\ Fault
  /\ \E f \in {file[j], {Record(r, j, "blank")}} : file' = [file EXCEPT ![j] = f]
  /\ Wrapper(r, j, JobReturns(r, j))
  /\ UNCHANGED <<sched, dog, queue, summary, manifest>>

ReportCompletion(r, j) ==
  /\ job[r][j].wrap = "report"
  /\ queue' = [queue EXCEPT ![r] = Append(@, Complete(j))]
  /\ Wrapper(r, j, "exit")
  /\ UNCHANGED <<sched, dog, file, summary, manifest, faults>>

WrapperExits(r, j) ==
  /\ job[r][j].wrap = "exit"
  /\ Wrapper(r, j, "ended")
  /\ UNCHANGED <<sched, dog, queue, file, summary, manifest, faults>>

KillWrapper(r, j) ==
  /\ job[r][j].wrap \notin {"none", "ended"}
  /\ Fault
  /\ job' = [job EXCEPT ![r][j].wrap = "ended", ![r][j].rc = "error"]
  /\ UNCHANGED <<sched, dog, queue, file, summary, manifest>>

-----------------------------------------------------------------------------
Init ==
  /\ sched = [r \in Runs |-> [pc |-> "new", mode |-> "parallel", gen |-> 0, next |-> 1,
                active |-> {}, reap |-> 0, failed |-> FALSE, blocked |-> FALSE, code |-> -1]]
  /\ dog = [r \in Runs |-> [on |-> 0, fired |-> 0]]
  /\ queue = [r \in Runs |-> <<>>]
  /\ job = [r \in Runs |-> [j \in Jobs |->
              [wrap |-> "none", make |-> FALSE, rc |-> "error", wrote |-> FALSE]]]
  /\ file = [j \in Jobs |-> {}] /\ summary = [j \in Jobs |-> "none"]
  /\ manifest = {} /\ faults = 0

Scheduler(r) ==
  \/ Refused(r) \/ Acquire(r) \/ Spawn(r) \/ PlanRead(r) \/ WaitActiveJobs(r)
  \/ StartWatchdog(r) \/ ReadComplete(r) \/ ReadTimeout(r) \/ Reap(r) \/ Abort(r)
  \/ AppendJobs(r) \/ SkipReports(r) \/ Report(r)

WrapperStep(r, j) ==
  ClearJob(r, j) \/ WriteJobJson(r, j) \/ ReportCompletion(r, j) \/ WrapperExits(r, j)

WrapperFault(r, j) ==
  \/ RefuseJob(r, j) \/ RefuseBuildRoot(r, j) \/ ClearFails(r, j) \/ WriteFails(r, j)
  \/ KillWrapper(r, j)

Next == \E r \in Runs :
  \/ Scheduler(r) \/ Interrupt(r) \/ Kill(r) \/ WatchdogFires(r)
  \/ \E j \in Jobs : WrapperStep(r, j) \/ WrapperFault(r, j) \/ MakeEnds(r, j)

\* The scheduler and the wrappers go on, the sleep of the watchdog ends; make may hang.
Fairness == \A r \in Runs :
  /\ WF_vars(Scheduler(r)) /\ WF_vars(WatchdogFires(r))
  /\ \A j \in Jobs : WF_vars(WrapperStep(r, j))

Spec == Init /\ [][Next]_vars /\ Fairness

-----------------------------------------------------------------------------
(* Properties *)

TypeOK ==
  /\ sched \in [Runs -> [pc : {"new", "plan", "waitall", "wait", "read", "reap", "abort",
                               "append", "report", "done", "killed"},
                         mode : {"parallel", "serial"}, gen : 0..N, next : 1..(N + 1),
                         active : SUBSET Jobs, reap : 0..N, failed : BOOLEAN,
                         blocked : BOOLEAN, code : {-1, 0, 2, 77}]]
  /\ dog \in [Runs -> [on : 0..N, fired : 0..N]]
  /\ \A r \in Runs : \A i \in 1..Len(queue[r]) :
       queue[r][i] \in [kind : {"complete", "timeout"}, of : Jobs]
  /\ job \in [Runs -> [Jobs ->
       [wrap : {"none", "clear", "make", "record", "report", "exit", "ended"},
        make : BOOLEAN, rc : Codes, wrote : BOOLEAN]]]
  /\ \A j \in Jobs : \A rec \in file[j] :
       rec \in [run : Runs, job : {j}, rc : Codes \cup {"blank"}]
  /\ summary \in [Jobs -> Summaries]
  /\ manifest \subseteq [run : Runs, job : Jobs, rc : Codes \cup {"blank"}]
  /\ faults \in 0..MaxFaults

\* The wrappers and makes of two runs never work in the job roots at the same time, also
\* after a scheduler was killed (acquire_matrix_lock, FD 9).
NoOverlap == \A r, q \in Runs : r # q =>
  ~\E i, j \in Jobs : Working(r, i) /\ Working(q, j)

\* In parallel mode at most Cap jobs are running, counting the make of a wrapper that was
\* killed: its slot is never given away (run_planned_jobs).
CapRespected == \A r \in Runs :
  sched[r].mode = "parallel" => Cardinality({j \in Jobs : Working(r, j)}) <= Cap

\* A run gives up only when the watchdog of its present wait has reported (wait_one_parallel_job).
TimeoutIsCurrent == \A r \in Runs :
  sched[r].pc = "abort" => dog[r].fired = sched[r].gen

\* The scheduler keeps runs apart and jobs within the cap, and gives up for no
\* other reason than a timeout of its own.
SchedulerSound == TypeOK /\ NoOverlap /\ CapRespected /\ TimeoutIsCurrent

\* No job of the run is at work.
AllEnded(r) == \A j \in Jobs : job[r][j].wrap = "ended" /\ ~job[r][j].make

\* Every record that the run has written is in the manifest; it is no error, and the
\* summary beside it passes.
RecordsPass(r) == \A j \in Jobs : job[r][j].wrote =>
  summary[j] = "pass" /\ \E rc \in Codes \ {"error"} : Record(r, j, rc) \in manifest

\* A parallel run that exits 0 has waited for each of its jobs to the end, whatever was
\* killed.  Without reports all of them have returned 0; with reports every record that a
\* job wrote was counted and passed, whatever an earlier run left in the job roots.
ZeroMeansEnded == [][\A r \in Runs :
  sched[r].mode = "parallel" /\ sched[r].code # 0 /\ sched'[r].code = 0 =>
    /\ AllEnded(r)
    /\ SkipReports(r) => \A j \in Jobs : job[r][j].rc = "zero"
    /\ Report(r) => RecordsPass(r)]_vars

\* A parallel run ends although its jobs hang or their wrappers are killed (the watchdog).
RunEnds == \A r \in Runs :
  (sched[r].pc = "plan" /\ sched[r].mode = "parallel") ~> (sched[r].pc \in {"done", "killed"})

\* A parallel run that exits 0 has a passing record of its own for every planned job: what
\* a reader takes from the exit code, and more than the report asks (MatrixMissing.cfg).
ZeroMeansAll == [][\A r \in Runs :
  sched[r].mode = "parallel" /\ sched[r].code # 0 /\ sched'[r].code = 0
    => \A j \in Jobs : Record(r, j, "zero") \in manifest]_vars
=============================================================================
