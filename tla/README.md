# TLA+ models of the ModSecurity test framework

The framework runs connector test cases against real web servers and turns what
it observed into evidence: result files, audit records, cleanup receipts,
reports. Around that it provisions sources and builds, schedules a matrix of
jobs, and maintains its own version pins. Its verdicts are worth as much as the
claims they rest on: *this* server process answered, it was stopped, nothing of
it is left, the prefix that was served is the one that was built, every job of
the matrix has ended. Most of the repository is sequential code that
reads, compares and renders. The models are about the parts where the order of
events decides the truth of a claim: those that own processes, share a cache,
or go on from what an interrupted predecessor has left.

Below, paths are abbreviated:

| Name | File |
|---|---|
| *guard* | `src/connector_suite/adapters/apache/harness/apache_process_guard.py` |
| *script* | `src/connector_suite/adapters/apache/harness/run_apache_smoke.sh` |
| *broker*, *launcher* | `nginx_root_broker.py`, `nginx_exact_head_root_launcher.py` in `src/connector_suite/modsecurity_connector_ci/runtime/broker/` |
| *preparer* | `src/connector_suite/modsecurity_connector_ci/provisioning/components/prepare-runtime-components.py` |
| *scheduler* | `src/connector_suite/modsecurity_connector_ci/runtime/lifecycle/run-full-matrix-parallel.sh` |
| *matrix report* | `src/connector_suite/modsecurity_connector_ci/evidence/reports/generate-full-runtime-matrix.py` |
| *reconciler*, *maintenance* | `src/ci/tools/reconcile-common-version-review-issues.py`, `src/ci/tools/canonical_maintenance.py` |
| *session guard*, *lifecycle script* | `lighttpd_backend_close_linux_guard.py`, `run_lighttpd_stock_lifecycle.sh` in `src/connector_suite/adapters/lighttpd/harness/` |

## Inventory

| Part | State it keeps | Operations | Interacts with | What is hard | What makes it correct |
|---|---|---|---|---|---|
| Guard: launch-bound supervisor | supervisor and httpd processes, signal mask and parent-death signal, state file, PID output, control socket | `supervise`, `stop-supervisor`, `retire-supervisor-artifact` | started and stopped by the script, kernel signals, other runners in the directory | runner, supervisor and httpd may die at any step; overlapping sessions; removal by name | an ACK means a reaped httpd; files of a live session stay; httpd never outlives its supervisor; a runner's death ends both |
| Guard: ownership evidence | evidence file, pidfd | `record` with rollback, `terminate`, `signal`, `verify-stopped`, `verify-running`, `verify-pid` | reads `/proc`, called by the script | PID reuse, zombies, retries, a failure half way through publication | only the recorded process is signalled; exit statuses are true |
| Script, one case | shell variables, traps, helper processes, receipt, result | startup, launch, readiness, request, assertion, `cleanup`, `on_exit`, `on_signal` | guard commands, httpd, response-header backend, synchronized upstream, profile tool | a trap between any two commands; `cleanup` is entered twice; `set -e` | receipt and status 0 are justified; the script ends and so does its httpd |
| NGINX root broker | run root, manifest, `state.json`, evidence, NGINX's process group | `validate-manifest`, `config-test`, `start`, two verifications, `stop`, `project-evidence`, `cleanup-status` | the workflow, NGINX as root | every command is a process that can be killed; reruns use the same run id; staged files belong to another user | what is admitted has the declared bytes; a root is removed only after its NGINX |
| NGINX exact-head launcher and cells helper | account, subordinate ids, directories, sandbox process, handshake files | set up, run two modes, publish, drain, release | `useradd` and friends, the sandbox, NGINX | a command takes effect and then fails; the handshake of two processes; release after an error | released or reported; evidence only for what was observed |
| NGINX exact-head builder, dispatcher, collector | output files | validate, write once | each other, through files | none beyond exclusive creation | functional |
| Provisioning: Git sources | published checkout, marker, locks, root manifest | resolve, reuse, clone, publish, remove | peers on the same cache, a remote whose refs move | kill between any two steps, peers, stale records | a source reported present is at its commit, and whole as far as the code looks |
| Provisioning: shared build | build root, prefix, markers, manifest, locks | claim, discard, build, publish, fail | peers on the same cache | work outside the lock, kill, failure handler | a prefix that is handed on is whole |
| Full-matrix scheduler | kernel lock, wrappers, FIFO, watchdog, job records, manifest | acquire, spawn, wait, reap, abort, append, report | job wrappers and their make, a later run | a completion against a timeout; killed wrappers; jobs that outlive their scheduler | jobs of two runs do not overlap; status 0 only after every job; a run ends |
| Full-matrix job, resumption, receipt | per-job state, sealed receipt | run, resume, seal | scheduler, reports | missing jobs, an interrupted run | the receipt covers every job |
| Common-version review issues | remote issues | list, create, update, comment, close, reopen | GitHub API, maintainers | lost answers, repeated and interrupted runs | one issue per review; closed on evidence |
| Canonical maintenance | repository files, a Draft PR | plan, apply, roll back, publish | generators, the default branch | failure between two files; a branch that moves between jobs | all or nothing; the published tree is whole |
| Lighttpd session guard and lifecycle script | session leader and its record, members of the session | `exec-session`, `cleanup-session`, `terminate-unregistered`, `assert-session-absent`; start and `cleanup` of the script | `/proc`, the host and its children | a scan is not atomic; PID reuse; a signal during the leader's start | only the task is signalled; a clean status means an empty session |
| Trusted Lighttpd supervisor | process session, subreaper | start, scan, stop | lighttpd and its back ends | - | ends before it starts anything: `require_independent_runtime_no_crs_provenance` fails in every run at this commit |
| Local runtime smoke driver | child process groups | start, wait, retry, kill | other connectors | timeouts, retries | no child is left |
| NGINX and HAProxy scripts, Lighttpd backend-close script | as the Apache script and the lifecycle script | same | same | same | same |
| Profile tool, case runner, protocol client, baseline catalog, reports, contract API | files | load, assert, render, validate | scripts, CI | little: sequential, no state between calls | functional |
| Native observer, fault proxy | test instruments | observe, inject | connectors under test | timing of a connection | not this repository's claims |

`PROJECT.json` names the sources of every part, and lists the hazards found in
the modelled ones with the properties that would show them going wrong.

## Modules

| Module | What it is |
|---|---|
| `LaunchBoundSession` | abstract: what a runtime directory promises to the runners that share it |
| `ApacheSupervisor`, `ApacheSupervisorProofs` | `supervise`, `stop-supervisor`, `retire-supervisor-artifact`; its theorems, the refinement of `LaunchBoundSession` included, and those of `LighttpdSession` |
| `ApacheOwnership`, `ApacheOwnershipProofs` | `record`, `terminate`, `signal`, `verify-stopped`; its theorems, and those of `ApacheSmoke` |
| `ApacheSmoke` | the script for one case, over the results the guard commands can have; theorems in `ApacheOwnershipProofs` |
| `NginxBroker`, `NginxBrokerProofs` | one run root of the root broker through all commands of its workflow, and a rerun of it; its theorems |
| `NginxLauncher`, `NginxLauncherProofs` | the exact-head launcher, its cells helper and the sandbox between them; its theorems |
| `SourceCache`, `SourceCacheProofs` | one published Git checkout and the preparers that share it; its theorems, and those of `BuildCache` |
| `BuildCache` | the shared ModSecurity build and the preparers that share it; theorem in `SourceCacheProofs` |
| `MatrixScheduler`, `MatrixSchedulerProofs` | runs of the scheduler, their wrappers, watchdogs and manifest; its theorems |
| `ReviewIssues`, `ReviewIssuesProofs` | runs of the reconciler against issues that others change; its theorems |
| `MaintenanceApply`, `MaintenanceApplyProofs` | plan, candidate job and publisher around the transaction of the maintenance tool; its theorems |
| `LighttpdSession` | the task session: leader, members, session guard, lifecycle script; theorems in `ApacheSupervisorProofs` |
| `MC*` | definitions that give the constants values, with the reason for the bounds; where plain values do, the run takes the component's module itself and its `.cfg` has the reason |

### ApacheSupervisor

A session is one `supervise` command. Per session the model has the runner, the
supervisor's program counter `pc`, its `expected_parent` (`eparent`), its
parent-death signal, the blocked-signal state, the control client it serves, the
artifacts whose inode it knows (`owned`), the httpd child and the strongest
signal sent to it, and the runner's own `stop-supervisor` (`cpc`, `ctarget`) and
`retire-supervisor-artifact` (`rpc`, `rpid`) commands. The directory is `file`:
which session's inode is at the two names. Sessions share nothing else.

The steps follow the code: `ReadParent`, `ArmKill`, `CheckParent` (lines
308-336), `Fork` to `Recheck` (346-388), `Bind`, `PublishState`,
`WritePidOutput`, `RestoreMask` (398-434), the loop and the command handler
(465-509), the bounded stop `SendTerm`, `TermTimeout`, `KillTimeout`
(86-122), and the `finally` block `CloseListener` to `RemovePid` (448-462). The
child's two `preexec` steps are `ChildArm` and `ChildCheck`. Every removal is two
steps, compare and unlink, as in `_remove_exact_artifact`, and each of them may
fail (`RemovalFails`, which notes the artifact in the history variable `kept`): a
`GuardError` is swallowed by the `finally` block (451-462) and the status stays as
it is, an `OSError` escapes from it and is status 1 (`CheckState` to `RemovePid`);
in the rollback of a failed publication the name stays without an owner (`Create`),
and the retire command ends (`RetireFails`).

The constant `Faults` says which calls may fail (fork, pidfd, bind, either file,
removals)
and whether signals and SIGKILL come from outside. httpd may exit at any time or
never; it may ignore SIGTERM.

### ApacheOwnership

Processes that hold the PID are numbered by birth; the number plays the part of
the start time in `/proc`. `record` is a sequence of inspections (`CaptureStat`,
`CaptureFds`, retried up to `Attempts` times), publication (`CreateTemp`,
`WriteTemp`, `LinkEvidence`, `UnlinkTemp`), and, after a failure, rollback,
termination of exactly the captured process and the quiescence test. A
termination is `OpenPidfd`, `VerifyIdentity`, `VerifyListener`, then the signals
and polls; two actors run it: `record` itself and a later command. Meanwhile
httpd exits, is reaped, its PID goes to another process, Apache or not, and the
port is taken by others.

### ApacheSmoke

One shell command is one step; `SignalShell` may come before any of them and runs
the trap that is installed at that point (all, none, or HUP alone after `trap -
EXIT INT TERM`). `cleanup` is a sequence of steps with a continuation `cont`: it
is reached from `on_exit`, from `on_signal`, from the final cleanup of a selected
profile case, and from the retry after a bind conflict. A trap that arrives
inside the last two starts `cleanup` from the beginning. A supervisor runs beside
the shell: `launched` (its interpreter starts), `starting` (it has read
`getppid()`; `bound` says whether its runner still lived), and so on to `dead`.
Guard commands take one step and may have any result the other two modules allow
in that state. The helper is the response-header backend, or the synchronized
upstream, that some cases need.

### NginxBroker

A broker command keeps nothing but files, so the state is the files (`root` with
the attempt that made it, `dest`, `pidfile`, `state`, `evidence`), NGINX (`alive`,
`zombie`, `phase`) and `pc`, the step of the workflow or of the command it waits
for. Admission copies one file per step: `HashSource` and `CopyIntoRoot` are
separate because the runner's user may rewrite a staged file in between
(`Rewrite`); `Rollback` removes the root or reports that it could not. `start` is
`StartSpawn`, `StartPoll`, `StartWriteState`, with `StartTerminate` after an
error; `stop` is `StopBegin`, `StopKill`, `StopWait`, `StopKill9`, `StopPid`,
`StopState`. The workflow's final step always runs `stop` and `cleanup-status`;
`Report` gives its verdict. `Kill` ends a command between any two of its steps,
`Rerun` starts the workflow again with the same run id. NGINX boots, forks and
dies by itself (`NginxBoot`, `NginxFork`, `NginxExit`), and its dead master is
reaped later (`Reap`): until then `os.killpg(pgid, 0)` succeeds.

### NginxLauncher

`host` is what exists on the machine (account, subordinate ids, directories,
records), `known` what the launcher has noted in its state and so can release,
`errors` what its cleanup has reported. An account command (`Ran`) succeeds,
fails, or takes effect and then fails by a timeout. `Raise` goes to the `finally`
block: `Drain`, `CleanupIdentity` with `DropStep`, `DropCheck`, `DeleteUser`,
`DeleteGroup`, then `RemoveScratch`, `Finish`. The helper is a second process
(`hpc`, `hmode`), with its NGINX master; the two talk through `ready`,
`released` and `completed`. The helper, the master and the sandbox may die at any
time; `ready.json` can be seen half written.

### SourceCache

`tree` is the checkout at the published path with its commit, whole or torn by a
removal: where `git status` shows it, or inside a submodule, where it does not when
the submodule has lost its `.git` file. `marker` is its registry entry, `saved` the
record in the root manifest. A preparer
reads the previous record and takes the lock of its ref. The reuse is three steps,
between which the remote may move: the answer of `ls-remote` (`LsRemote`), the
checkout in place (`CheckLocal`, with `Reusable` for `git_checkout_is_reusable`),
its submodules (`Reuse` or `SubmoduleLost`; a `git submodule status` that fails
prints nothing, and nothing counts as clean). Otherwise it clones into a
staging directory of its own, looks again at what is in place, this time without the
submodules (`PresentAlready`), removes it if it may (`RemoveTree`,
`RemoveRest`, `RemoveMarker`, in that order), and publishes: `DestinationFree`,
`TakeGuard`, `MarkFinal`, `Rename`, `ReleaseGuard`, where the marker is written
before the rename. The remote moves its refs; git commands fail; `Kill` ends a
preparer at any step: the kernel frees its build lock, the guard directory stays.
`had` is history: the commits the ref has had since the lock was taken.

### BuildCache

Two entries, `build` and `prefix`, each with a tree, a marker and a publication
guard, and the manifest in the build root that says the pair is complete.
`CheckRoot` to `OpenMarker` come before the lock, as in
`prepare_modsecurity_build_root`; `Ready` and `CacheHit` are the reuse; `Discard`
chooses what an incomplete entry needs removed; `Build`, then one publication per
entry and `FinalManifest`. `Raise` and `Report` are the failure handler, whose
manifest creates the build root if it is gone. Publication and removal are the
same source lines as in `SourceCache`; here they act on two entries of one key.

### MatrixScheduler

Per run: the scheduler (`sched`: step, mode, generation of its wait, jobs it waits
for), its watchdog (`dog`), the FIFO (`queue`), the wrappers with their make
(`job`); shared by the runs: the `job.json` files, the summaries and
the manifest. The lock is not a variable: it is held while the scheduler, a wrapper
or a make lives (`Holds`). Servers do not keep it: the smoke scripts of Apache and
NGINX open their own lock at FD 9, and the process guard closes what it inherited.
Each wait starts a watchdog of a new generation, so that a timeout can be read
during a later wait. Killing a wrapper leaves its make; killing a scheduler leaves
its wrappers. A job can be refused (`RefuseJob`, `RefuseBuildRoot`), its root can
keep an older record and summary (`ClearFails`), and its record can stay unwritten
or empty (`WriteFails`), all of which `run_job` passes over, being the condition of
an `if`. The exit code follows the matrix report: a record is judged by its return
code and by the summary at its path (`RunFails`, `RunBlocked`); a planned job
without a record, or with an empty one, is `NOT_RUN` and counts for nothing; return
code 77 beside a summary without blocked cases counts for nothing (`MatrixCode`).

### ReviewIssues

A run draws a plan (`Start`), lists the managed issues (`ListIssues`), and works
off the keys with one request per step: `CreateReview`, `Reopen`, `UpdateIssue`
with `CommentUpdate`, `NoticeClose` with `CloseIssue`, `Skip`. A request fails
before or after its effect (`RequestFails`), which ends the run. `seen` is the
list as read, `issue` what GitHub has: a maintainer (`Human`) closes or reopens in
between. A body is its text and the run that rendered it, since that is what the
comparison of two bodies tells apart.

### MaintenanceApply

A file's content is the set of updated pins it reflects, so that a view is current
when it shows what `common.sh` has. `Resolve` is the plan; a job checks out,
begins the transaction with a snapshot, writes `common.sh`, runs the generators
(`SyncPath`, one file a step, in the order of the code), compares (`Synced`,
`Diff`), and rolls back on failure (`Rollback`, `Restore`, `Restored`). The
candidate job ends with `Validate`, the publisher with `Inspect` and `Create`.
Others push to the default branch, merge the Draft PR or leave its branch behind.

### LighttpdSession

`proc` is the process at each PID: alive, zombie or none, of the task or not, in
the session or not, with a generation number for its start time. `stage` is the
leader's way from fork to exec: `CheckParent`, `BindDeathSignal`, `StartSession`
(with the second look at the parent), `CreateRecord`, `WriteRecord`, `ExecHost`.
The script notes PID, session and start time in three assignments; its cleanup
may begin before, between or after them (`EnterCleanup`) and calls
`cleanup-session` if there is a record, `terminate-unregistered` if there is only
a start time, then `assert-session-absent` if the session is known. The guard `g`
never looks at `proc` as a whole: a scan lists the PIDs (`ListProc`) and reads
their entries in a later step (`ReadEntries`, any of which may be unreadable); a
member is then opened (`OpenPidfd`), compared twice and looked up again
(`FirstSnapshot`, `SecondSnapshot`, `MemberIsCurrent`) before it is signalled
(`SendSignal`). `fd` is the generation a pidfd is bound to. After TERM the guard
wants an uninterrupted row of `TermConfirmations` empty scans, after KILL one. A
deadline is `Tick`. `base` and `scans` in the script's record are history: forks
before cleanup, and the empty scans its answer rests on.

## Runs

All runs set `CHECK_DEADLOCK FALSE`: sessions, commands, jobs and scripts end, and
a state in which everybody has ended is a proper one. The invariants named
`...Sound`, `EndIsClean` and `StatusJustified` are conjunctions of named parts; the
type invariant is a part of one of them, except in `ApacheSupervisor` and
`ApacheOwnership`, where it is proved.

| Run | Bounds | What it checks and shows |
|---|---|---|
| `supervisor_one` | one session, all faults | `NoOrphanHttpd`; the death of the runner, a signal and a stop request are always acted upon (`RunnerDeathPropagates`, `SignalHonoured`, `StopAnswered`). One session is enough for what does not involve a second one, and leaves room for liveness with every fault |
| `supervisor_two` | two sessions, symmetric, PID output and removals may fail, SIGKILL | `AckSound` (an ACK means a reaped httpd, and only the session's own runner gets one), `LiveStateKept`, `CleanExit` (status 0 means a reaped httpd; what a session that ended by itself leaves at a name is what it failed to remove), and `ImplementsPromise`: the refinement. Two sessions are what every race over the directory or the socket needs: a publisher and a loser, or an owner and a stranger. The proofs cover more sessions and the other faults |
| `ownership` | 3 processes at the PID, 2 inspections, all faults | `SignalsOnlyRecorded`, `CleanedMeansQuiet`, `RecordedMeansPublished`, `StopIsTruthful`, `ForeignEvidenceKept`, `RecordEnds`. Three births: the recorded one, one that takes the PID before a pidfd is opened, one after. Two attempts: a first that fails and a retry |
| `smoke` | with and without profile, 2 signals, supervisor may be killed | `ReceiptSound`, `StatusJustified`, `OldEvidenceKept`, `ScriptEnds`, `HttpdEnds`. Two signals: the first interrupts a main-line cleanup, the second the cleanup it started |
| `broker` | 2 artifacts, 2 attempts, 1 killed command per attempt, any but `start` | `AdmissionSound` (declared bytes, this attempt's root, nothing left by a failed admission), `EndIsClean` (a recorded stop and a reported pass are true), `RemovedOnlyWhenStopped`, `Terminates`. Two artifacts: one copied before, one after the one that is rewritten; two attempts: what a killed one left meets the next. A killed `start` is a deviation, below |
| `launcher` | 2 failing account commands, runner's account known | `ReleaseSound` (status 0 means released with complete evidence, a mapping that survives is reported), `EvidenceSound` (the handshake), `ReleasedAfterRuntime`, `LauncherEnds`. Two failures: a set-up step and its rollback |
| `sources` | 2 preparers of one ref with 2 runs each, 2 commits, 2 moves, 1 failure, 1 kill | `CacheSound` (what is reported present has its marker and commit and is torn only inside a submodule, after a failed command or a kill, where another preparer's clone finds it in place; marker and tree agree, no checkout without marker, no guard without owner), `PresentIsRecent` (a reported commit was at the ref while the lock was held), `EveryRunEnds`. The ref moves there and back, so that an old record can become right again |
| `builds` | 2 preparers with 2 runs each, 1 failure, 1 kill, either marker may be lost before | `BuildSound` (a prefix that is handed on is whole), `EveryRunEnds`. A failed or killed run, its restart and a peer overlap |
| `matrix` | 2 runs, 2 jobs, 1 slot, 1 process killed or command failed | `SchedulerSound` (wrappers and makes of two runs do not overlap, the cap holds, a run gives up only for its own timeout), `ZeroMeansEnded` (status 0 of a parallel run: every job has ended; without reports all returned 0, with reports every record they wrote is counted and beside a passing summary), `RunEnds`. Summaries pass or are missing; failing and blocked ones were checked with one run, two slots and two faults, and are covered by the proof. More jobs than slots: a slot is reused and a late timeout meets the next wait |
| `issues` | 2 keys of one component, 2 texts, 3 runs, 1 failing request, 1 maintainer | `IssuesSound` (no duplicates; a run that ends well leaves what its plan says), `ClosedOnEvidence`. Three runs: create, end, come back |
| `maintenance` | 2 pins, 6 files, 2 runs, 1 push, 1 fault | `ApplySound` (applied in full or restored), `PublishedIsWhole`. The files are one of each kind: on both allowlists, on the tool's alone, on neither, computed from another view |
| `lighttpd` | 3 PIDs, 2 forks, 1 unrelated process, 2 confirming scans | `SessionSound`: only processes of the task are signalled; a clean status is true unless the session has forked across every empty scan it rests on; wherever the end of the script meets the start of the leader, no host is left that nobody stops. Two forks reach the bound exactly after KILL |

Each property of a passing run has a mutant in `PROJECT.json`: a variant of one
definition, kept in the module under the comment "Deliberately wrong", that
breaks it (an ACK before the reap, a mask that is not restored, a marker that is
removed before its tree, a single empty scan that is believed, a result that the next
one overwrites).

`LighttpdEnds.cfg` checks `ScriptEnds` of `LighttpdSession` under `FairSpec` with
one fork; it passes, and is kept beside the run because the two specifications
differ in fairness only.

## Deviations

Configurations that are kept beside the runs and end in a violation. Each (the one
of the matrix aside) states what a comment, a docstring, a document or a test says,
and TLC shows the
behaviour of the code that differs. The passing runs either leave the trigger out
(a constant) or state the weaker property that holds.

| Configuration, property | What the code does | What is said |
|---|---|---|
| `Orphan.cfg`, `RunnerlessSupervisorEnds` | A runner that is gone before its supervisor reads `getppid()` (guard 317) leaves a supervisor bound to process 1: it starts httpd and serves for ever. It takes a signal just after the launch, or a slow start of the interpreter. `HttpdEnds` therefore speaks of `bound` supervisors | "Ask Linux to terminate the supervisor when its runner disappears." (guard 63) |
| `ForeignPeer.cfg`, `ForeignPeerNeverStops` | A client of another runner that has exited by the time its parent is looked up (guard 499) makes the lookup raise, and the session ends | `test_same_uid_foreign_lineage_cannot_stop_live_supervisor`, which keeps the peer alive |
| `FailedProof.cfg`, `FailedProofNoReceipt` | Between the failure of the final cleanup (script 2916) and the reset of the flag that permits publication (2920), a signal starts a cleanup that may succeed and publish the receipt | "A failed final proof must never publish a receipt." (script 2917) |
| `HelperReceipt.cfg`, `ReceiptCoversHelper` | A helper's PID variable is cleared (script 604) before the helper is killed; a signal in between makes the next cleanup skip it | the receipt's `"tracked_helper_processes_remaining": 0` |
| `BrokerStartKilled.cfg`, `RemovedOnlyWhenStopped` | A `start` that ends between `Popen` and `write_state` (broker 4508) leaves a master that no file names; `stop` writes `stopped: true`, and `cleanup-status` removes the root under a live NGINX | "Remove exactly one stopped broker run root with no path traversal." (broker 3131) |
| `BrokerProjection.cfg`, `StoppedRunIsProjected` | `stop` writes a state without `profile_verified` (broker 4919), which `project-evidence`, run after it by the workflow, demands (4735): the projection of a stopped run never succeeds | "stopped; mandatory descriptor-relative cleanup pending" (broker 4753) |
| `LauncherIdentity.cfg`, `IdentityReleased` | When `pwd.getpwuid(runner_uid)` raises after the account was made (launcher 2540), there is no mapping yet, `cleanup_identity` fails (2293), and the account stays | "Stop runtime first, then release identities, mappings, cells, evidence." (launcher 2793) |
| `SourcesTwoRefs.cfg`, `NeverUnmanaged` | The lock is named after ref and URL (preparer 1963-1965), the path after the component (10672-10681). When a peer's entry has appeared, the error path of `atomic_publish_dir` removes that entry's marker (1622); later runs may not remove it and are blocked | "Publish a fully prepared cache entry without replacing a valid peer entry." (preparer 1584) |
| `SourcesTornSubmodule.cfg`, `PresentIsComplete` | A removal that is killed inside a submodule leaves a checkout that `git_checkout_is_reusable` accepts (preparer 1812-1846); the next preparer's `publish_fresh_git_checkout` does not look at the submodules (2207) and reports it as present, its own whole clone is thrown away | "Return current provenance for a clean, complete published checkout." (preparer 1858), of the other reuse path, which looks |
| `SourcesKilledRename.cfg`, `AlwaysRecovers` | A preparer killed between `mkdir` and `rmdir` of the publish lock (preparer 1602) leaves it, and every later publication ends with `cache_publish_lock_busy` | "Missing, dirty, stale, or incomplete records deliberately fall through to the normal fresh-clone recovery path." (preparer 1865-1866) |
| `BuildsClaimRace.cfg`, `ValidEntryStays` | `mark_managed_cache_entry` reads a marker and then writes one (preparer 1504-1542), before the lock is taken (5399): a peer's complete marker is overwritten by an open one, and the next preparer discards the published prefix | as above (preparer 1584) |
| `BuildsError.cfg`, `InterruptedIsRemovable` | The failure manifest (preparer 5700) creates the build root again without a marker; nobody may remove it, and later runs are blocked | "callers must remove that entry and build a newly marked staging entry" (preparer 1520-1521) |
| `IssuesRepeat.cfg`, `RepeatIsQuiet` | `_same_content` compares with a body rendered with the default run (reconciler 905), `main` writes the run id of the workflow: a repeated plan writes again | `test_idempotence_update_and_close_lifecycle` expects "noop" and uses the default run for both |
| `MaintenanceRollback.cfg`, `RestoredOnFailure` | An update of the NGINX pin makes a generator rewrite a file outside the allowlist; `_rollback_allowed_views` raises for the same file before it restores any (maintenance 2583) | "restores them with its existing transaction rollback on failure." (`src/docs/security/ci-security-tooling.md:293`) |
| `MaintenanceDrift.cfg`, `DriftFailsClosed` | The publisher compares the digest of `common.sh` alone (maintenance 2789) | "A trusted-default-branch drift during publisher revalidation also fails closed." (`src/docs/github-actions-workflow-security.md:262-263`) |
| `MatrixMissing.cfg`, `ZeroMeansAll` | A job that was refused, whose record was not written, or that returned 77 beside a summary without blocked cases, counts for nothing in the matrix report (109-118, 202-204, 246-254): the run exits 0 (scheduler 1115-1124) | no document; the exit code of a matrix reads as one for all of its jobs, and "failed" of any job is a 2 under `FULL_MATRIX_SKIP_REPORTS` (scheduler 1020-1049) |
| `LighttpdForkChain.cfg`, `NoMemberLeft` | A member that forks and exits between listing and reading hides its child from a scan; after KILL one empty scan of the cleanup and one of `assert-session-absent` decide | "Repeat bounded pidfd KILL snapshots so forked late members are contained" (session guard 1497) |
| `LighttpdReusedSession.cfg`, `OnlyOwnSignalled` | When the leader's PID has gone to an unrelated session leader, a child of that leader has the recorded session number, and is signalled as a member | "Continue with independently pidfd-verified members of the recorded task session." (session guard 1541-1543) |
| `LighttpdProbe.cfg`, `LeaderRecognised` | `cleanup_process` passes `--leader-exe "$HOST_BINARY"` (lifecycle script 162) for the V10 probe too, whose leader is Python: the cleanup of a live probe excludes it, fails, and the parent-death signal alone ends it | lifecycle script 157-167 and 187-193 call it to stop the probe |

An observation beside these: `check_ports_free` ends with `return 0` (scheduler 798)
and is the condition of an `if`, so that the status of its probe is dropped and
"port cleanup check failed" (992) is never reported (`CheckPortsFree`).

## Fairness

`ApacheSupervisor`: weak fairness of every supervisor's steps and of the
kernel's own (delivering SIGKILL, running the forked child up to exec, process 1
reaping). A live process is scheduled, and all waits of the supervisor are
bounded by its timeouts: 0.25 s for `accept`, 2 s after SIGTERM, 2 s after
SIGKILL and 1 s for the reap.
Nobody is obliged to signal, to exit, to connect or to die.
`ApacheOwnership`: weak fairness of `record` and its termination. The later
command is not obliged to be issued.
`ApacheSmoke`: weak fairness of the script, the supervisor and process 1. Guard
commands have bounded waits; the model has no fairness for httpd.
`NginxBroker`: weak fairness of the workflow with its commands, whose waits all
have deadlines, and of the reaping of dead processes by their parent or by
process 1. None for NGINX: it need not boot, fork or die.
`NginxLauncher`: weak fairness of the launcher alone; `wait_mode`, the request,
the wait for the sandbox and the drain have deadlines.
`SourceCache`, `BuildCache`: weak fairness of each preparer; the wait for a lock
ends after 900 s, and a dead holder's lock is free. `run` (preparer 384) gives git no
timeout: that its commands return is an assumption.
`MatrixScheduler`: weak fairness of scheduler, watchdog and wrappers; make may
hang for ever. The watchdog is not killed, and the commands that write the reports
are assumed to return.
`LighttpdSession`, `FairSpec` only: weak fairness of leader, guard and script, and
strong fairness of the clock, whose step is enabled only where the guard looks at
it while time passes in between too.
`ReviewIssues` and `MaintenanceApply` have safety properties only, and no fairness.

## Proofs

`ApacheSupervisorProofs`, from `SupervisorAssumption` alone (the two special
values are not sessions and differ; `Sessions` may be infinite, `Faults`
any of the known kinds):

* `TypeCorrect`; `AckTheorem`, `LineageTheorem` and both together,
  `AckSoundTheorem`; `LiveStateTheorem`, `NoOrphanTheorem`, `CleanExitTheorem`:
  each safety invariant that the runs check;
* `Refinement`: `Spec => ImplementsPromise`.

The inductive invariant is `IInv`. None of the properties is inductive: that a
state file stays in place depends on which removal steps may be under way and
what their comparison established, that an ACK means a reaped child depends on
which program counters imply a reaped child, that no httpd is orphaned depends on
the child not running before its own `getppid()` test. `IInv` says what the
program counters of clients (`ClientsInv`), of the serving supervisor
(`ServingInv`), of the child (`ChildInv`) and of every remover of a file
(`FilesInv`) have established, and who the recorded parent is (`LineageInv`).
`FilesInv` also says which file a session may leave after a removal has failed.
The refinement needs one more invariant, `PhaseInv`: a session is published only
after its child got past exec, and withdrawn only with a child that is gone or
doomed. The refinement follows
from both step by step: each action is one step of `LaunchBoundSession` or
leaves its three variables alone.

`ApacheOwnershipProofs`, from `OwnershipAssumption` (positive bounds, an inode
number for strangers outside them):

* `TypeCorrect`, `SignalTheorem`, `CleanedTheorem`, `RecordedTheorem`,
  `StopTheorem`, and the action property `ForeignTheorem`.

The invariant `OInv` is the conjunction of `TypeOK`, `RetryInv` (attempts and
errors), `BirthInv` (nothing known is younger than the present holder of the
PID), `PidfdInv` (what a verified descriptor is bound to), `ControlInv` (what each
program counter has established) and `FilesInv` (which files exist where). The
proofs hold for any number of PID reuses and attempts.

`NginxBrokerProofs`, from `BrokerConstants` (bounds are numbers, only commands are
killed; any set of artifacts):

* `AdmissionTheorem`, without further assumption;
* `EndTheorem` and `RemovalTheorem` for `"start" \notin Killable`, which
  `BrokerStartKilled.cfg` shows to be needed.

`BInv` joins what each step of the copy loop has established for the files
(`AdmissionInv`), which steps can meet a process of NGINX (`ProcessInv`) and what
the results of earlier commands still say about the root (`VerdictInv`). `CInv`
holds only while `start` is not killed: a live master is the child of the
running `start`, or the state file names it, and from the removal on there is none.

`NginxLauncherProofs`, from `LauncherConstants` (any number of faults, the runner's
account known or not): `ReleaseTheorem`, `HandshakeTheorem` and the action property
`ReleaseOrderTheorem`. `LInv` says at which steps a sandbox may run (`RuntimeInv`),
that a mode is complete only if its answer was observed (`HandshakeInv`), that
nothing is delegated to an account that the launcher has not noted (`KnownInv`), and
what each step of the cleanup has removed or else reported (`CleanupInv`).
`IdentityReleased`, the deviation above, is no consequence of it: `ReleaseSound`
promises a report only for mappings.

`SourceCacheProofs`, from `SourceConstants` (any number of preparers, refs and
commits, every step can be killed):

* `RecentTheorem`, without further assumption: `PresentIsRecent`, by `HadInv`, which
  carries the commit from the answer of `ls-remote`, or from the clone, to the report;
* `CacheTheorem` for preparers that ask for one ref (`SameRef`), which
  `SourcesTwoRefs.cfg` shows to be needed: the lock is one of the ref;
* `MarkerTheorem`, without `SameRef`: two of the parts, `MarkerTellsCommit` and
  `GuardHasOwner`. They rest on the guard directory, which excludes preparers of
  different refs too, from the writing of the marker to the rename (`GuardInv`).

`SInv` adds that a preparer inside holds the lock (`LockInv`), so at most one is,
and what the step of that one says about tree and marker (`PlaceInv`), and that a tree
is torn only by a removal under way, a kill or a failure (`TornInv`). A killed
preparer leaves whatever its step had made; that this is always something that the
next one may remove is the part `NeverUnmanaged`, and inductive only with `PlaceInv`.

`MatrixSchedulerProofs`, from `SchedulerConstants` (any number of jobs, slots and
faults, any set of runs): `SchedulerTheorem` and the action property
`ExitCodeTheorem`. `MInv` has the kernel lock as a consequence of who lives
(`LockInv`) and, per run, follows each job from the spawn through the FIFO to the
reap: who is waited for (`JobInv`, `ReapInv`), that a completion is in the FIFO once
and of a job that is waited for (`FifoInv`), that waits and reaped jobs are equally
many (`WaitInv`), which bounds the generation, that slots are free where a job is
spawned (`SlotInv`), and that the record which a job has written is the one at its
path until the manifest takes it (`OwnRecord`, `RecordInv`): nobody but the run that
holds the lock touches the job roots. The counting steps rest on the library's theorems on cardinality.

`ReviewIssuesProofs`, from `IssueConstants` (there is a text; a component and a kind
for each key) and `NoneIsNew`: `IssuesTheorem` and the action property
`EvidenceTheorem`. A run works on the list it took at its start. The invariant says
how long that list is good for: whether a key has an issue is as listed until the
run has dealt with it (`ListInv`), which excludes a second one; and while no
maintainer has interfered the issue is as listed before, and as planned afterwards
(`UndisturbedInv`).

`MaintenanceApplyProofs`, from `MaintenanceConstants` (`common.sh` is on the
allowlist and not generated; any order, generators and dependencies of the views):
`ApplyTheorem` and `PublishTheorem`. `TreeInv` is what the steps of the transaction
have done to the worktree, the snapshot included. `PublishedIsWhole` relates two
jobs: the candidate's files were inside the published list, and the publisher makes
its files anew. `CandidateInv` and `PublishInv` therefore carry a derivation, the
sequence of worktrees from the checkout to the last view (`Derived`), from the job
that was validated to the one that publishes: as long as the default branch is at
the same commit (`ClockInv`), the second job follows the same sequence, and what is
outside the published list is as in the checkout.

Three more components are proved about through a named instance: the proof module
of a related component declares their constants and variables, and their assumption
on the constants is the hypothesis of each theorem.

`ApacheOwnershipProofs`, `Smoke == INSTANCE ApacheSmoke`, from `SmokeAssumption` (any
number of signals, the supervisor killed or not): `ReceiptTheorem`, `StatusTheorem`
and the action property `OldEvidenceTheorem`. `HInv` has to follow `cleanup` through
every place from which it is called, and again when a signal interrupts it: which
continuation and traps fit the command (`ShellInv`), what is left of an earlier run
(`OldEvidenceInv`), that only the cleanup of a recorded httpd may publish (`FlagsInv`,
`ResultInv`), which files and processes the session has (`SessionInv`, `HelperInv`),
and what a cleanup without a failure has established so far (`ProvenInv`).

`SourceCacheProofs`, `Shared == INSTANCE BuildCache`, from `SourceConstants`, which
names the same preparers: `BuildTheorem`. `BInv` says that the lock excludes
(`LockHeld`) although the root is checked, cleared and claimed without it, that a
manifest has a build root (`ManifestHasRoot`), and that a half removed prefix is never
spoken for by both its marker and a complete manifest (`TornUnspoken`): a killed
removal leaves one of the two missing, whichever marker was lost before.

`ApacheSupervisorProofs`, `Task == INSTANCE LighttpdSession`, from `SessionAssumption`
(any finite set of PIDs, any number of forks, unrelated processes and rescans):

* `SessionTheorem` for `"child" \notin ForeignKinds`, which
  `LighttpdReusedSession.cfg` shows to be needed: an unrelated process may take any
  PID, the leader's included, and lead a session, but has no child in it;
* `RecognisedTheorem`, an action property that no run lists, for
  `SessionExe = "host"` in addition, which `LighttpdProbe.cfg` shows to be needed.

`SessionInv` joins two parts. `WorldInv` is about the processes: whose the occupant of
a PID is (`OwnInv`), and how far the leader's program has come (`LeaderInv`). `StepInv`
is about the guard and the script. Its core are `FdInv`, that a verified pidfd stands
for a process of the task or for one that has gone, which survives reuse because a
PID's next occupant has a later start time (`Ages`); and `CleanInv`, that every empty
scan is worth a fork: a process of the task that a scan has missed was forked while the
scan was under way, and a process of the task comes only from another one
(`Dwindles`), so that a clean status with a survivor costs at least as many forks as
there were empty scans. The proof found one fault of the model: `Exe`, the executable
that `/proc` shows, was a `CASE` with guards that overlap, whose value TLA+ leaves
open; it is now decided in the order in which TLC read it.

Every inductive invariant was checked by TLC on the instance of its run as well.

Only model-checked are the liveness properties (`RunnerDeathPropagates`,
`SignalHonoured`, `StopAnswered`, `RecordEnds`, `ScriptEnds`, `HttpdEnds`,
`Terminates`, `LauncherEnds`, `EveryRunEnds`, `RunEnds`): they need fairness and
`ENABLED`, which the prover does not treat. Every invariant and every action property
of the runs is stated by a theorem.

## Abstractions and limits

* Path validation, descriptor pinning and permissions succeed or fail as a
  whole. Every file of the guard is opened through a pinned directory, so names
  do not change their meaning.
* PIDs of supervisors and httpd children are not reused in `ApacheSupervisor`
  (their start times are compared in the code); PID reuse is the subject of
  `ApacheOwnership` and `LighttpdSession`.
* Control clients have the uid of the supervisor; another uid is refused before
  anything is read.
* In `ApacheSmoke` the guard commands are single steps, `stop-supervisor` either
  succeeds with the end of the session or fails, external commands (curl, the
  case CLI) return, and a helper dies on the signal that is sent to it. The loop
  over all cases, rendering of configurations and the assertions of individual
  cases are not modelled.
  The synchronized exchange (script 908-1153) is reduced to the steps that start, wait
  for and stop its upstream; its background client is part of the request.
* `NginxBroker`: a `write_state` that fails at the end of `start` (broker 4508), outside
  the `try`, has the effect of a `start` killed there (`BrokerStartKilled.cfg`) and is
  left out of the run with it. Validation of candidates and configurations succeeds or fails as
  a whole; the copies of the CRS bundle are artifacts like the others.
* `NginxLauncher`: the cells of a mode are one observation; admission of the
  artifacts is one step.
* `SourceCache`, `BuildCache`: one source, one cache key. A tree is whole or torn;
  the content of a build is not looked at. The builds of the HTTP servers follow
  the same pattern and share the functions for locks, markers and publication. A
  removal torn in nothing but `.git/hooks` or `.git/logs` shows nowhere and harms
  nobody; it is a whole tree here.
* `MatrixScheduler`: in serial mode (`wait_active_jobs`) a scheduler waits for its
  jobs without a watchdog, so `RunEnds` and `ZeroMeansEnded` speak of parallel mode.
  make and its recipe are one process; a recipe that outlives a killed make is not
  modelled. Servers left by an earlier run are not modelled either: they do not hold
  the lock, so the next run may start beside them (one left by HAProxy may keep FD 9,
  which is why `Refused` does not need a live job). The port plan is what
  `write_matrix_port_plan` wrote: its rows are valid, and `return 2` for others
  (914-922) is left out. Spawn and registration of a job are one step. A run log that
  cannot be opened ends a wrapper as `KillWrapper` does.
* `ReviewIssues`: the pages of a list are read in one step, all listed issues carry
  the managed label, and a maintainer closes and reopens but does not edit.
* `MaintenanceApply`: the lookup of new versions is reduced to which pins it
  finds, and the six generators to the files they write and what these show. All files
  are tracked and exist: `git diff --name-only` does not show untracked ones, and the
  snapshot skips missing ones (2543-2547).
* `LighttpdSession`: all entries of one scan are read in one step, and the leader
  fallback is one step. The run leaves out unrelated processes with the recorded
  session number (a deviation above). `signal-session` with the restart of the
  host, the assertions about listeners, sockets and logs, and the probes are left
  out. The script keeps one `cleanup_status` for all three sessions, and
  `cleanup_process` resets it (160): a failed cleanup of the V10 probe or of the
  configuration session is forgotten by the next call; the modelled server session is
  the last. A process that was sent SIGTERM exits at any time or never, and a child
  of the host has no parent-death signal.

Hazards known without a property:

* A supervisor killed between the removal of its state file and that of its PID
  output (guard 451), or whose removal of the PID output fails, leaves a PID output
  without a session; in the second case its status may still be 0.
* The smoke script starts its helper before it installs its traps (script 2792).
* A signal between the failed final cleanup and the reset of its flag (script
  2920), stated by `FailedProof.cfg`.
* `groupadd` that takes effect and then times out (launcher 2272) leaves a group
  of which the launcher knows nothing; `SurvivingMappingReported` is about
  mappings.
* The serial mode of the scheduler (scheduler 804) has no timeout.

## Not modelled, and why

The modelled code is a small share of the repository's lines. By far most of them
are validators of documents and evidence (`no_crs_baseline.py`,
`check-ci-security-contract.py`, `connector_config_reference.py`), lookups and
renderers (`check-common-versions.py`, `generate-case-matrix.py`, the report
generators), catalogs, and the test instruments of connectors that are not in
this repository. They are pure functions from files to files, call after call
without state; what one could state of them is their own text.

Modelled in part or not yet, although there is something to say:

* the full-matrix job, its resumption and the sealed receipt
  (`run-full-matrix-job.py`, `run-full-matrix-resume.py`,
  `verified_full_matrix_receipt.py`);
* the broker's preparation of candidates and of the CRS bundle, and the builder,
  dispatcher and collector, which write their output once;
* the local smoke driver, and the NGINX, HAProxy and backend-close scripts, which
  repeat the shape of a modelled one;
* the trusted Lighttpd supervisor, which at this commit ends before it starts
  anything.

## Plan

1. Resumption of a matrix, composed with `MatrixScheduler` through the manifest.
2. The loop over all cases of the Apache script (298-411) and its aggregate
   result; `verify-running` and `verify-pid`.
