----------------------------- MODULE ApacheSmoke -----------------------------
(***************************************************************************)
(* run_apache_smoke.sh for one case: the shell that starts the supervisor, *)
(* records ownership, sends the request, cleans up and reports.            *)
(*                                                                         *)
(* The shell runs one command per step; between two commands it may run a  *)
(* trap or be killed, and meanwhile the supervisor, httpd and whoever else *)
(* wants the port make progress.  The guard commands appear here by the    *)
(* results that ApacheSupervisor and ApacheOwnership allow them; the       *)
(* supervisor by the life of its httpd and of its two files.               *)
(***************************************************************************)
EXTENDS Naturals

CONSTANTS
    Profiles,       \* subset of BOOLEAN: is a cleanup receipt asked for?
    MaxSignals,     \* bound: HUP, INT and TERM signals to the shell
    SupervisorFaults  \* may the supervisor be SIGKILLed?

ASSUME SmokeAssumption ==
    /\ Profiles \subseteq BOOLEAN
    /\ MaxSignals \in Nat
    /\ SupervisorFaults \in BOOLEAN

VARIABLES
    sh,         \* the command the shell is about to run
    cont,       \* what cleanup returns to: "exit", "signal", "final" or "retry"
    rc,         \* the exit status on its way, or the final one
    crc,        \* cleanup_rc # 0
    traps,      \* the installed traps: "none", "all", or "hup" alone
    profile,    \* apache_profile_enabled
    final,      \* APACHE_PROFILE_FINAL_CLEANUP
    spid,       \* HTTPD_SUPERVISOR_PID is set
    hpid,       \* HTTPD_PID is set
    hevid,      \* HTTPD_GUARD_EVIDENCE is set
    cleaned,    \* HTTPD_RECORD_FAILURE_CLEANED
    bpid,       \* RESPONSE_HEADER_BACKEND_PID or SYNCHRONIZED_UPSTREAM_PID is set
    tracked,    \* process_pid is not empty
    sup,        \* the supervisor process
    bound,      \* the supervisor read its runner's PID while the runner lived
    httpd,      \* the httpd of this run
    old,        \* the httpd of an earlier run that left its evidence
    state,      \* the supervisor state file: "none", "stale" or "mine"
    pidout,     \* the supervisor PID output exists
    evidence,   \* the ownership evidence: "none", "old" or "mine"
    pidfile,    \* httpd's own PID file exists
    helper,     \* the response-header backend, or the synchronized upstream
    receipt,    \* the cleanup receipt is published
    result,     \* the case result: "none", "pass" or "fail"
    refuted,    \* a final cleanup has returned a failure
    sigs        \* signals sent so far

varsExit  == <<cont, rc, crc, traps>>
varsFlags == <<profile, final, spid, hpid, hevid, cleaned, bpid, tracked>>
varsShell == <<varsExit, varsFlags>>
varsWorld == <<sup, bound, httpd, old, state, pidout, evidence, pidfile, helper>>
varsOut   == <<receipt, result, refuted>>
vars == <<sh, varsShell, varsWorld, varsOut, sigs>>

MainPCs == {"retire", "stale", "staleVerify", "evidence", "helper", "traps", "launch", "spid",
            "waitPid", "ready", "record", "request", "assert", "unfinal", "untrap",
            "publish"}
CleanupPCs == {"c_sync", "c_syncKill", "c_branch", "c_stop", "c_verifyRunning", "c_terminate",
               "c_wait", "c_proof", "c_backend", "c_backendKill", "c_files", "c_receipt", "c_done"}

Codes == {"0", "1", "77", "78", "signal"}

TypeOK ==
    /\ sh \in MainPCs \cup CleanupPCs \cup {"exited"}
    /\ cont \in {"none", "exit", "signal", "final", "retry"}
    /\ rc \in Codes \cup {"none"}
    /\ crc \in BOOLEAN
    /\ traps \in {"none", "all", "hup"}
    /\ profile \in BOOLEAN /\ final \in BOOLEAN
    /\ spid \in BOOLEAN /\ hpid \in BOOLEAN /\ hevid \in BOOLEAN /\ cleaned \in BOOLEAN
    /\ bpid \in BOOLEAN /\ tracked \in BOOLEAN
    /\ sup \in {"none", "launched", "starting", "forked", "published", "up", "leaving", "left",
                "dead"}
    /\ bound \in BOOLEAN
    /\ httpd \in {"none", "running", "zombie", "gone"}
    /\ old \in {"none", "running", "zombie", "gone"}
    /\ state \in {"none", "stale", "mine"}
    /\ pidout \in BOOLEAN
    /\ evidence \in {"none", "old", "mine"}
    /\ pidfile \in BOOLEAN
    /\ helper \in {"none", "backend", "sync", "gone"}
    /\ receipt \in BOOLEAN
    /\ result \in {"none", "pass", "fail"}
    /\ refuted \in BOOLEAN
    /\ sigs \in 0..MaxSignals

\* An earlier run in this directory may have left a supervisor state file, a
\* PID file, or the evidence of an httpd that is gone or, its supervisor dead,
\* still running.
Init ==
    /\ sh = "retire"
    /\ cont = "none" /\ rc = "none" /\ crc = FALSE /\ traps = "none"
    /\ profile \in Profiles /\ final = FALSE
    /\ spid = FALSE /\ hpid = FALSE /\ hevid = FALSE /\ cleaned = FALSE
    /\ bpid = FALSE /\ tracked = FALSE
    /\ sup = "none" /\ bound = FALSE /\ httpd = "none"
    /\ state \in {"none", "stale"}
    /\ \/ old = "none" /\ evidence = "none"
       \/ old \in {"running", "gone"} /\ evidence = "old"
    /\ pidfile \in BOOLEAN
    /\ pidout = FALSE
    /\ helper = "none"
    /\ receipt = FALSE /\ result = "none" /\ refuted = FALSE
    /\ sigs = 0

-----------------------------------------------------------------------------
(* Leaving the main line *)

At(from, to) == /\ sh = from
                /\ sh' = to

\* Enter cleanup; `trap - EXIT HUP INT TERM` comes first in the trap handlers.
CallCleanup(k, code) ==
    /\ sh' = "c_sync"
    /\ cont' = k
    /\ rc' = code
    /\ crc' = FALSE
    /\ traps' = IF k \in {"exit", "signal"} THEN "none" ELSE traps

\* exit, through on_exit if its trap is installed.
Exit(code) ==
    \/ /\ traps = "all"
       /\ CallCleanup("exit", code)
    \/ /\ traps # "all"
       /\ sh' = "exited"
       /\ rc' = code
       /\ UNCHANGED <<cont, crc, traps>>

\* A trapped signal runs on_signal between two commands; an untrapped one ends
\* the shell on the spot.
SignalShell ==
    /\ sh # "exited"
    /\ sigs < MaxSignals
    /\ sigs' = sigs + 1
    /\ \/ /\ traps # "none"
          /\ CallCleanup("signal", "signal")
       \/ /\ traps # "all"
          /\ sh' = "exited"
          /\ rc' = "signal"
          /\ UNCHANGED <<cont, crc, traps>>
    /\ UNCHANGED <<varsFlags, varsWorld, varsOut>>

-----------------------------------------------------------------------------
(* Startup: what earlier runs left behind *)

\* retire-supervisor-artifact compares the recorded runner with this shell,
\* which is never the one that launched an earlier session: it refuses.
RetireSession ==
    /\ sh = "retire"
    /\ \/ /\ state = "none"
          /\ sh' = "stale"
          /\ UNCHANGED varsExit
       \/ /\ state = "stale"
          /\ Exit("77")
    /\ UNCHANGED <<varsFlags, varsWorld, varsOut, sigs>>

\* Deliberately wrong: a zombie counts as stopped.
OldStoppedZombie == old # "running"

\* verify-stopped of the old evidence: a zombie is still in /proc.
OldStopped == old = "gone"

\* stop_stale_runtime_pid: terminate by the old evidence.  A PID file that has
\* none is removed if no PID can be read from it.
StopStale ==
    /\ sh = "stale"
    /\ \/ /\ pidfile => evidence = "none"
          /\ pidfile' = FALSE
          /\ sh' = "evidence"
          /\ UNCHANGED <<varsExit, old>>
       \/ /\ pidfile
          /\ old = "running"
          /\ old' = "zombie"
          /\ sh' = "staleVerify"
          /\ UNCHANGED <<varsExit, pidfile>>
       \/ /\ pidfile               \* terminate refuses, verify-stopped decides
          /\ OldStopped
          /\ sh' = "staleVerify"
          /\ UNCHANGED <<varsExit, old, pidfile>>
       \/ /\ pidfile
          /\ Exit("77")
          /\ UNCHANGED <<old, pidfile>>
    /\ UNCHANGED <<varsFlags, sup, bound, httpd, state, pidout, evidence, helper, varsOut, sigs>>

StaleVerify ==
    /\ sh = "staleVerify"
    /\ pidfile' = FALSE
    /\ \/ /\ OldStopped
          /\ sh' = "evidence"
          /\ UNCHANGED varsExit
       \/ Exit("77")
    /\ UNCHANGED <<varsFlags, sup, bound, httpd, old, state, pidout, evidence, helper, varsOut,
                   sigs>>

\* retire_stale_guard_evidence
RetireEvidence ==
    /\ sh = "evidence"
    /\ \/ /\ evidence = "none" \/ OldStopped
          /\ evidence' = "none"
          /\ sh' = "helper"
          /\ UNCHANGED varsExit
       \/ /\ evidence = "old"
          /\ Exit("77")
          /\ UNCHANGED evidence
    /\ UNCHANGED <<varsFlags, sup, bound, httpd, old, state, pidout, pidfile, helper, varsOut,
                   sigs>>

-----------------------------------------------------------------------------
(* Preparation and start_server *)

\* A helper is started before there are traps, and waited for; it may fail to
\* start, or to answer.
StartsHelper(kind) ==
    /\ sh = "helper"
    /\ helper' \in {"none", kind}
    /\ bpid' = (helper' = kind)
    /\ UNCHANGED <<profile, final, spid, hpid, hevid, cleaned, tracked, sup, bound, httpd, old,
                   state, pidout, evidence, pidfile, varsOut, sigs>>

\* start_response_header_backend: only a case that needs it has one.
StartBackend ==
    /\ StartsHelper("backend")
    /\ \/ sh' = "traps" /\ UNCHANGED varsExit
       \/ \E code \in {"77", "78"} : Exit(code)

\* start_synchronized_upstream
StartSynchronized ==
    /\ StartsHelper("sync")
    /\ \/ helper' = "sync" /\ sh' = "traps" /\ UNCHANGED varsExit
       \/ \E code \in {"1", "77"} : Exit(code)

\* Modules and test support are written, then the four traps are installed.
InstallTraps ==
    /\ sh = "traps"
    /\ \/ sh' = "launch" /\ traps' = "all" /\ UNCHANGED <<cont, rc, crc>>
       \/ Exit("77")
    /\ UNCHANGED <<varsFlags, varsWorld, varsOut, sigs>>

\* Port, configuration, configtest, and the supervisor in the background.
Launch ==
    /\ sh = "launch"
    /\ \/ sh' = "spid" /\ sup' = "launched" /\ UNCHANGED varsExit
       \/ (\E code \in {"0", "1", "77", "78"} : Exit(code)) /\ UNCHANGED sup
    /\ UNCHANGED <<varsFlags, bound, httpd, old, state, pidout, evidence, pidfile, helper, varsOut,
                   sigs>>

SetSupervisorPid ==
    /\ At("spid", "waitPid")
    /\ spid' = TRUE
    /\ UNCHANGED <<varsExit, profile, final, hpid, hevid, cleaned, bpid, tracked, varsWorld,
                   varsOut, sigs>>

\* Poll for the PID output; the supervisor may exit, or take too long.
WaitPidOutput ==
    /\ sh = "waitPid"
    /\ \/ /\ pidout
          /\ sh' = "ready"
          /\ hpid' = TRUE
          /\ UNCHANGED varsExit
       \/ /\ ~pidout
          /\ Exit("1")
          /\ UNCHANGED hpid
    /\ UNCHANGED <<profile, final, spid, hevid, cleaned, bpid, tracked, varsWorld, varsOut, sigs>>

\* Poll until httpd answers.  It may be gone, after a bind conflict or not; with
\* a conflict, `cleanup` is called on the main line, where set -e applies.
WaitReady ==
    /\ sh = "ready"
    /\ \/ /\ httpd # "gone"
          /\ sh' = "record"
          /\ UNCHANGED varsExit
       \/ /\ httpd = "gone"
          /\ CallCleanup("retry", "none")
       \/ Exit("1")
    /\ UNCHANGED <<varsFlags, varsWorld, varsOut, sigs>>

\* record_server_ownership, by the exit status of record.  74: the httpd was
\* terminated and seen to exit.  Otherwise record may or may not have signalled.
RecordExits(code) ==
    /\ sh = "record"
    /\ \/ /\ httpd # "gone"
          /\ evidence' = "mine"
          /\ hevid' = TRUE
          /\ sh' = "request"
          /\ UNCHANGED <<varsExit, cleaned, httpd>>
       \/ /\ httpd' = IF httpd = "running" THEN "zombie" ELSE httpd
          /\ cleaned' = TRUE
          /\ Exit(code)
          /\ UNCHANGED <<hevid, evidence>>
       \/ /\ httpd' \in {httpd, IF httpd = "running" THEN "zombie" ELSE httpd}
          /\ evidence' \in {"none", "mine"}
          /\ Exit("77")
          /\ UNCHANGED <<hevid, cleaned>>
    /\ UNCHANGED <<profile, final, spid, hpid, bpid, tracked, sup, bound, old, state, pidout,
                   pidfile, helper, varsOut, sigs>>

\* `|| blocked`: whatever the status of record, the script ends with 77.
Record == RecordExits("77")

\* The stages config_load and start_smoke end before any request.
StageEnds ==
    /\ sh = "request"
    /\ Exit("0")
    /\ UNCHANGED <<varsFlags, varsWorld, varsOut, sigs>>

\* The phase-4 requests assert for themselves and write no result.
Phase4Request ==
    /\ sh = "request"
    /\ Exit("0") \/ Exit("1")
    /\ UNCHANGED <<varsFlags, varsWorld, varsOut, sigs>>

\* send_synchronized_first_byte_request, likewise; in a client-abort test it
\* waits for the upstream and forgets its PID.
SynchronizedRequest ==
    /\ sh = "request"
    /\ helper = "sync"
    /\ Exit("0") \/ Exit("1")
    /\ \/ UNCHANGED <<bpid, helper>>
       \/ helper' = "gone" /\ bpid' = FALSE
    /\ UNCHANGED <<profile, final, spid, hpid, hevid, cleaned, tracked, sup, bound, httpd, old,
                   state, pidout, evidence, pidfile, varsOut, sigs>>

\* send_case_request; a transport error is only noted.
SendRequest ==
    /\ At("request", "assert")
    /\ UNCHANGED <<varsShell, varsWorld, varsOut, sigs>>

\* assert-status.  Without a profile the result is written at once; a profile
\* run first has to prove its cleanup.  Either write may fail.
AssertCase ==
    /\ sh = "assert"
    /\ \/ Exit("0") /\ ~profile /\ result' = "pass" /\ UNCHANGED final
       \/ Exit("1") /\ result' \in {"none", "fail"} /\ UNCHANGED final
       \/ CallCleanup("final", "none") /\ profile /\ final' = TRUE /\ UNCHANGED result
    /\ UNCHANGED <<profile, spid, hpid, hevid, cleaned, bpid, tracked, varsWorld, receipt, refuted,
                   sigs>>

\* The final cleanup failed: no publication from here on, then fail.
DisableFinal ==
    /\ sh = "unfinal"
    /\ final' = FALSE
    /\ Exit("1")
    /\ UNCHANGED <<profile, spid, hpid, hevid, cleaned, bpid, tracked, varsWorld, varsOut, sigs>>

\* The final cleanup succeeded: EXIT, INT and TERM are no longer trapped.
Untrap ==
    /\ At("untrap", "publish")
    /\ traps' = "hup"
    /\ UNCHANGED <<cont, rc, crc, varsFlags, varsWorld, varsOut, sigs>>

PublishResult ==
    /\ sh = "publish"
    /\ \/ Exit("0") /\ result' = "pass"
       \/ Exit("1") /\ result' \in {"none", "pass"}
    /\ UNCHANGED <<varsFlags, varsWorld, receipt, refuted, sigs>>

-----------------------------------------------------------------------------
(* cleanup *)

\* A step of cleanup that changes nothing but cleanup_rc and the world around it.
Keep(w) == UNCHANGED <<cont, rc, traps, varsFlags, w, sigs>>

\* apache_profile_stop_tracked_process: first the PID variable is cleared ...
ForgetPid(kind) ==
    /\ tracked' = (bpid /\ helper = kind)
    /\ bpid' = (bpid /\ helper # kind)
    /\ UNCHANGED <<varsExit, profile, final, spid, hpid, hevid, cleaned, varsWorld, varsOut, sigs>>

\* ... then the process it named is killed and waited for.
KillTracked == helper' = IF tracked THEN "gone" ELSE helper

CleanupForgetSync == At("c_sync", "c_syncKill") /\ ForgetPid("sync")

\* The release file may not be writable.
CleanupKillSync ==
    /\ At("c_syncKill", "c_branch")
    /\ KillTracked
    /\ crc' \in {crc, TRUE}
    /\ Keep(<<sup, bound, httpd, old, state, pidout, evidence, pidfile>>) /\ UNCHANGED varsOut

CleanupBranch ==
    /\ sh = "c_branch"
    /\ sh' = IF cleaned THEN "c_stop"
             ELSE IF hevid THEN "c_verifyRunning"
             ELSE IF hpid THEN "c_stop"
             ELSE "c_backend"
    /\ UNCHANGED crc
    /\ Keep(varsWorld) /\ UNCHANGED varsOut

\* stop-supervisor, if there is a state file; without evidence its failure is
\* ignored, because that branch fails anyway.
CleanupStop ==
    /\ sh = "c_stop"
    /\ \/ /\ state = "mine" /\ sup = "up"
          /\ httpd' = "gone"
          /\ sup' = "leaving"
          /\ UNCHANGED crc
       \/ /\ state = "mine"
          /\ crc' = (crc \/ cleaned)
          /\ UNCHANGED <<httpd, sup>>
       \/ /\ state = "none"
          /\ UNCHANGED <<crc, httpd, sup>>
    /\ sh' = "c_wait"
    /\ Keep(<<bound, old, state, pidout, evidence, pidfile, helper>>) /\ UNCHANGED varsOut

\* kill -0 also succeeds for a zombie, which verify-running then refuses.
CleanupVerifyRunning ==
    /\ sh = "c_verifyRunning"
    /\ \/ httpd = "gone" /\ sh' = "c_wait" /\ UNCHANGED crc
       \/ httpd = "running" /\ sh' = "c_terminate" /\ UNCHANGED crc
       \/ httpd # "gone" /\ sh' = "c_wait" /\ crc' = TRUE
    /\ Keep(varsWorld) /\ UNCHANGED varsOut

CleanupTerminate ==
    /\ At("c_terminate", "c_wait")
    /\ \/ httpd' = (IF httpd = "running" THEN "zombie" ELSE httpd) /\ UNCHANGED crc
       \/ crc' = TRUE /\ UNCHANGED httpd
    /\ Keep(<<sup, bound, old, state, pidout, evidence, pidfile, helper>>) /\ UNCHANGED varsOut

\* Deliberately wrong: the wait for the supervisor has no limit.
CleanupWaitForever ==
    /\ At("c_wait", "c_proof")
    /\ ~spid \/ sup = "dead"
    /\ UNCHANGED crc
    /\ Keep(varsWorld) /\ UNCHANGED varsOut

\* wait_supervisor_bounded: 40 polls, then give up.
CleanupWait ==
    /\ At("c_wait", "c_proof")
    /\ \/ (~spid \/ sup = "dead") /\ UNCHANGED crc
       \/ spid /\ sup # "dead" /\ crc' = TRUE
    /\ Keep(varsWorld) /\ UNCHANGED varsOut

\* cleanup_rc=77 at the end of the branch that found no evidence.
NoProof == crc' = TRUE

\* What each branch proves: port free and no evidence after exit 74; verify-
\* stopped, rm of the PID file and verify-stopped again; nothing.
CleanupProof ==
    /\ At("c_proof", "c_backend")
    /\ \/ /\ cleaned
          /\ \/ crc' = (crc \/ evidence # "none")
             \/ crc' = TRUE
          /\ UNCHANGED pidfile
       \/ /\ ~cleaned /\ hevid
          /\ \/ httpd = "gone" /\ pidfile' = (pidfile /\ crc) /\ UNCHANGED crc
             \/ crc' = TRUE /\ pidfile' \in {pidfile, pidfile /\ crc}
       \/ /\ ~cleaned /\ ~hevid
          /\ NoProof
          /\ UNCHANGED pidfile
    /\ Keep(<<sup, bound, httpd, old, state, pidout, evidence, helper>>) /\ UNCHANGED varsOut

CleanupForgetBackend == At("c_backend", "c_backendKill") /\ ForgetPid("backend")

\* The PID file goes too, unless there is evidence that refers to it.
CleanupKillBackend ==
    /\ At("c_backendKill", "c_files")
    /\ KillTracked
    /\ \/ pidfile' = (pidfile /\ (crc \/ (hevid /\ evidence = "mine"))) /\ UNCHANGED crc
       \/ crc' = TRUE /\ UNCHANGED pidfile
    /\ Keep(<<sup, bound, httpd, old, state, pidout, evidence>>) /\ UNCHANGED varsOut

CleanupFiles ==
    /\ At("c_files", "c_receipt")
    /\ crc' = (crc \/ state # "none" \/ pidout)
    /\ Keep(varsWorld) /\ UNCHANGED varsOut

\* Deliberately wrong: the receipt is written although cleanup_rc is not 0.
CleanupReceiptUnproven ==
    /\ At("c_receipt", "c_done")
    /\ \/ ~final /\ UNCHANGED <<crc, receipt>>
       \/ final /\ ~pidfile /\ ~receipt /\ receipt' = TRUE /\ UNCHANGED crc
       \/ final /\ crc' = TRUE /\ UNCHANGED receipt
    /\ Keep(varsWorld) /\ UNCHANGED <<result, refuted>>

\* apache_profile_publish_cleanup_receipt, on a final cleanup without failures;
\* the port must be free, the PID file gone and the receipt not yet there.
CleanupReceipt ==
    /\ At("c_receipt", "c_done")
    /\ \/ (~final \/ crc) /\ UNCHANGED <<crc, receipt>>
       \/ final /\ ~crc /\ ~pidfile /\ ~receipt /\ receipt' = TRUE /\ UNCHANGED crc
       \/ final /\ ~crc /\ crc' = TRUE /\ UNCHANGED receipt
    /\ Keep(varsWorld) /\ UNCHANGED <<result, refuted>>

\* Deliberately wrong: the status of the run hides that of cleanup.
ExitIgnoringCleanup == rc

\* on_exit turns status 0 of a run whose cleanup failed into 77.
ExitAfterCleanup == IF rc = "0" /\ crc THEN "77" ELSE rc

\* cleanup returns: to on_exit, to on_signal, to the final proof, or, without
\* evidence and hence with a failure, to set -e.
CleanupReturns ==
    /\ sh = "c_done"
    /\ \/ /\ cont = "exit"
          /\ sh' = "exited"
          /\ rc' = ExitAfterCleanup
          /\ UNCHANGED <<cont, crc, traps, refuted>>
       \/ /\ cont = "signal"
          /\ sh' = "exited"
          /\ UNCHANGED <<varsExit, refuted>>
       \/ /\ cont = "final" /\ ~crc
          /\ sh' = "untrap"
          /\ UNCHANGED <<varsExit, refuted>>
       \/ /\ cont = "final" /\ crc
          /\ sh' = "unfinal"
          /\ refuted' = TRUE
          /\ UNCHANGED varsExit
       \/ /\ cont = "retry" /\ crc
          /\ Exit("77")
          /\ UNCHANGED refuted
    /\ UNCHANGED <<varsFlags, varsWorld, receipt, result, sigs>>

-----------------------------------------------------------------------------
(* The supervisor and httpd, as the other modules describe them.  A stop by *)
(* the supervisor succeeds: SIGKILL is taken within its second timeout.     *)

Others(w) == UNCHANGED <<sh, varsShell, w, bound, old, evidence, helper, varsOut, sigs>>

SupForks ==
    /\ sup = "starting"
    /\ sup' = "forked"
    /\ httpd' = "running"
    /\ pidfile' \in {pidfile, TRUE}
    /\ Others(<<state, pidout>>)

SupPublishes ==
    \/ /\ sup = "forked"
       /\ sup' = "published"
       /\ state' = "mine"
       /\ Others(<<httpd, pidout, pidfile>>)
    \/ /\ sup = "published"
       /\ sup' = "up"
       /\ pidout' = TRUE
       /\ Others(<<httpd, state, pidfile>>)

\* The supervisor starts and reads the runner it will bind itself to.
SupReadsRunner ==
    /\ sup = "launched"
    /\ sup' = "starting"
    /\ bound' = (sh # "exited")
    /\ UNCHANGED <<sh, varsShell, httpd, old, state, pidout, evidence, pidfile, helper, varsOut,
                   sigs>>

\* A failed launch or session: the httpd is stopped and the files withdrawn.
SupFails ==
    \/ /\ sup \in {"launched", "starting"}
       /\ sup' = "dead"
       /\ Others(<<httpd, state, pidout, pidfile>>)
    \/ /\ sup \in {"forked", "published"}
       /\ sup' = "leaving"
       /\ httpd' = "gone"
       /\ Others(<<state, pidout, pidfile>>)

\* Deliberately wrong: the death of the runner goes unnoticed.
SupOutlivesRunner ==
    /\ sup = "up"
    /\ httpd = "zombie"
    /\ sup' = "leaving"
    /\ httpd' = "gone"
    /\ Others(<<state, pidout, pidfile>>)

\* child.poll() reaps an exited httpd; the death of the runner ends the session.
SupEndsSession ==
    /\ sup = "up"
    /\ httpd = "zombie" \/ (sh = "exited" /\ bound)
    /\ sup' = "leaving"
    /\ httpd' = "gone"
    /\ Others(<<state, pidout, pidfile>>)

SupWithdraws ==
    \/ /\ sup = "leaving"
       /\ sup' = "left"
       /\ state' = "none"
       /\ Others(<<httpd, pidout, pidfile>>)
    \/ /\ sup = "left"
       /\ sup' = "dead"
       /\ pidout' = FALSE
       /\ Others(<<httpd, state, pidfile>>)

\* SIGKILL: PR_SET_PDEATHSIG takes httpd along, the files stay.
SupKilled ==
    /\ SupervisorFaults
    /\ sup \notin {"none", "dead"}
    /\ sup' = "dead"
    /\ httpd' = IF httpd = "running" THEN "zombie" ELSE httpd
    /\ Others(<<state, pidout, pidfile>>)

HttpdExits ==
    /\ httpd = "running"
    /\ httpd' = "zombie"
    /\ pidfile' \in {pidfile, FALSE}
    /\ Others(<<sup, state, pidout>>)

InitReaps ==
    /\ \/ /\ sup = "dead" /\ httpd = "zombie"
          /\ httpd' = "gone"
          /\ UNCHANGED old
       \/ /\ old = "zombie"
          /\ old' = "gone"
          /\ UNCHANGED httpd
    /\ UNCHANGED <<sh, varsShell, sup, bound, state, pidout, evidence, pidfile, helper, varsOut,
                   sigs>>

-----------------------------------------------------------------------------
MainStep ==
    \/ RetireSession \/ StopStale \/ StaleVerify \/ RetireEvidence
    \/ StartBackend \/ StartSynchronized \/ InstallTraps
    \/ Launch \/ SetSupervisorPid \/ WaitPidOutput \/ WaitReady
    \/ Record \/ StageEnds \/ Phase4Request \/ SynchronizedRequest \/ SendRequest \/ AssertCase
    \/ DisableFinal \/ Untrap \/ PublishResult

CleanupStep ==
    \/ CleanupForgetSync \/ CleanupKillSync \/ CleanupBranch
    \/ CleanupStop \/ CleanupVerifyRunning \/ CleanupTerminate \/ CleanupWait \/ CleanupProof
    \/ CleanupForgetBackend \/ CleanupKillBackend \/ CleanupFiles \/ CleanupReceipt
    \/ CleanupReturns

SupervisorStep ==
    SupReadsRunner \/ SupForks \/ SupPublishes \/ SupFails \/ SupEndsSession \/ SupWithdraws

Next == MainStep \/ CleanupStep \/ SupervisorStep \/ SignalShell \/ SupKilled \/ HttpdExits
        \/ InitReaps

Spec == Init /\ [][Next]_vars

\* Every process is scheduled; nobody is obliged to send a signal, to kill a
\* supervisor, or to exit.
FairSpec == /\ Spec
            /\ WF_vars(MainStep \/ CleanupStep)
            /\ WF_vars(SupervisorStep)
            /\ WF_vars(InitReaps)

-----------------------------------------------------------------------------
Quiet == /\ httpd \in {"none", "gone"}
         /\ helper \in {"none", "gone"}

\* The receipt's "tracked host processes remaining: 0, pid files remaining: 0"
\* is true: once it is published the supervisor has ended, httpd was reaped and
\* none of the files is left, whatever signals arrived; and unless a signal
\* made cleanup start again, the helper has been stopped as well.
ReceiptSound ==
    receipt => /\ httpd = "gone"
               /\ cont = "final" => helper \in {"none", "gone"}
               /\ sup = "dead"
               /\ state = "none" /\ ~pidout /\ ~pidfile

\* Status 0 of the script implies that nothing of this run is left running and
\* no supervisor file stays in the directory.
ExitZeroClean ==
    sh = "exited" /\ rc = "0" => Quiet /\ sup \in {"none", "dead"} /\ state = "none" /\ ~pidout

\* A profile run reports a pass only after its cleanup was proven and the
\* receipt published.
PassNeedsReceipt == profile /\ result = "pass" => receipt

\* The exit status and the reported result are justified.
StatusJustified == TypeOK /\ ExitZeroClean /\ PassNeedsReceipt

\* Evidence of an earlier httpd is removed only once that httpd is gone.
OldEvidenceKept == [][evidence = "old" /\ evidence' # "old" => old = "gone"]_vars

\* The script ends, for every command it runs returns and each of its waits for
\* the supervisor and httpd is bounded.
ScriptEnds == <>(sh = "exited")

\* However the script ends, its httpd does so too, provided that the supervisor
\* had read its runner's PID by then.
HttpdEnds == (sh = "exited" /\ bound) ~> (httpd = "gone" \/ (httpd = "none" /\ sup = "dead"))

\* "tracked_helper_processes_remaining": 0
ReceiptCoversHelper == receipt => helper \in {"none", "gone"}

\* "A failed final proof must never publish a receipt."
FailedProofNoReceipt == refuted => ~receipt
=============================================================================
