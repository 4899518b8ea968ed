----------------------- MODULE ApacheSupervisorProofs -----------------------
(***************************************************************************)
(* Proofs about ApacheSupervisor, for every set of sessions and faults.    *)
(* The last part is about LighttpdSession, the other guard of a process    *)
(* and its script, for any PIDs, forks and confirming rescans.             *)
(***************************************************************************)
EXTENDS ApacheSupervisor, TLAPS

-----------------------------------------------------------------------------
\* The state in which every supervise command starts is well typed.
LEMMA TypeInit == Init => TypeOK
  BY SupervisorAssumption DEF Init, TypeOK, PCs, LaunchPCs, Artifacts

\* Every step of a supervisor, a child, a client or a runner keeps the types.
LEMMA TypeStep == TypeOK /\ [Next]_vars => TypeOK'
  <1> SUFFICES ASSUME TypeOK, [Next]_vars
               PROVE  TypeOK'
    OBVIOUS
  <1> USE SupervisorAssumption
          DEF TypeOK, PCs, LaunchPCs, SessionPCs, StopPCs, FinalPCs, Artifacts
  <1>1. CASE UNCHANGED vars
    BY <1>1 DEF vars, supVars, childVars, clientVars, retireVars
  <1>2. ASSUME NEW s \in Sessions, SupervisorStep(s)
        PROVE  TypeOK'
    <2>1. CASE ReadParent(s)
      BY <2>1 DEF ReadParent, Go, Parent, childVars, clientVars, retireVars
    <2>2. CASE ArmKill(s)
      BY <2>2 DEF ArmKill, Go, childVars, clientVars, retireVars
    <2>3. CASE CheckParent(s)
      BY <2>3 DEF CheckParent, Die, Hangup, retireVars
    <2>4. CASE Fork(s)
      BY <2>4 DEF Fork, Die, Hangup, retireVars
    <2>5. CASE PopenReturns(s)
      BY <2>5 DEF PopenReturns, Go, supVars, childVars, clientVars, retireVars
    <2>6. CASE PopenFails(s)
      BY <2>6 DEF PopenFails, Hangup, retireVars
    <2>7. CASE RearmTerm(s)
      BY <2>7 DEF RearmTerm, Go, childVars, clientVars, retireVars
    <2>8. CASE Recheck(s)
      BY <2>8 DEF Recheck, CallStop, childVars, clientVars, retireVars
    <2>9. CASE Bind(s)
      BY <2>9 DEF Bind, CallStop, childVars, clientVars, retireVars
    <2>10. CASE PublishState(s)
      BY <2>10 DEF PublishState, Create, RemovalFails, CallStop, childVars, clientVars, retireVars
    <2>11. CASE WritePidOutput(s)
      BY <2>11 DEF WritePidOutput, Create, RemovalFails, CallStop, childVars, clientVars, retireVars
    <2>12. CASE RestoreMask(s)
      BY <2>12 DEF RestoreMask, Go, childVars, clientVars, retireVars
    <2>13. CASE SessionLoop(s)
      BY <2>13 DEF SessionLoop, CallStop, clientVars, retireVars
    <2>14. CASE AcceptNone(s)
      BY <2>14 DEF AcceptNone, Go, supVars, childVars, clientVars, retireVars
    <2>15. ASSUME NEW c \in Sessions, AcceptForeign(s, c) \/ AcceptStop(s, c) \/ AcceptError(s, c)
           PROVE  TypeOK'
      BY <2>15 DEF AcceptForeign, AcceptStop, AcceptError, Go, CallStop, supVars, childVars,
                   clientVars, retireVars
    <2>16. CASE SendTerm(s)
      BY <2>16 DEF SendTerm, supVars, clientVars, retireVars
    <2>17. CASE ChildReaped(s)
      BY <2>17 DEF ChildReaped, supVars, clientVars, retireVars
    <2>18. CASE TermTimeout(s)
      BY <2>18 DEF TermTimeout, Go, supVars, clientVars, retireVars
    <2>19. CASE KillTimeout(s)
      BY <2>19 DEF KillTimeout, CallStop, Die, Hangup, retireVars
    <2>20. CASE Stopped(s)
      BY <2>20 DEF Stopped, CallStop, Die, Hangup, retireVars
    <2>21. CASE CloseListener(s)
      BY <2>21 DEF CloseListener, Go, Hangup, supVars, childVars, retireVars
    <2>22. CASE CheckState(s)
      BY <2>22 DEF CheckState, RemovalFails, Die, Hangup, retireVars
    <2>23. CASE RemoveState(s)
      <3>1. CASE Die(s, "failed") /\ UNCHANGED file
        BY <2>23, <3>1 DEF RemoveState, RemovalFails, Die, Hangup, retireVars
      <3>2. CASE UNCHANGED <<exit, csig, cpc, kept>>
        BY <2>23, <3>2 DEF RemoveState, RemovalFails, Die, retireVars
      <3> QED
        BY <2>23, <3>1, <3>2 DEF RemoveState
    <2>24. CASE CheckPid(s)
      BY <2>24 DEF CheckPid, RemovalFails, Die, Hangup, ExitStatus, retireVars
    <2>25. CASE RemovePid(s)
      BY <2>25 DEF RemovePid, RemovalFails, Die, Hangup, ExitStatus, retireVars
    <2>26. QED
      BY <1>2, <2>1, <2>2, <2>3, <2>4, <2>5, <2>6, <2>7, <2>8, <2>9, <2>10, <2>11, <2>12,
         <2>13, <2>14, <2>15, <2>16, <2>17, <2>18, <2>19, <2>20, <2>21, <2>22, <2>23, <2>24,
         <2>25
         DEF SupervisorStep, Accept
  <1>3. ASSUME NEW s \in Sessions, KernelStep(s) \/ ChildExit(s)
        PROVE  TypeOK'
    BY <1>3 DEF KernelStep, ChildArm, ChildCheck, ChildKilled, InitReaps, ChildExit, supVars,
                clientVars, retireVars
  <1>4. ASSUME NEW s \in Sessions, RunnerDies(s) \/ Signal(s) \/ SupervisorKilled(s)
        PROVE  TypeOK'
    BY <1>4 DEF RunnerDies, Signal, SupervisorKilled, Deliver, Die, Hangup, retireVars
  <1>5. ASSUME NEW s \in Sessions, Connect(s) \/ ClientGone(s)
        PROVE  TypeOK'
    BY <1>5 DEF Connect, ClientGone, supVars, childVars, retireVars
  <1>6. ASSUME NEW s \in Sessions, RetireStep(s)
        PROVE  TypeOK'
    BY <1>6 DEF RetireStep, RetireInspect, RetireCheckState, RetireRemoveState, RetireCheckPid,
                RetireRemovePid, RetireFails, supVars, childVars, clientVars
  <1>7. QED
    BY <1>1, <1>2, <1>3, <1>4, <1>5, <1>6 DEF Next

\* Every reachable state of every set of sessions is well typed: in particular
\* a file always holds the inode of one session or of none.
THEOREM TypeCorrect == Spec => []TypeOK
  BY TypeInit, TypeStep, PTL DEF Spec

-----------------------------------------------------------------------------
(***************************************************************************)
(* The inductive invariant.  None of the safety properties is inductive    *)
(* alone: an ACK is sound because of what the continuation of the stop     *)
(* procedure knows about the client it serves; the state file is kept      *)
(* because an unlink that is still to come can only be the owner's.        *)
(***************************************************************************)

\* A client has a target exactly when it has tried to connect, and an answer
\* only from a session whose child was reaped and whose runner is its own.
ClientsInv ==
    \A c \in Sessions :
        /\ cpc[c] # "idle" => ctarget[c] \in Sessions
        /\ cpc[c] = "idle" => ctarget[c] = None
        /\ cpc[c] = "acked" => /\ child[ctarget[c]] = "reaped"
                               /\ pc[ctarget[c]] # "entry"
                               /\ eparent[ctarget[c]] = InitPid \/ ctarget[c] = c

\* While the stop procedure is to return to the command handler, the client
\* it will acknowledge is connected to this session and passed the lineage test.
ServingInv ==
    \A s \in Sessions :
        ret[s] = "ack" /\ pc[s] \in StopPCs =>
            /\ peer[s] \in Sessions
            /\ ctarget[peer[s]] = s
            /\ eparent[s] = InitPid \/ peer[s] = s

\* The recorded parent is the runner or, for an orphan, process 1.
LineageInv ==
    \A s \in Sessions : pc[s] \notin {"entry", "dead"} => eparent[s] \in {s, InitPid}

\* Where the supervisor is tells what has become of the child.
ChildInv ==
    \A s \in Sessions :
        /\ pc[s] \in {"entry", "blocked", "armed", "fork"} => child[s] = "none"
        /\ pc[s] = "stopped" => child[s] = "reaped"
        /\ pc[s] \in FinalPCs /\ ret[s] # "fail" => child[s] = "reaped"
        /\ exit[s] = "zero" => child[s] = "reaped"
        /\ exit[s] # "none" => pc[s] = "dead"

\* Who may own, and who may still remove, an inode of the shared directory.
FilesInv ==
    \A s \in Sessions :
        /\ \A a \in Artifacts : file[a] = s => a \in owned[s] \/ a \in kept[s]
        /\ pc[s] \in LaunchPCs \cup {"bind", "publish"} => owned[s] = {} /\ kept[s] = {}
        /\ ret[s] = "launch" /\ pc[s] \in StopPCs => owned[s] = {} /\ kept[s] = {}
        /\ pc[s] = "rm_state" => "state" \in owned[s]
        /\ pc[s] \in {"chk_pid", "rm_pid"} => file["state"] # s \/ "state" \in kept[s]
        /\ exit[s] = "zero" => \A a \in Artifacts : file[a] = s => a \in kept[s]
        /\ exit[s] = "failed" => \A a \in Artifacts :
               file[a] = s => a \in kept[s] \/ (a = "pid" /\ "state" \in kept[s])
        /\ rpc[s] # "idle" => pc[s] = "dead"
        /\ rpc[s] = "rm_state" => file["state"] = s

IInv == /\ TypeOK
        /\ ClientsInv
        /\ ServingInv
        /\ LineageInv
        /\ ChildInv
        /\ NoOrphanHttpd
        /\ FilesInv
        /\ LiveStateKept

\* The invariant holds before any supervisor has run.
LEMMA InvInit == Init => IInv
  <1> SUFFICES ASSUME Init
               PROVE  IInv
    OBVIOUS
  <1>1. TypeOK
    BY TypeInit
  <1> QED
    BY <1>1, SupervisorAssumption
       DEF Init, IInv, ClientsInv, ServingInv, LineageInv, ChildInv, NoOrphanHttpd, FilesInv,
           LiveStateKept, Holds, LaunchPCs, StopPCs, FinalPCs, Artifacts

\* Every step of every process keeps the invariant; one case per action.
LEMMA InvStep == IInv /\ [Next]_vars => IInv'
  <1> SUFFICES ASSUME IInv, [Next]_vars
               PROVE  IInv'
    OBVIOUS
  <1> TypeOK'
    BY TypeStep DEF IInv
  <1> USE SupervisorAssumption
          DEF IInv, TypeOK, ClientsInv, ServingInv, LineageInv, ChildInv, NoOrphanHttpd, FilesInv,
              LiveStateKept, Holds, PCs, LaunchPCs, SessionPCs, StopPCs, FinalPCs, Artifacts
  <1>1. CASE UNCHANGED vars
    BY <1>1 DEF vars, supVars, childVars, clientVars, retireVars
  <1>2. ASSUME NEW s \in Sessions, SupervisorStep(s)
        PROVE  IInv'
    <2>1. CASE ReadParent(s)
      BY <2>1 DEF ReadParent, Go, Parent, childVars, clientVars, retireVars
    <2>2. CASE ArmKill(s)
      BY <2>2 DEF ArmKill, Go, childVars, clientVars, retireVars
    <2>3. CASE CheckParent(s)
      <3>1. FilesInv'
        BY <2>3 DEF CheckParent, Die, Hangup, Waiting, retireVars
      <3>2. ClientsInv' /\ ServingInv' /\ LineageInv'
        BY <2>3 DEF CheckParent, Die, Hangup, Waiting, retireVars
      <3>3. ChildInv' /\ NoOrphanHttpd' /\ LiveStateKept'
        BY <2>3 DEF CheckParent, Die, Hangup, Waiting, retireVars
      <3> HIDE DEF TypeOK, ClientsInv, ServingInv, LineageInv, ChildInv, NoOrphanHttpd, FilesInv,
                   LiveStateKept
      <3> QED
        BY <3>1, <3>2, <3>3
    <2>4. CASE Fork(s)
      <3>1. FilesInv'
        BY <2>4 DEF Fork, Die, Hangup, Waiting, retireVars
      <3>2. ClientsInv' /\ ServingInv' /\ LineageInv'
        BY <2>4 DEF Fork, Die, Hangup, Waiting, retireVars
      <3>3. ChildInv' /\ NoOrphanHttpd' /\ LiveStateKept'
        BY <2>4 DEF Fork, Die, Hangup, Waiting, retireVars
      <3> HIDE DEF TypeOK, ClientsInv, ServingInv, LineageInv, ChildInv, NoOrphanHttpd, FilesInv,
                   LiveStateKept
      <3> QED
        BY <3>1, <3>2, <3>3
    <2>5. CASE PopenReturns(s)
      BY <2>5 DEF PopenReturns, Go, supVars, childVars, clientVars, retireVars
    <2>6. CASE PopenFails(s)
      <3>1. FilesInv'
        BY <2>6 DEF PopenFails, Hangup, Waiting, retireVars
      <3>2. ClientsInv' /\ ServingInv' /\ LineageInv'
        BY <2>6 DEF PopenFails, Hangup, Waiting, retireVars
      <3>3. ChildInv' /\ NoOrphanHttpd' /\ LiveStateKept'
        BY <2>6 DEF PopenFails, Hangup, Waiting, retireVars
      <3> HIDE DEF TypeOK, ClientsInv, ServingInv, LineageInv, ChildInv, NoOrphanHttpd, FilesInv,
                   LiveStateKept
      <3> QED
        BY <3>1, <3>2, <3>3
    <2>7. CASE RearmTerm(s)
      BY <2>7 DEF RearmTerm, Go, childVars, clientVars, retireVars
    <2>8. CASE Recheck(s)
      BY <2>8 DEF Recheck, CallStop, childVars, clientVars, retireVars
    <2>9. CASE Bind(s)
      BY <2>9 DEF Bind, CallStop, childVars, clientVars, retireVars
    <2>10. CASE PublishState(s)
      BY <2>10 DEF PublishState, Create, RemovalFails, CallStop, childVars, clientVars, retireVars
    <2>11. CASE WritePidOutput(s)
      BY <2>11 DEF WritePidOutput, Create, RemovalFails, CallStop, childVars, clientVars, retireVars
    <2>12. CASE RestoreMask(s)
      BY <2>12 DEF RestoreMask, Go, childVars, clientVars, retireVars
    <2>13. CASE SessionLoop(s)
      <3>1. FilesInv'
        BY <2>13 DEF SessionLoop, CallStop, clientVars, retireVars
      <3>2. ClientsInv' /\ ServingInv' /\ LineageInv'
        BY <2>13 DEF SessionLoop, CallStop, clientVars, retireVars
      <3>3. ChildInv' /\ NoOrphanHttpd' /\ LiveStateKept'
        BY <2>13 DEF SessionLoop, CallStop, clientVars, retireVars
      <3> HIDE DEF TypeOK, ClientsInv, ServingInv, LineageInv, ChildInv, NoOrphanHttpd, FilesInv,
                   LiveStateKept
      <3> QED
        BY <3>1, <3>2, <3>3
    <2>14. CASE AcceptNone(s)
      BY <2>14 DEF AcceptNone, Go, supVars, childVars, clientVars, retireVars
    <2>15. CASE SendTerm(s)
      BY <2>15 DEF SendTerm, supVars, clientVars, retireVars
    <2>16. CASE ChildReaped(s)
      BY <2>16 DEF ChildReaped, supVars, clientVars, retireVars
    <2>17. CASE TermTimeout(s)
      BY <2>17 DEF TermTimeout, Go, supVars, clientVars, retireVars
    <2>18. CASE KillTimeout(s)
      <3>1. CASE ret[s] \in {"ok", "ack"}
        <4>1. ret[s] = "ack" => peer[s] \in Sessions /\ cpc[peer[s]] # "idle"
          BY <2>18 DEF KillTimeout
        <4> QED
          BY <2>18, <3>1, <4>1 DEF KillTimeout, CallStop, retireVars
      <3>2. CASE ret[s] = "fail"
        BY <2>18, <3>2 DEF KillTimeout, retireVars
      <3>3. CASE ret[s] = "launch"
        BY <2>18, <3>3 DEF KillTimeout, Die, Hangup, Waiting, retireVars
      <3> QED
        BY <2>18, <3>1, <3>2, <3>3 DEF KillTimeout
    <2>19. CASE Stopped(s)
      <3>1. FilesInv'
        BY <2>19 DEF Stopped, CallStop, Die, Hangup, Waiting, retireVars
      <3>2. ClientsInv' /\ ServingInv' /\ LineageInv'
        BY <2>19 DEF Stopped, CallStop, Die, Hangup, Waiting, retireVars
      <3>3. ChildInv' /\ NoOrphanHttpd' /\ LiveStateKept'
        BY <2>19 DEF Stopped, CallStop, Die, Hangup, Waiting, retireVars
      <3> HIDE DEF TypeOK, ClientsInv, ServingInv, LineageInv, ChildInv, NoOrphanHttpd, FilesInv,
                   LiveStateKept
      <3> QED
        BY <3>1, <3>2, <3>3
    <2>20. CASE CloseListener(s)
      BY <2>20 DEF CloseListener, Go, Hangup, Waiting, supVars, childVars, retireVars
    <2>21. CASE CheckState(s)
      <3>1. FilesInv'
        BY <2>21 DEF CheckState, RemovalFails, Die, Hangup, Waiting, retireVars
      <3>2. ClientsInv' /\ ServingInv' /\ LineageInv'
        BY <2>21 DEF CheckState, RemovalFails, Die, Hangup, Waiting, retireVars
      <3>3. ChildInv' /\ NoOrphanHttpd' /\ LiveStateKept'
        BY <2>21 DEF CheckState, RemovalFails, Die, Hangup, Waiting, retireVars
      <3> HIDE DEF TypeOK, ClientsInv, ServingInv, LineageInv, ChildInv, NoOrphanHttpd, FilesInv,
                   LiveStateKept
      <3> QED
        BY <3>1, <3>2, <3>3
    <2>22. CASE RemoveState(s)
      <3>1. FilesInv'
        BY <2>22 DEF RemoveState, RemovalFails, Die, Hangup, Waiting, retireVars
      <3>2. ClientsInv' /\ ServingInv' /\ LineageInv'
        BY <2>22 DEF RemoveState, RemovalFails, Die, Hangup, Waiting, retireVars
      <3>3. ChildInv' /\ NoOrphanHttpd' /\ LiveStateKept'
        BY <2>22 DEF RemoveState, RemovalFails, Die, Hangup, Waiting, retireVars
      <3> HIDE DEF TypeOK, ClientsInv, ServingInv, LineageInv, ChildInv, NoOrphanHttpd, FilesInv,
                   LiveStateKept
      <3> QED
        BY <3>1, <3>2, <3>3
    <2>23. CASE CheckPid(s)
      <3>1. FilesInv'
        BY <2>23 DEF CheckPid, RemovalFails, Die, Hangup, Waiting, ExitStatus, retireVars
      <3>2. ClientsInv' /\ ServingInv' /\ LineageInv'
        BY <2>23 DEF CheckPid, RemovalFails, Die, Hangup, Waiting, ExitStatus, retireVars
      <3>3. ChildInv' /\ NoOrphanHttpd' /\ LiveStateKept'
        BY <2>23 DEF CheckPid, RemovalFails, Die, Hangup, Waiting, ExitStatus, retireVars
      <3> HIDE DEF TypeOK, ClientsInv, ServingInv, LineageInv, ChildInv, NoOrphanHttpd, FilesInv,
                   LiveStateKept
      <3> QED
        BY <3>1, <3>2, <3>3
    <2>24. CASE RemovePid(s)
      <3>1. FilesInv'
        BY <2>24 DEF RemovePid, RemovalFails, Die, Hangup, Waiting, ExitStatus, retireVars
      <3>2. ClientsInv' /\ ServingInv' /\ LineageInv'
        BY <2>24 DEF RemovePid, RemovalFails, Die, Hangup, Waiting, ExitStatus, retireVars
      <3>3. ChildInv' /\ NoOrphanHttpd' /\ LiveStateKept'
        BY <2>24 DEF RemovePid, RemovalFails, Die, Hangup, Waiting, ExitStatus, retireVars
      <3> HIDE DEF TypeOK, ClientsInv, ServingInv, LineageInv, ChildInv, NoOrphanHttpd, FilesInv,
                   LiveStateKept
      <3> QED
        BY <3>1, <3>2, <3>3
    <2>25. ASSUME NEW c \in Sessions, AcceptForeign(s, c)
           PROVE  IInv'
      BY <2>25 DEF AcceptForeign, Waiting, Parent, Go, supVars, childVars, retireVars
    <2>26. ASSUME NEW c \in Sessions, AcceptStop(s, c)
           PROVE  IInv'
      BY <2>26 DEF AcceptStop, Waiting, Parent, CallStop, childVars, clientVars, retireVars
    <2>27. ASSUME NEW c \in Sessions, AcceptError(s, c)
           PROVE  IInv'
      <3>1. FilesInv'
        BY <2>27 DEF AcceptError, Waiting, Parent, CallStop, childVars, retireVars
      <3>2. ClientsInv' /\ ServingInv' /\ LineageInv'
        BY <2>27 DEF AcceptError, Waiting, Parent, CallStop, childVars, retireVars
      <3>3. ChildInv' /\ NoOrphanHttpd' /\ LiveStateKept'
        BY <2>27 DEF AcceptError, Waiting, Parent, CallStop, childVars, retireVars
      <3> HIDE DEF TypeOK, ClientsInv, ServingInv, LineageInv, ChildInv, NoOrphanHttpd, FilesInv,
                   LiveStateKept
      <3> QED
        BY <3>1, <3>2, <3>3
    <2>28. QED
      BY <1>2, <2>1, <2>2, <2>3, <2>4, <2>5, <2>6, <2>7, <2>8, <2>9, <2>10, <2>11, <2>12, <2>13, <2>14, <2>15, <2>16, <2>17, <2>18, <2>19, <2>20, <2>21, <2>22, <2>23, <2>24, <2>25, <2>26, <2>27
         DEF SupervisorStep, Accept
  <1>3. ASSUME NEW s \in Sessions, KernelStep(s) \/ ChildExit(s)
        PROVE  IInv'
    <2>1. CASE ChildArm(s)
      BY <2>1 DEF ChildArm, supVars, clientVars, retireVars
    <2>2. CASE ChildCheck(s)
      BY <2>2 DEF ChildCheck, supVars, clientVars, retireVars
    <2>3. CASE ChildKilled(s)
      BY <2>3 DEF ChildKilled, supVars, clientVars, retireVars
    <2>4. CASE InitReaps(s)
      BY <2>4 DEF InitReaps, supVars, clientVars, retireVars
    <2>5. CASE ChildExit(s)
      BY <2>5 DEF ChildExit, supVars, clientVars, retireVars
    <2>6. QED
      BY <1>3, <2>1, <2>2, <2>3, <2>4, <2>5 DEF KernelStep
  <1>4. ASSUME NEW s \in Sessions, RunnerDies(s) \/ Signal(s) \/ SupervisorKilled(s) \/ Connect(s) \/ ClientGone(s)
        PROVE  IInv'
    <2>1. CASE RunnerDies(s)
      <3>1. FilesInv'
        BY <2>1 DEF RunnerDies, Deliver, Die, Hangup, Waiting, retireVars
      <3>2. ClientsInv' /\ ServingInv' /\ LineageInv'
        BY <2>1 DEF RunnerDies, Deliver, Die, Hangup, Waiting, retireVars
      <3>3. ChildInv' /\ NoOrphanHttpd' /\ LiveStateKept'
        BY <2>1 DEF RunnerDies, Deliver, Die, Hangup, Waiting, retireVars
      <3> HIDE DEF TypeOK, ClientsInv, ServingInv, LineageInv, ChildInv, NoOrphanHttpd, FilesInv,
                   LiveStateKept
      <3> QED
        BY <3>1, <3>2, <3>3
    <2>2. CASE Signal(s)
      <3>1. FilesInv'
        BY <2>2 DEF Signal, Deliver, Die, Hangup, Waiting, retireVars
      <3>2. ClientsInv' /\ ServingInv' /\ LineageInv'
        BY <2>2 DEF Signal, Deliver, Die, Hangup, Waiting, retireVars
      <3>3. ChildInv' /\ NoOrphanHttpd' /\ LiveStateKept'
        BY <2>2 DEF Signal, Deliver, Die, Hangup, Waiting, retireVars
      <3> HIDE DEF TypeOK, ClientsInv, ServingInv, LineageInv, ChildInv, NoOrphanHttpd, FilesInv,
                   LiveStateKept
      <3> QED
        BY <3>1, <3>2, <3>3
    <2>3. CASE SupervisorKilled(s)
      <3>1. FilesInv'
        BY <2>3 DEF SupervisorKilled, Die, Hangup, Waiting, retireVars
      <3>2. ClientsInv' /\ ServingInv' /\ LineageInv'
        BY <2>3 DEF SupervisorKilled, Die, Hangup, Waiting, retireVars
      <3>3. ChildInv' /\ NoOrphanHttpd' /\ LiveStateKept'
        BY <2>3 DEF SupervisorKilled, Die, Hangup, Waiting, retireVars
      <3> HIDE DEF TypeOK, ClientsInv, ServingInv, LineageInv, ChildInv, NoOrphanHttpd, FilesInv,
                   LiveStateKept
      <3> QED
        BY <3>1, <3>2, <3>3
    <2>4. CASE Connect(s)
      BY <2>4 DEF Connect, Listening, supVars, childVars, retireVars
    <2>5. CASE ClientGone(s)
      BY <2>5 DEF ClientGone, supVars, childVars, retireVars
    <2>6. QED
      BY <1>4, <2>1, <2>2, <2>3, <2>4, <2>5
  <1>5. ASSUME NEW s \in Sessions, RetireStep(s)
        PROVE  IInv'
    <2>1. CASE RetireInspect(s)
      BY <2>1 DEF RetireInspect, supVars, childVars, clientVars
    <2>2. CASE RetireCheckState(s)
      BY <2>2 DEF RetireCheckState, supVars, childVars, clientVars
    <2>3. CASE RetireRemoveState(s)
      BY <2>3 DEF RetireRemoveState, supVars, childVars, clientVars
    <2>4. CASE RetireCheckPid(s)
      BY <2>4 DEF RetireCheckPid, supVars, childVars, clientVars
    <2>5. CASE RetireRemovePid(s)
      BY <2>5 DEF RetireRemovePid, supVars, childVars, clientVars
    <2>6. CASE RetireFails(s)
      BY <2>6 DEF RetireFails, supVars, childVars, clientVars
    <2>7. QED
      BY <1>5, <2>1, <2>2, <2>3, <2>4, <2>5, <2>6 DEF RetireStep
  <1>6. QED
    BY <1>1, <1>2, <1>3, <1>4, <1>5 DEF Next

\* The inductive invariant holds in every reachable state.
LEMMA Invariance == Spec => []IInv
  BY InvInit, InvStep, PTL DEF Spec

\* An ACK on the control socket proves that the httpd of that session was
\* reaped, for any number of overlapping sessions and clients.
THEOREM AckTheorem == Spec => []AckMeansReaped
  <1>1. IInv => AckMeansReaped
    BY DEF IInv, TypeOK, ClientsInv, AckMeansReaped
  <1> QED
    BY <1>1, Invariance, PTL

\* No session's publication, failure path, finalisation or retirement removes
\* or replaces the state file of a live session.
THEOREM LiveStateTheorem == Spec => []LiveStateKept
  <1>1. IInv => LiveStateKept
    BY DEF IInv
  <1> QED
    BY <1>1, Invariance, PTL

\* However and whenever a supervisor dies, a running httpd is being killed.
THEOREM NoOrphanTheorem == Spec => []NoOrphanHttpd
  <1>1. IInv => NoOrphanHttpd
    BY DEF IInv
  <1> QED
    BY <1>1, Invariance, PTL

\* A supervisor that exits by itself leaves an artifact of its own only where a
\* removal of its own has failed (guard 451-462 drops that error), and exit
\* status 0 implies a reaped httpd, for any number of overlapping sessions.
THEOREM CleanExitTheorem == Spec => []CleanExit
  <1>1. IInv => CleanExit
    BY DEF IInv, ChildInv, FilesInv, CleanExit
  <1> QED
    BY <1>1, Invariance, PTL

\* The lineage test of the control socket: an ACK goes to a client of the
\* runner that launched the session.
THEOREM LineageTheorem == Spec => []OnlyOwnRunnerAcked
  <1>1. IInv => OnlyOwnRunnerAcked
    BY DEF IInv, TypeOK, ClientsInv, OnlyOwnRunnerAcked
  <1> QED
    BY <1>1, Invariance, PTL

\* Both together: what stop_supervisor may conclude from an ACK, for any number
\* of overlapping sessions.
THEOREM AckSoundTheorem == Spec => []AckSound
  <1>1. AckMeansReaped /\ OnlyOwnRunnerAcked => AckSound
    BY DEF AckSound
  <1> QED
    BY <1>1, AckTheorem, LineageTheorem, PTL

-----------------------------------------------------------------------------
(***************************************************************************)
(* Refinement.  The abstract session needs to know more about the child    *)
(* than the invariants above: it is published only after exec, and it is   *)
(* withdrawn only when the child is gone or SIGKILL was sent.              *)
(***************************************************************************)
BeforeExecPCs == {"entry", "blocked", "armed", "fork", "popen"}

PhaseInv ==
    \A s \in Sessions :
        /\ pc[s] \in BeforeExecPCs => csig[s] = "none"
        /\ pc[s] \notin BeforeExecPCs \cup {"dead"} =>
               child[s] \notin {"none", "forked", "armed"}
        /\ pc[s] = "waitKill" => csig[s] = "KILL"
        /\ pc[s] \in FinalPCs /\ child[s] = "running" => csig[s] = "KILL"
        /\ rpc[s] # "idle" => child[s] = "reaped"

\* The phase facts hold initially.
LEMMA PhaseInit == Init => PhaseInv
  <1> SUFFICES ASSUME Init, NEW s \in Sessions
               PROVE  /\ pc[s] = "entry" /\ csig[s] = "none" /\ rpc[s] = "idle"
    BY DEF PhaseInv, BeforeExecPCs, FinalPCs
  <1> QED
    BY DEF Init

\* Every step keeps the phase facts, given the inductive invariant.
LEMMA PhaseStep == IInv /\ PhaseInv /\ [Next]_vars => PhaseInv'
  <1> SUFFICES ASSUME IInv, PhaseInv, [Next]_vars
               PROVE  PhaseInv'
    OBVIOUS
  <1> USE DEF IInv, TypeOK, ChildInv, FilesInv, PhaseInv, BeforeExecPCs, PCs, LaunchPCs,
              SessionPCs, StopPCs, FinalPCs, Artifacts
  <1>1. CASE UNCHANGED vars
    BY <1>1 DEF vars, supVars, childVars, clientVars, retireVars
  <1>2. ASSUME NEW s \in Sessions, SupervisorStep(s)
        PROVE  PhaseInv'
    <2>1. CASE ReadParent(s)
      BY <2>1 DEF ReadParent, Go, Parent, childVars, clientVars, retireVars
    <2>2. CASE ArmKill(s)
      BY <2>2 DEF ArmKill, Go, childVars, clientVars, retireVars
    <2>3. CASE CheckParent(s)
      BY <2>3 DEF CheckParent, Die, Hangup, Waiting, retireVars
    <2>4. CASE Fork(s)
      BY <2>4 DEF Fork, Die, Hangup, Waiting, retireVars
    <2>5. CASE PopenReturns(s)
      BY <2>5 DEF PopenReturns, Go, supVars, childVars, clientVars, retireVars
    <2>6. CASE PopenFails(s)
      BY <2>6 DEF PopenFails, Hangup, Waiting, retireVars
    <2>7. CASE RearmTerm(s)
      BY <2>7 DEF RearmTerm, Go, childVars, clientVars, retireVars
    <2>8. CASE Recheck(s)
      BY <2>8 DEF Recheck, CallStop, childVars, clientVars, retireVars
    <2>9. CASE Bind(s)
      BY <2>9 DEF Bind, CallStop, childVars, clientVars, retireVars
    <2>10. CASE PublishState(s)
      BY <2>10 DEF PublishState, Create, RemovalFails, CallStop, childVars, clientVars, retireVars
    <2>11. CASE WritePidOutput(s)
      BY <2>11 DEF WritePidOutput, Create, RemovalFails, CallStop, childVars, clientVars, retireVars
    <2>12. CASE RestoreMask(s)
      BY <2>12 DEF RestoreMask, Go, childVars, clientVars, retireVars
    <2>13. CASE SessionLoop(s)
      BY <2>13 DEF SessionLoop, CallStop, clientVars, retireVars
    <2>14. CASE AcceptNone(s)
      BY <2>14 DEF AcceptNone, Go, supVars, childVars, clientVars, retireVars
    <2>15. CASE SendTerm(s)
      BY <2>15 DEF SendTerm, supVars, clientVars, retireVars
    <2>16. CASE ChildReaped(s)
      BY <2>16 DEF ChildReaped, supVars, clientVars, retireVars
    <2>17. CASE TermTimeout(s)
      BY <2>17 DEF TermTimeout, Go, supVars, clientVars, retireVars
    <2>18. CASE KillTimeout(s)
      BY <2>18 DEF KillTimeout, CallStop, Die, Hangup, Waiting, retireVars
    <2>19. CASE Stopped(s)
      BY <2>19 DEF Stopped, CallStop, Die, Hangup, Waiting, retireVars
    <2>20. CASE CloseListener(s)
      BY <2>20 DEF CloseListener, Go, Hangup, Waiting, supVars, childVars, retireVars
    <2>21. CASE CheckState(s)
      BY <2>21 DEF CheckState, RemovalFails, Die, Hangup, Waiting, retireVars
    <2>22. CASE RemoveState(s)
      BY <2>22 DEF RemoveState, RemovalFails, Die, Hangup, Waiting, retireVars
    <2>23. CASE CheckPid(s)
      BY <2>23 DEF CheckPid, RemovalFails, Die, Hangup, Waiting, ExitStatus, retireVars
    <2>24. CASE RemovePid(s)
      BY <2>24 DEF RemovePid, RemovalFails, Die, Hangup, Waiting, ExitStatus, retireVars
    <2>25. ASSUME NEW c \in Sessions, AcceptForeign(s, c)
           PROVE  PhaseInv'
      BY <2>25 DEF AcceptForeign, Waiting, Parent, Go, supVars, childVars, retireVars
    <2>26. ASSUME NEW c \in Sessions, AcceptStop(s, c)
           PROVE  PhaseInv'
      BY <2>26 DEF AcceptStop, Waiting, Parent, CallStop, childVars, clientVars, retireVars
    <2>27. ASSUME NEW c \in Sessions, AcceptError(s, c)
           PROVE  PhaseInv'
      BY <2>27 DEF AcceptError, Waiting, Parent, CallStop, childVars, retireVars
    <2>28. QED
      BY <1>2, <2>1, <2>2, <2>3, <2>4, <2>5, <2>6, <2>7, <2>8, <2>9, <2>10, <2>11, <2>12, <2>13, <2>14, <2>15, <2>16, <2>17, <2>18, <2>19, <2>20, <2>21, <2>22, <2>23, <2>24, <2>25, <2>26, <2>27
         DEF SupervisorStep, Accept
  <1>3. ASSUME NEW s \in Sessions, KernelStep(s) \/ ChildExit(s)
        PROVE  PhaseInv'
    <2>1. CASE ChildArm(s)
      BY <2>1 DEF ChildArm, supVars, clientVars, retireVars
    <2>2. CASE ChildCheck(s)
      BY <2>2 DEF ChildCheck, supVars, clientVars, retireVars
    <2>3. CASE ChildKilled(s)
      BY <2>3 DEF ChildKilled, supVars, clientVars, retireVars
    <2>4. CASE InitReaps(s)
      BY <2>4 DEF InitReaps, supVars, clientVars, retireVars
    <2>5. CASE ChildExit(s)
      BY <2>5 DEF ChildExit, supVars, clientVars, retireVars
    <2>6. QED
      BY <1>3, <2>1, <2>2, <2>3, <2>4, <2>5 DEF KernelStep
  <1>4. ASSUME NEW s \in Sessions, RunnerDies(s) \/ Signal(s) \/ SupervisorKilled(s) \/ Connect(s) \/ ClientGone(s)
        PROVE  PhaseInv'
    <2>1. CASE RunnerDies(s)
      BY <2>1 DEF RunnerDies, Deliver, Die, Hangup, Waiting, retireVars
    <2>2. CASE Signal(s)
      BY <2>2 DEF Signal, Deliver, Die, Hangup, Waiting, retireVars
    <2>3. CASE SupervisorKilled(s)
      BY <2>3 DEF SupervisorKilled, Die, Hangup, Waiting, retireVars
    <2>4. CASE Connect(s)
      BY <2>4 DEF Connect, Listening, supVars, childVars, retireVars
    <2>5. CASE ClientGone(s)
      BY <2>5 DEF ClientGone, supVars, childVars, retireVars
    <2>6. QED
      BY <1>4, <2>1, <2>2, <2>3, <2>4, <2>5
  <1>5. ASSUME NEW s \in Sessions, RetireStep(s)
        PROVE  PhaseInv'
    <2>1. CASE RetireInspect(s)
      BY <2>1 DEF RetireInspect, supVars, childVars, clientVars
    <2>2. CASE RetireCheckState(s)
      BY <2>2 DEF RetireCheckState, supVars, childVars, clientVars
    <2>3. CASE RetireRemoveState(s)
      BY <2>3 DEF RetireRemoveState, supVars, childVars, clientVars
    <2>4. CASE RetireCheckPid(s)
      BY <2>4 DEF RetireCheckPid, supVars, childVars, clientVars
    <2>5. CASE RetireRemovePid(s)
      BY <2>5 DEF RetireRemovePid, supVars, childVars, clientVars
    <2>6. CASE RetireFails(s)
      BY <2>6 DEF RetireFails, supVars, childVars, clientVars
    <2>7. QED
      BY <1>5, <2>1, <2>2, <2>3, <2>4, <2>5, <2>6 DEF RetireStep
  <1>6. QED
    BY <1>1, <1>2, <1>3, <1>4, <1>5 DEF Next

\* Both invariants hold in every reachable state.
LEMMA PhaseInvariance == Spec => [](IInv /\ PhaseInv)
  BY Invariance, PhaseInit, PhaseStep, PTL DEF Spec

\* The abstract httpd of every session is untouched.
SameHttpd == \A s \in Sessions : HttpdView(child[s], csig[s])' = HttpdView(child[s], csig[s])

\* Only the abstract httpd of s changes, to v.
HttpdBecomes(s, v) ==
    /\ HttpdView(child[s], csig[s])' = v
    /\ \A t \in Sessions \ {s} : HttpdView(child[t], csig[t])' = HttpdView(child[t], csig[t])

\* No client receives or loses an ACK.
SameAcks ==
    \A c \in Sessions :
        /\ (cpc'[c] = "acked") <=> (cpc[c] = "acked")
        /\ cpc[c] = "acked" => ctarget'[c] = ctarget[c]

\* Steps that leave every httpd as it is do not change the abstract httpd.
LEMMA HttpdStutter == SameHttpd => httpdBar' = httpdBar
  BY DEF SameHttpd, httpdBar

\* A step that moves one httpd moves the abstract httpd of that session only.
LEMMA HttpdStep ==
  ASSUME NEW s \in Sessions, NEW v, HttpdBecomes(s, v)
  PROVE  httpdBar' = [httpdBar EXCEPT ![s] = v]
  BY DEF HttpdBecomes, httpdBar

\* Steps that neither give nor take back an ACK do not change the abstract set.
LEMMA AckStutter == SameAcks => ackedBar' = ackedBar
  <1> SUFFICES ASSUME SameAcks
               PROVE  ackedBar' = ackedBar
    OBVIOUS
  <1>1. {d \in Sessions : cpc'[d] = "acked"} = {d \in Sessions : cpc[d] = "acked"}
    BY DEF SameAcks
  <1>2. ackedBar' = {ctarget'[c] : c \in {d \in Sessions : cpc[d] = "acked"}}
    BY <1>1 DEF ackedBar
  <1>3. \A c \in {d \in Sessions : cpc[d] = "acked"} : ctarget'[c] = ctarget[c]
    BY DEF SameAcks
  <1> QED
    BY <1>2, <1>3 DEF ackedBar

\* A step that keeps the state file and the ACKs is an abstract step when it
\* leaves the abstract httpd alone or moves it forward.
LEMMA HttpdMove ==
  ASSUME NEW s \in Sessions, SameAcks, file'["state"] = file["state"],
         \/ SameHttpd
         \/ HttpdBecomes(s, "running") /\ HttpdView(child[s], csig[s]) = "absent"
         \/ HttpdBecomes(s, "doomed") /\ HttpdView(child[s], csig[s]) = "running"
         \/ HttpdBecomes(s, "gone") /\ HttpdView(child[s], csig[s]) # "gone"
  PROVE  [Promise!Next]_(Promise!lbsVars)
  <1>1. ackedBar' = ackedBar
    BY AckStutter
  <1>2. httpdBar[s] = HttpdView(child[s], csig[s])
    BY DEF httpdBar
  <1>3. CASE SameHttpd
    BY <1>1, <1>3, HttpdStutter DEF Promise!lbsVars
  <1>4. CASE HttpdBecomes(s, "running") /\ HttpdView(child[s], csig[s]) = "absent"
    <2>1. Promise!Launch(s)
      BY <1>1, <1>2, <1>4, HttpdStep DEF Promise!Launch
    <2> QED
      BY <2>1 DEF Promise!Next
  <1>5. CASE HttpdBecomes(s, "doomed") /\ HttpdView(child[s], csig[s]) = "running"
    <2>1. Promise!Doom(s)
      BY <1>1, <1>2, <1>5, HttpdStep DEF Promise!Doom
    <2> QED
      BY <2>1 DEF Promise!Next
  <1>6. CASE HttpdBecomes(s, "gone") /\ HttpdView(child[s], csig[s]) # "gone"
    <2>1. Promise!End(s)
      BY <1>1, <1>2, <1>6, HttpdStep DEF Promise!End
    <2> QED
      BY <2>1 DEF Promise!Next
  <1> QED
    BY <1>3, <1>4, <1>5, <1>6

\* Initial states of the supervisor are initial states of the promise.
LEMMA RefineInit == Init => Promise!Init
  <1> SUFFICES ASSUME Init
               PROVE  Promise!Init
    OBVIOUS
  <1>1. httpdBar = [s \in Sessions |-> "absent"]
    BY DEF Init, httpdBar, HttpdView
  <1>2. ackedBar = {}
    BY DEF Init, ackedBar
  <1> QED
    BY <1>1, <1>2 DEF Init, Promise!Init, Artifacts

\* Every step of the supervisor is a step of the promise or a stutter.
LEMMA RefineStep == IInv /\ PhaseInv /\ [Next]_vars => [Promise!Next]_(Promise!lbsVars)
  <1> SUFFICES ASSUME IInv, PhaseInv, [Next]_vars
               PROVE  [Promise!Next]_(Promise!lbsVars)
    OBVIOUS
  <1> DEFINE Goal == [Promise!Next]_(Promise!lbsVars)
  <1>0. ASSUME NEW s \in Sessions, SameAcks, file'["state"] = file["state"],
               \/ SameHttpd
               \/ HttpdBecomes(s, "running") /\ HttpdView(child[s], csig[s]) = "absent"
               \/ HttpdBecomes(s, "doomed") /\ HttpdView(child[s], csig[s]) = "running"
               \/ HttpdBecomes(s, "gone") /\ HttpdView(child[s], csig[s]) # "gone"
        PROVE  Goal
    BY <1>0, HttpdMove
  <1> HIDE DEF Goal
  <1> USE DEF IInv, TypeOK, ChildInv, FilesInv, ServingInv, ClientsInv, LiveStateKept, Holds,
              PhaseInv, BeforeExecPCs, PCs, LaunchPCs, SessionPCs, StopPCs, FinalPCs, Artifacts,
              SameHttpd, HttpdBecomes, SameAcks, HttpdView
  <1>1. CASE UNCHANGED vars
    <2>1. httpdBar' = httpdBar /\ ackedBar' = ackedBar
      BY <1>1 DEF httpdBar, ackedBar, vars, childVars, clientVars
    <2> QED
      BY <1>1, <2>1 DEF Goal, Promise!lbsVars, vars
  <1>2. ASSUME NEW s \in Sessions, SupervisorStep(s)
        PROVE  Goal
    <2>1. CASE ReadParent(s)
      BY <2>1, <1>0 DEF ReadParent, Go, Parent, childVars, clientVars, retireVars
    <2>2. CASE ArmKill(s)
      BY <2>2, <1>0 DEF ArmKill, Go, childVars, clientVars, retireVars
    <2>3. CASE CheckParent(s)
      BY <2>3, <1>0 DEF CheckParent, Die, Hangup, Waiting, retireVars
    <2>4. CASE Fork(s)
      BY <2>4, <1>0 DEF Fork, Die, Hangup, Waiting, retireVars
    <2>5. CASE PopenReturns(s)
      BY <2>5, <1>0 DEF PopenReturns, Go, supVars, childVars, clientVars, retireVars
    <2>6. CASE PopenFails(s)
      BY <2>6, <1>0 DEF PopenFails, Hangup, Waiting, retireVars
    <2>7. CASE RearmTerm(s)
      BY <2>7, <1>0 DEF RearmTerm, Go, childVars, clientVars, retireVars
    <2>8. CASE Recheck(s)
      BY <2>8, <1>0 DEF Recheck, CallStop, childVars, clientVars, retireVars
    <2>9. CASE Bind(s)
      BY <2>9, <1>0 DEF Bind, CallStop, childVars, clientVars, retireVars
    <2>10. CASE PublishState(s)
      <3>1. CASE file["state"] = None /\ file'["state"] = s
        <4>1. httpdBar' = httpdBar /\ ackedBar' = ackedBar
          BY <2>10, HttpdStutter, AckStutter
             DEF PublishState, Create, RemovalFails, CallStop, childVars, clientVars, retireVars
        <4>2. httpdBar[s] # "absent"
          BY <2>10 DEF PublishState, httpdBar
        <4>3. Promise!Publish(s)
          BY <3>1, <4>1, <4>2 DEF Promise!Publish
        <4> QED
          BY <4>3 DEF Goal, Promise!Next
      <3>2. CASE file' = file
        BY <2>10, <3>2, <1>0 DEF PublishState, Create, RemovalFails, CallStop, childVars, clientVars, retireVars
      <3> QED
        BY <2>10, <3>1, <3>2 DEF PublishState, Create
    <2>11. CASE WritePidOutput(s)
      BY <2>11, <1>0 DEF WritePidOutput, Create, RemovalFails, CallStop, childVars, clientVars, retireVars
    <2>12. CASE RestoreMask(s)
      BY <2>12, <1>0 DEF RestoreMask, Go, childVars, clientVars, retireVars
    <2>13. CASE SessionLoop(s)
      BY <2>13, <1>0 DEF SessionLoop, CallStop, clientVars, retireVars
    <2>14. CASE AcceptNone(s)
      BY <2>14, <1>0 DEF AcceptNone, Go, supVars, childVars, clientVars, retireVars
    <2>15. CASE SendTerm(s)
      BY <2>15, <1>0 DEF SendTerm, supVars, clientVars, retireVars
    <2>16. CASE ChildReaped(s)
      BY <2>16, <1>0 DEF ChildReaped, supVars, clientVars, retireVars
    <2>17. CASE TermTimeout(s)
      BY <2>17, <1>0 DEF TermTimeout, Go, supVars, clientVars, retireVars
    <2>18. CASE KillTimeout(s)
      BY <2>18, <1>0 DEF KillTimeout, CallStop, Die, Hangup, Waiting, retireVars
    <2>19. CASE Stopped(s)
      <3>1. CASE ret[s] = "ack" /\ cpc[peer[s]] = "queued"
        <4>1. httpdBar' = httpdBar /\ file' = file
          BY <2>19, <3>1, HttpdStutter DEF Stopped, CallStop, Die, retireVars
        <4>2. httpdBar[s] = "gone"
          BY <2>19 DEF Stopped, httpdBar
        <4>3. /\ peer[s] \in Sessions
              /\ ctarget' = ctarget /\ ctarget[peer[s]] = s
              /\ cpc' = [cpc EXCEPT ![peer[s]] = "acked"]
          BY <2>19, <3>1 DEF Stopped
        <4>4. ackedBar' = ackedBar \cup {s}
          BY <4>3 DEF ackedBar
        <4>5. Promise!Acknowledge(s)
          BY <4>1, <4>2, <4>4 DEF Promise!Acknowledge
        <4> QED
          BY <4>5 DEF Goal, Promise!Next
      <3>2. CASE ~(ret[s] = "ack" /\ cpc[peer[s]] = "queued")
        BY <2>19, <3>2, <1>0 DEF Stopped, CallStop, Die, Hangup, Waiting, retireVars
      <3> QED
        BY <3>1, <3>2
    <2>20. CASE CloseListener(s)
      BY <2>20, <1>0 DEF CloseListener, Go, Hangup, Waiting, supVars, childVars, retireVars
    <2>21. CASE CheckState(s)
      BY <2>21, <1>0 DEF CheckState, RemovalFails, Die, Hangup, Waiting, retireVars
    <2>22. CASE RemoveState(s)
      <3>1. CASE file' = [file EXCEPT !["state"] = None] /\ UNCHANGED <<csig, cpc>>
        <4>1. httpdBar' = httpdBar /\ ackedBar' = ackedBar
          BY <2>22, <3>1, HttpdStutter, AckStutter DEF RemoveState
        <4>2. httpdBar[s] \in {"doomed", "gone"}
          BY <2>22 DEF RemoveState, httpdBar
        <4>3. file["state"] = s /\ file'["state"] = None
          BY <2>22, <3>1 DEF RemoveState
        <4>4. Promise!Withdraw(s)
          BY <4>1, <4>2, <4>3 DEF Promise!Withdraw
        <4> QED
          BY <4>4 DEF Goal, Promise!Next
      <3>2. CASE file' = file /\ Die(s, "failed")
        BY <2>22, <3>2, <1>0 DEF RemoveState, Die, Hangup, Waiting
      <3> QED
        BY <2>22, <3>1, <3>2 DEF RemoveState
    <2>23. CASE CheckPid(s)
      BY <2>23, <1>0 DEF CheckPid, RemovalFails, Die, Hangup, Waiting, ExitStatus, retireVars
    <2>24. CASE RemovePid(s)
      BY <2>24, <1>0 DEF RemovePid, RemovalFails, Die, Hangup, Waiting, ExitStatus, retireVars
    <2>25. ASSUME NEW c \in Sessions, AcceptForeign(s, c)
           PROVE  Goal
      BY <2>25, <1>0 DEF AcceptForeign, Waiting, Parent, Go, supVars, childVars, retireVars
    <2>26. ASSUME NEW c \in Sessions, AcceptStop(s, c)
           PROVE  Goal
      BY <2>26, <1>0 DEF AcceptStop, Waiting, Parent, CallStop, childVars, clientVars, retireVars
    <2>27. ASSUME NEW c \in Sessions, AcceptError(s, c)
           PROVE  Goal
      BY <2>27, <1>0 DEF AcceptError, Waiting, Parent, CallStop, childVars, retireVars
    <2>28. QED
      BY <1>2, <2>1, <2>2, <2>3, <2>4, <2>5, <2>6, <2>7, <2>8, <2>9, <2>10, <2>11, <2>12, <2>13, <2>14, <2>15, <2>16, <2>17, <2>18, <2>19, <2>20, <2>21, <2>22, <2>23, <2>24, <2>25, <2>26, <2>27
         DEF SupervisorStep, Accept
  <1>3. ASSUME NEW s \in Sessions, KernelStep(s) \/ ChildExit(s)
        PROVE  Goal
    <2>1. CASE ChildArm(s)
      BY <2>1, <1>0 DEF ChildArm, supVars, clientVars, retireVars
    <2>2. CASE ChildCheck(s)
      BY <2>2, <1>0 DEF ChildCheck, supVars, clientVars, retireVars
    <2>3. CASE ChildKilled(s)
      BY <2>3, <1>0 DEF ChildKilled, supVars, clientVars, retireVars
    <2>4. CASE InitReaps(s)
      BY <2>4, <1>0 DEF InitReaps, supVars, clientVars, retireVars
    <2>5. CASE ChildExit(s)
      BY <2>5, <1>0 DEF ChildExit, supVars, clientVars, retireVars
    <2>6. QED
      BY <1>3, <2>1, <2>2, <2>3, <2>4, <2>5 DEF KernelStep
  <1>4. ASSUME NEW s \in Sessions, RunnerDies(s) \/ Signal(s) \/ SupervisorKilled(s) \/ Connect(s) \/ ClientGone(s)
        PROVE  Goal
    <2>1. CASE RunnerDies(s)
      BY <2>1, <1>0 DEF RunnerDies, Deliver, Die, Hangup, Waiting, retireVars
    <2>2. CASE Signal(s)
      BY <2>2, <1>0 DEF Signal, Deliver, Die, Hangup, Waiting, retireVars
    <2>3. CASE SupervisorKilled(s)
      BY <2>3, <1>0 DEF SupervisorKilled, Die, Hangup, Waiting, retireVars
    <2>4. CASE Connect(s)
      BY <2>4, <1>0 DEF Connect, Listening, supVars, childVars, retireVars
    <2>5. CASE ClientGone(s)
      BY <2>5, <1>0 DEF ClientGone, supVars, childVars, retireVars
    <2>6. QED
      BY <1>4, <2>1, <2>2, <2>3, <2>4, <2>5
  <1>5. ASSUME NEW s \in Sessions, RetireStep(s)
        PROVE  Goal
    <2>1. CASE RetireInspect(s)
      BY <2>1, <1>0 DEF RetireInspect, supVars, childVars, clientVars
    <2>2. CASE RetireCheckState(s)
      BY <2>2, <1>0 DEF RetireCheckState, supVars, childVars, clientVars
    <2>3. CASE RetireRemoveState(s)
      <3>1. httpdBar' = httpdBar /\ ackedBar' = ackedBar
        BY <2>3, HttpdStutter, AckStutter
           DEF RetireRemoveState, supVars, childVars, clientVars
      <3>2. httpdBar[s] = "gone"
        BY <2>3 DEF RetireRemoveState, httpdBar
      <3>3. file["state"] = s /\ file'["state"] = None
        BY <2>3 DEF RetireRemoveState
      <3>4. Promise!Withdraw(s)
        BY <3>1, <3>2, <3>3 DEF Promise!Withdraw
      <3> QED
        BY <3>4 DEF Goal, Promise!Next
    <2>4. CASE RetireCheckPid(s)
      BY <2>4, <1>0 DEF RetireCheckPid, supVars, childVars, clientVars
    <2>5. CASE RetireRemovePid(s)
      BY <2>5, <1>0 DEF RetireRemovePid, supVars, childVars, clientVars
    <2>6. CASE RetireFails(s)
      BY <2>6, <1>0 DEF RetireFails, supVars, childVars, clientVars
    <2>7. QED
      BY <1>5, <2>1, <2>2, <2>3, <2>4, <2>5, <2>6 DEF RetireStep
  <1>6. ASSUME Next
        PROVE  Goal
    <2>1. PICK s \in Sessions :
              \/ SupervisorStep(s) \/ KernelStep(s) \/ ChildExit(s)
              \/ RunnerDies(s) \/ Signal(s) \/ SupervisorKilled(s)
              \/ Connect(s) \/ ClientGone(s) \/ RetireStep(s)
      BY <1>6 DEF Next
    <2> QED
      BY <2>1, <1>2, <1>3, <1>4, <1>5
  <1> QED
    BY <1>1, <1>6 DEF Goal

\* The supervisor implements LaunchBoundSession for every set of sessions: one
\* published session at a time, withdrawn only when its httpd is gone or being
\* killed, acknowledged only when it is gone.
THEOREM Refinement == Spec => ImplementsPromise
  <1>1. Spec => Promise!Init
    BY RefineInit DEF Spec
  <1>2. Spec => [][Promise!Next]_(Promise!lbsVars)
    BY PhaseInvariance, RefineStep, PTL DEF Spec
  <1> QED
    BY <1>1, <1>2 DEF ImplementsPromise, Promise!Spec

-----------------------------------------------------------------------------
(***************************************************************************)
(* The sibling of this guard: LighttpdSession, the session guard and the   *)
(* stock lifecycle script of Lighttpd, whose constants and variables are   *)
(* declared here.  The lemmas hold for every number of PIDs, forks,        *)
(* unrelated processes and confirming rescans.                             *)
(***************************************************************************)
CONSTANTS Pids, Leader, TermConfirmations, MaxForks, MaxForeign, SelfExits, ForeignKinds, SessionExe
VARIABLES proc, stage, record, r, g, forks, foreign

Task == INSTANCE LighttpdSession

\* The steps, phases and results of a guard command, and its whole state.
GuardPCs == {"none", "record", "list", "read", "leader", "anchor", "next", "open", "snap",
             "verify", "current", "send", "fallback", "signalled", "uopen", "ufields", "uterm",
             "ukill", "uwait", "uwaitKill", "done"}
Phases == {"none", "init", "term", "termwait", "kill", "killwait", "absent"}
Commands == {"none", "cleanup", "unregistered", "absent"}
GuardCodes == {"none", "ok", "fail"}
Guards ==
  [cmd : Commands, ph : Phases, pc : GuardPCs, list : SUBSET Pids, todo : SUBSET Pids,
   pid : Pids, fd : Nat, seen : Nat, empty : Nat, late : BOOLEAN, err : BOOLEAN,
   excl : BOOLEAN, hitLeader : BOOLEAN, surprise : BOOLEAN, killed : BOOLEAN,
   code : GuardCodes]
ScriptPCs == Task!Starting \cup {"work", "cleanup", "await", "absent", "awaitAbsent", "ending", "exit"}
Scripts == [pc : ScriptPCs, session : BOOLEAN, start : Nat, failed : BOOLEAN, base : Nat,
            scans : Nat, code : {"none", "zero", "fail", "killed"}]

ProcOK == proc \in [Pids -> Task!Procs]
RestOK ==
  /\ stage \in Task!Stages /\ record \in {"none", "empty", "written"}
  /\ forks \in 0 .. MaxForks /\ foreign \in 0 .. MaxForeign

\* The first occupant of the leader's PID is the leader, every other process of
\* the task is in its session, and no unrelated process is, but for one that
\* has taken the leader's PID itself.
OwnInv ==
  /\ \A p \in Pids : proc[p].own = TRUE => Task!Exists(p) /\ (p # Leader => proc[p].sess = TRUE)
  /\ \A p \in Pids : Task!Exists(p) /\ p # Leader /\ proc[p].sess = TRUE => proc[p].own = TRUE
  /\ \A p \in Pids : Task!Live(p) => proc[p].sig # "kill"
  /\ Task!Exists(Leader) => (proc[Leader].own = TRUE <=> proc[Leader].gen = 1)
\* How far the leader's program is, and what that says of the leader.
LeaderInv ==
  /\ stage = "unborn" => \A p \in Pids : proc[p].own = FALSE
  /\ stage = "unborn" => proc[Leader].st = "none" /\ proc[Leader].gen = 0
  /\ stage # "unborn" => proc[Leader].gen >= 1
  /\ r.pc = "start" => stage = "unborn"
  /\ stage \in {"session", "created", "registered", "host"} /\ proc[Leader].own = TRUE
       => proc[Leader].sess = TRUE
  /\ record = "written" => stage \in {"registered", "host"}

\* A pidfd that has been verified stands for a process of the task, or for one
\* that has gone.
VerifiedFd(p, start) ==
  /\ start <= proc[p].gen
  /\ Task!Exists(p) /\ proc[p].gen = start => proc[p].own = TRUE
UPCs == {"ufields", "uterm", "ukill", "uwait", "uwaitKill"}
FdInv ==
  /\ g.pc = "send" => VerifiedFd(g.pid, g.fd)
  /\ g.pc \in UPCs => VerifiedFd(Leader, g.fd)
-----------------------------------------------------------------------------
(* What a step does to the processes *)

\* Nobody is born or reaped; whoever still lives may have been sent a TERM, if
\* he is of the task.
Calm(x) ==
  /\ proc'[x].gen = proc[x].gen /\ proc'[x].own = proc[x].own /\ proc'[x].sess = proc[x].sess
  /\ Task!Exists(x)' <=> Task!Exists(x)
  /\ Task!Live(x)' => Task!Live(x) /\ proc'[x].sig \in {proc[x].sig, "term"}
  /\ proc'[x].sig = proc[x].sig \/ proc[x].own = TRUE
CalmAll == ProcOK' /\ \A x \in Pids : Calm(x)

\* A step that leaves the processes alone is calm.
LEMMA SameCalm == ASSUME ProcOK, proc' = proc PROVE CalmAll
  BY DEF ProcOK, CalmAll, Calm, Task!Exists, Task!Live

\* So is the exit of a process that is not yet reaped.
LEMMA DeadCalm ==
  ASSUME ProcOK, NEW p \in Pids, Task!Live(p), proc' = Task!Dead(p)
  PROVE  CalmAll
  <1>1. ProcOK'
    BY DEF ProcOK, Task!Dead, Task!Procs
  <1>2. \A x \in Pids \ {p} : proc'[x] = proc[x]
    BY DEF ProcOK, Task!Dead
  <1>3. proc'[p] = [proc[p] EXCEPT !.st = "zombie"] /\ proc[p] \in Task!Procs
    BY DEF ProcOK, Task!Dead
  <1>4. Calm(p)
    BY <1>3 DEF Calm, Task!Procs, Task!Exists, Task!Live
  <1>5. \A x \in Pids \ {p} : Calm(x)
    BY <1>2 DEF Calm, Task!Exists, Task!Live
  <1> QED BY <1>1, <1>4, <1>5 DEF CalmAll

LEMMA PutFacts ==
  ASSUME ProcOK, NEW p \in Pids, NEW v \in Task!Procs, proc' = [proc EXCEPT ![p] = v]
  PROVE  ProcOK' /\ proc'[p] = v /\ \A x \in Pids \ {p} : proc'[x] = proc[x]
  BY DEF ProcOK

\* What a signal does to a process: KILL ends it, TERM the leader before its host.
LEMMA SignalledFacts ==
  ASSUME ProcOK, NEW p \in Pids, NEW s \in {"term", "kill"}
  PROVE  /\ Task!Signalled(p, s) \in Task!Procs
         /\ Task!Signalled(p, s).gen = proc[p].gen
         /\ Task!Signalled(p, s).own = proc[p].own
         /\ Task!Signalled(p, s).sess = proc[p].sess
         /\ Task!Signalled(p, s).sig = s
         /\ Task!Signalled(p, s).st \in {"zombie", proc[p].st}
         /\ s = "kill" => Task!Signalled(p, s).st = "zombie"
         /\ p = Leader /\ proc[p].own = TRUE /\ stage # "host" => Task!Signalled(p, s).st = "zombie"
  <1>1. proc[p] \in Task!Procs
    BY DEF ProcOK
  <1>2. [proc[p] EXCEPT !.sig = s] \in Task!Procs
    BY <1>1 DEF Task!Procs
  <1>3. [proc[p] EXCEPT !.st = "zombie", !.sig = s] \in Task!Procs
    BY <1>1 DEF Task!Procs
  <1>4. Task!Signalled(p, s) \in Task!Procs
    BY <1>2, <1>3 DEF Task!Signalled
  <1> QED BY <1>1, <1>4 DEF Task!Signalled, Task!Procs

\* A signal to a process of the task is calm.
LEMMA SignalCalm ==
  ASSUME ProcOK, NEW p \in Pids, Task!Live(p), proc[p].own = TRUE, NEW s \in {"term", "kill"},
         proc' = [proc EXCEPT ![p] = Task!Signalled(p, s)]
  PROVE  /\ CalmAll
         /\ Task!Live(p)' => proc'[p].sig = s /\ (p = Leader => stage = "host")
  <1> DEFINE v == Task!Signalled(p, s)
  <1>1. /\ v \in Task!Procs /\ v.gen = proc[p].gen /\ v.own = proc[p].own /\ v.sess = proc[p].sess
        /\ v.sig = s /\ v.st \in {"zombie", proc[p].st}
        /\ s = "kill" => v.st = "zombie"
        /\ p = Leader /\ stage # "host" => v.st = "zombie"
    BY SignalledFacts
  <1> HIDE DEF v
  <1>2. ProcOK' /\ proc'[p] = v /\ \A x \in Pids \ {p} : proc'[x] = proc[x]
    BY <1>1, PutFacts DEF v
  <1>3. Calm(p)
    BY <1>1, <1>2 DEF Calm, Task!Exists, Task!Live
  <1>4. \A x \in Pids \ {p} : Calm(x)
    BY <1>2 DEF Calm, Task!Exists, Task!Live
  <1>5. CalmAll
    BY <1>2, <1>3, <1>4 DEF CalmAll
  <1> QED BY <1>1, <1>2, <1>5 DEF Task!Live

\* A PID with a new occupant.
LEMMA BornFacts ==
  ASSUME ProcOK, NEW p \in Pids, NEW o \in BOOLEAN, NEW s \in BOOLEAN,
         proc' = [proc EXCEPT ![p] = Task!Occupant(p, o, s)]
  PROVE  /\ ProcOK' /\ proc'[p].st = "live" /\ proc'[p].gen = proc[p].gen + 1
         /\ proc'[p].own = o /\ proc'[p].sess = s /\ proc'[p].sig = "none"
         /\ \A x \in Pids \ {p} : proc'[x] = proc[x]
  <1>1. Task!Occupant(p, o, s) \in Task!Procs
    BY DEF ProcOK, Task!Occupant, Task!Procs
  <1>2. ProcOK' /\ proc'[p] = Task!Occupant(p, o, s) /\ \A x \in Pids \ {p} : proc'[x] = proc[x]
    BY <1>1, PutFacts
  <1> QED BY <1>2 DEF Task!Occupant

\* A PID whose occupant has been reaped.
LEMMA ReapFacts ==
  ASSUME ProcOK, NEW p \in Pids, Task!Reap(p)
  PROVE  /\ ProcOK' /\ proc'[p].st = "none" /\ proc'[p].gen = proc[p].gen
         /\ proc'[p].own = FALSE /\ proc'[p].sess = FALSE /\ proc'[p].sig = "none"
         /\ \A x \in Pids \ {p} : proc'[x] = proc[x]
  BY DEF ProcOK, Task!Reap, Task!Procs
-----------------------------------------------------------------------------
(* The actions that bring nobody to life and take nobody away *)

World == <<stage, record, forks, foreign>>

LEMMA LeaderFailsCalm ==
  ASSUME Task!SessionAssumption, ProcOK, Task!Ours(Leader), Task!LeaderFails
  PROVE  CalmAll
  BY DeadCalm DEF Task!SessionAssumption, Task!Ours, Task!LeaderFails

LEMMA ExitsCalm ==
  ASSUME ProcOK, NEW p \in Pids, Task!ProcessExits(p) \/ Task!ForeignExits(p)
  PROVE  CalmAll /\ UNCHANGED <<World, r, g>>
  BY DeadCalm DEF Task!ProcessExits, Task!ForeignExits, Task!Runs, Task!Ours, World

\* The signals of the guard reach processes of the task only.
LEMMA SendCalm ==
  ASSUME ProcOK, g \in Guards, FdInv, Task!SendSignal
  PROVE  CalmAll /\ UNCHANGED <<World, r>>
  <1> DEFINE p == g.pid
  <1>1. p \in Pids /\ Task!Sig \in {"term", "kill"}
    BY DEF Guards, Task!Sig
  <1>2. UNCHANGED <<World, r>>
    BY DEF Task!SendSignal, World
  <1>3. CASE Task!Exists(p) /\ proc[p].gen = g.fd /\ Task!Live(p)
    <2>1. proc[p].own = TRUE
      BY <1>3 DEF FdInv, VerifiedFd, Task!SendSignal
    <2>2. proc' = [proc EXCEPT ![p] = Task!Signalled(p, Task!Sig)]
      BY <1>3 DEF Task!SendSignal
    <2> QED BY <1>1, <1>2, <1>3, <2>1, <2>2, SignalCalm
  <1>4. CASE ~(Task!Exists(p) /\ proc[p].gen = g.fd /\ Task!Live(p))
    <2>1. proc' = proc
      BY <1>4 DEF Task!SendSignal
    <2> QED BY <1>2, <2>1, SameCalm
  <1> QED BY <1>3, <1>4

LEMMA SignalLeaderCalm ==
  ASSUME Task!SessionAssumption, ProcOK, Task!SignalLeader
  PROVE  CalmAll /\ UNCHANGED <<World, r>>
  <1>1. Leader \in Pids /\ Task!Sig \in {"term", "kill"}
    BY DEF Task!SessionAssumption, Task!Sig
  <1>2. UNCHANGED <<World, r>>
    BY DEF Task!SignalLeader, World
  <1>3. CASE Task!Identity(Task!LeaderStart, "host")
    <2>1. Task!Live(Leader) /\ Task!Exe = "host"
      BY <1>3 DEF Task!Identity
    <2>2. proc[Leader].own
      BY <2>1 DEF Task!Exe
    <2>3. proc[Leader].own = TRUE
      BY <2>2, <1>1 DEF ProcOK, Task!Procs
    <2>4. proc' = [proc EXCEPT ![Leader] = Task!Signalled(Leader, Task!Sig)]
      BY <1>3 DEF Task!SignalLeader
    <2> QED BY <1>1, <1>2, <2>1, <2>3, <2>4, SignalCalm
  <1>4. CASE ~Task!Identity(Task!LeaderStart, "host")
    <2>1. proc' = proc
      BY <1>4 DEF Task!SignalLeader
    <2> QED BY <1>2, <2>1, SameCalm
  <1> QED BY <1>3, <1>4

LEMMA SignalUnregisteredCalm ==
  ASSUME Task!SessionAssumption, ProcOK, FdInv, Task!SignalUnregistered
  PROVE  CalmAll /\ UNCHANGED <<World, r>>
  <1> DEFINE s == IF g.pc = "uterm" THEN "term" ELSE "kill"
  <1>1. Leader \in Pids /\ s \in {"term", "kill"}
    BY DEF Task!SessionAssumption
  <1>2. UNCHANGED <<World, r>>
    BY DEF Task!SignalUnregistered, World
  <1>3. CASE Task!Live(Leader) /\ proc[Leader].gen = g.fd
    <2>1. g.pc \in UPCs
      BY DEF Task!SignalUnregistered, UPCs
    <2>2. proc[Leader].own = TRUE
      BY <1>3, <2>1 DEF FdInv, VerifiedFd, Task!Live, Task!Exists
    <2>3. proc' = [proc EXCEPT ![Leader] = Task!Signalled(Leader, s)]
      BY <1>3 DEF Task!SignalUnregistered
    <2> QED BY <1>1, <1>2, <1>3, <2>2, <2>3, SignalCalm
  <1>4. CASE ~(Task!Live(Leader) /\ proc[Leader].gen = g.fd)
    <2>1. proc' = proc
      BY <1>4 DEF Task!SignalUnregistered
    <2> QED BY <1>2, <2>1, SameCalm
  <1> QED BY <1>3, <1>4

\* The other guard actions leave the processes alone.
QuietGuard ==
  \/ Task!Tick \/ Task!ReadRecord \/ Task!ListProc \/ Task!ReadEntries \/ Task!ReadLeader
  \/ Task!AnchorLeader \/ Task!NextMember \/ Task!OpenPidfd \/ Task!FirstSnapshot
  \/ Task!SecondSnapshot \/ Task!MemberIsCurrent \/ Task!AfterSignals
  \/ Task!OpenUnregistered \/ Task!CheckUnregistered \/ Task!AwaitUnregistered

LEMMA QuietGuardCalm ==
  ASSUME ProcOK, QuietGuard
  PROVE  CalmAll /\ UNCHANGED <<World, r>>
  <1>1. Task!GuardOnly
    BY DEF QuietGuard, Task!Tick, Task!ReadRecord, Task!ListProc, Task!ReadEntries,
       Task!ReadLeader, Task!AnchorLeader,
       Task!NextMember, Task!OpenPidfd, Task!FirstSnapshot, Task!SecondSnapshot,
         Task!MemberIsCurrent, Task!AfterSignals,
       Task!OpenUnregistered, Task!CheckUnregistered, Task!AwaitUnregistered
  <1> QED BY <1>1, SameCalm DEF Task!GuardOnly, World

\* No step of a guard command is anything but calm.
LEMMA GuardCalm ==
  ASSUME Task!SessionAssumption, ProcOK, g \in Guards, FdInv, Task!GuardStep \/ Task!Tick
  PROVE  CalmAll /\ UNCHANGED <<World, r>>
  BY SendCalm, SignalLeaderCalm, SignalUnregisteredCalm, QuietGuardCalm DEF Task!GuardStep,
     QuietGuard

QuietScript ==
  \/ Task!NotePid \/ Task!NoteSession \/ Task!NoteStart \/ Task!EnterCleanup
  \/ Task!RunCleanup \/ Task!AfterCleanup \/ Task!RunAbsent
  \/ Task!AfterAbsent

LEMMA QuietScriptCalm ==
  ASSUME ProcOK, QuietScript
  PROVE  CalmAll /\ UNCHANGED World
  <1>1. UNCHANGED proc /\ UNCHANGED World
    BY DEF QuietScript, Task!NotePid, Task!NoteSession, Task!NoteStart, Task!EnterCleanup,
       Task!RunCleanup, Task!AfterCleanup,
       Task!RunAbsent, Task!AfterAbsent, Task!ScriptOnly, World
  <1> QED BY <1>1, SameCalm

\* The end of the script: what SIGTERM does to the leader that has asked for it.
LEMMA ExitCalm ==
  ASSUME Task!SessionAssumption, ProcOK, NEW code, Task!ScriptExits(code)
  PROVE  /\ CalmAll
         /\ Task!Ours(Leader)' =>
               stage \notin Task!Bound \/ (stage = "host" /\ proc'[Leader].sig = "term")
  <1>1. Leader \in Pids
    BY DEF Task!SessionAssumption
  <1>2. CASE stage \in Task!Bound /\ Task!Ours(Leader)
    <2>1. Task!Live(Leader) /\ proc[Leader].own = TRUE
      BY <1>1, <1>2 DEF Task!Ours, ProcOK, Task!Procs
    <2>2. proc' = [proc EXCEPT ![Leader] = Task!Signalled(Leader, "term")]
      BY <1>2 DEF Task!ScriptExits
    <2>3. CalmAll /\ (Task!Live(Leader)' => proc'[Leader].sig = "term" /\ stage = "host")
      BY <1>1, <2>1, <2>2, SignalCalm
    <2> QED BY <2>3 DEF Task!Ours
  <1>3. CASE ~(stage \in Task!Bound /\ Task!Ours(Leader))
    <2>1. proc' = proc
      BY <1>3 DEF Task!ScriptExits
    <2>2. CalmAll
      BY <2>1, SameCalm
    <2>3. Task!Ours(Leader)' => Task!Ours(Leader)
      BY <2>1 DEF Task!Ours, Task!Live
    <2> QED BY <1>3, <2>2, <2>3
  <1> QED BY <1>2, <1>3
-----------------------------------------------------------------------------
(* The processes of the task *)

LEMMA LeaderPid ==
  ASSUME Task!SessionAssumption
  PROVE  Leader \in Pids
  BY DEF Task!SessionAssumption

\* A calm step keeps who is of the task, and who has been signalled.
LEMMA OwnCalm ==
  ASSUME Task!SessionAssumption, ProcOK, OwnInv, Task!OnlyOwnSignalled, CalmAll
  PROVE  OwnInv' /\ Task!OnlyOwnSignalled'
  <1>1. Task!OnlyOwnSignalled'
    <2> SUFFICES ASSUME NEW p \in Pids, proc'[p].sig # "none" PROVE proc'[p].own
      BY DEF Task!OnlyOwnSignalled
    <2>1. Calm(p) /\ (proc[p].sig # "none" => proc[p].own)
      BY DEF CalmAll, Task!OnlyOwnSignalled
    <2> QED BY <2>1 DEF Calm
  <1>2. OwnInv'
    BY LeaderPid DEF OwnInv, CalmAll, Calm
  <1> QED BY <1>1, <1>2

LEMMA OwnSession ==
  ASSUME Task!SessionAssumption, ProcOK, OwnInv, Task!OnlyOwnSignalled, Task!StartSession
  PROVE  ProcOK' /\ OwnInv' /\ Task!OnlyOwnSignalled'
  <1>1. CASE Task!LeaderFails
    <2>1. CalmAll
      BY <1>1, LeaderFailsCalm DEF Task!StartSession, Task!LeaderAt
    <2> QED BY <2>1, OwnCalm DEF CalmAll
  <1>2. CASE proc' = [proc EXCEPT ![Leader].sess = TRUE]
    <2>1. Task!Exists(Leader) /\ Leader \in Pids
      BY LeaderPid DEF Task!StartSession, Task!LeaderAt, Task!Ours, Task!Live, Task!Exists
    <2>2. ProcOK'
      BY <1>2, <2>1 DEF ProcOK, Task!Procs
    <2>3. /\ \A x \in Pids \ {Leader} : proc'[x] = proc[x]
          /\ proc'[Leader] = [proc[Leader] EXCEPT !.sess = TRUE] /\ proc[Leader] \in Task!Procs
      BY <1>2, <2>1 DEF ProcOK
    <2>4. \A x \in Pids : /\ proc'[x].st = proc[x].st /\ proc'[x].gen = proc[x].gen
                          /\ proc'[x].own = proc[x].own /\ proc'[x].sig = proc[x].sig
      BY <2>3 DEF Task!Procs
    <2>5. \A x \in Pids \ {Leader} : proc'[x].sess = proc[x].sess
      BY <2>3
    <2>6. OwnInv'
      BY <2>1, <2>4, <2>5 DEF OwnInv, Task!Exists, Task!Live
    <2>7. Task!OnlyOwnSignalled'
      BY <2>4 DEF Task!OnlyOwnSignalled
    <2> QED BY <2>2, <2>6, <2>7
  <1> QED BY <1>1, <1>2 DEF Task!StartSession

LEMMA OwnReap ==
  ASSUME Task!SessionAssumption, ProcOK, OwnInv, Task!OnlyOwnSignalled, NEW p \in Pids, Task!Reap(p)
  PROVE  ProcOK' /\ OwnInv' /\ Task!OnlyOwnSignalled'
  <1>1. /\ ProcOK' /\ proc'[p].st = "none" /\ proc'[p].gen = proc[p].gen
        /\ proc'[p].own = FALSE /\ proc'[p].sess = FALSE /\ proc'[p].sig = "none"
        /\ \A x \in Pids \ {p} : proc'[x] = proc[x]
    BY ReapFacts
  <1>2. OwnInv'
    BY <1>1, LeaderPid DEF OwnInv, Task!Exists, Task!Live
  <1>3. Task!OnlyOwnSignalled'
    BY <1>1 DEF Task!OnlyOwnSignalled
  <1> QED BY <1>1, <1>2, <1>3

\* A fork never gets the leader's PID: its session keeps the PID from being free.
LEMMA OwnFork ==
  ASSUME Task!SessionAssumption, ProcOK, OwnInv, Task!OnlyOwnSignalled, NEW p \in Pids,
         NEW q \in Pids, Task!ForkMember(p, q)
  PROVE  /\ ProcOK' /\ OwnInv' /\ Task!OnlyOwnSignalled'
         /\ q # Leader /\ \A x \in Pids \ {q} : proc'[x] = proc[x]
  <1>1. /\ ProcOK' /\ proc'[q].st = "live" /\ proc'[q].gen = proc[q].gen + 1
        /\ proc'[q].own = TRUE /\ proc'[q].sess = TRUE /\ proc'[q].sig = "none"
        /\ \A x \in Pids \ {q} : proc'[x] = proc[x]
    BY BornFacts DEF Task!ForkMember
  <1>2. Task!Exists(p) /\ proc[p].own = TRUE /\ ~Task!Exists(q) /\ p # q
    BY DEF Task!ForkMember, Task!Runs, Task!Ours, Task!Live, Task!Exists, Task!PidFree, ProcOK,
       Task!Procs
  <1>3. q # Leader
    <2>1. proc[p].sess = TRUE \/ p = Leader
      BY <1>2 DEF OwnInv
    <2> QED BY <1>2, <2>1 DEF Task!ForkMember, Task!PidFree
  <1>4. OwnInv'
    BY <1>1, <1>3, LeaderPid DEF OwnInv, Task!Exists, Task!Live
  <1>5. Task!OnlyOwnSignalled'
    BY <1>1 DEF Task!OnlyOwnSignalled
  <1> QED BY <1>1, <1>3, <1>4, <1>5

\* An unrelated process may take any free PID, but it is never of the task.
LEMMA OwnForeign ==
  ASSUME Task!SessionAssumption, "child" \notin ForeignKinds, ProcOK, OwnInv, LeaderInv,
         Task!OnlyOwnSignalled, NEW p \in Pids,
         NEW kind \in ForeignKinds, Task!ForeignAppears(p, kind)
  PROVE  /\ ProcOK' /\ OwnInv' /\ Task!OnlyOwnSignalled' /\ ~Task!Exists(p)
         /\ proc'[p].own = FALSE /\ proc'[p].gen = proc[p].gen + 1
         /\ \A x \in Pids \ {p} : proc'[x] = proc[x]
  <1> DEFINE s == kind # "plain"
  <1>1. /\ ProcOK' /\ proc'[p].st = "live" /\ proc'[p].gen = proc[p].gen + 1
        /\ proc'[p].own = FALSE /\ proc'[p].sess = s /\ proc'[p].sig = "none"
        /\ \A x \in Pids \ {p} : proc'[x] = proc[x]
    BY BornFacts DEF Task!ForeignAppears
  <1>2. ~Task!Exists(p) /\ (p # Leader => s = FALSE) /\ (p = Leader => stage # "unborn")
    BY DEF Task!ForeignAppears, Task!PidFree, Task!SessionAssumption
  <1> HIDE DEF s
  <1>3. p = Leader => proc'[p].gen # 1
    BY <1>1, <1>2 DEF LeaderInv, ProcOK, Task!Procs
  <1>4. OwnInv'
    BY <1>1, <1>2, <1>3, LeaderPid DEF OwnInv, Task!Exists, Task!Live
  <1>5. Task!OnlyOwnSignalled'
    BY <1>1 DEF Task!OnlyOwnSignalled
  <1> QED BY <1>1, <1>2, <1>4, <1>5

\* The leader is the first occupant of its PID.
LEMMA OwnLeader ==
  ASSUME Task!SessionAssumption, ProcOK, OwnInv, LeaderInv, Task!OnlyOwnSignalled, Task!ForkLeader
  PROVE  /\ ProcOK' /\ OwnInv' /\ Task!OnlyOwnSignalled' /\ proc'[Leader].gen = 1
         /\ ~Task!Exists(Leader) /\ proc[Leader].gen = 0
  <1>1. /\ ProcOK' /\ proc'[Leader].st = "live" /\ proc'[Leader].gen = proc[Leader].gen + 1
        /\ proc'[Leader].own = TRUE /\ proc'[Leader].sess = FALSE /\ proc'[Leader].sig = "none"
        /\ \A x \in Pids \ {Leader} : proc'[x] = proc[x]
    BY BornFacts, LeaderPid DEF Task!ForkLeader
  <1>2. proc[Leader].gen = 0 /\ ~Task!Exists(Leader)
    BY DEF Task!ForkLeader, LeaderInv, Task!Exists
  <1>3. OwnInv'
    BY <1>1, <1>2, LeaderPid DEF OwnInv, Task!Exists, Task!Live
  <1>4. Task!OnlyOwnSignalled'
    BY <1>1 DEF Task!OnlyOwnSignalled
  <1> QED BY <1>1, <1>2, <1>3, <1>4
-----------------------------------------------------------------------------
(* The leader's program *)

LEMMA OursFacts ==
  ASSUME ProcOK, NEW p \in Pids
  PROVE  Task!Ours(p) <=> Task!Live(p) /\ proc[p].own = TRUE
  BY DEF ProcOK, Task!Procs, Task!Ours

LEMMA OursFactsNext ==
  ASSUME ProcOK', NEW p \in Pids
  PROVE  Task!Ours(p)' <=> Task!Live(p)' /\ proc'[p].own = TRUE
  BY DEF ProcOK, Task!Procs, Task!Ours

\* A calm step of somebody else keeps LeaderInv.
LEMMA LeaderCalm ==
  ASSUME Task!SessionAssumption, ProcOK, LeaderInv, CalmAll, UNCHANGED <<stage, record>>,
         r'.pc = "start" => r.pc = "start"
  PROVE  LeaderInv'
  <1>1. \A x \in Pids : proc'[x].own = proc[x].own
    BY DEF CalmAll, Calm
  <1>2. /\ proc'[Leader].gen = proc[Leader].gen /\ proc'[Leader].sess = proc[Leader].sess
        /\ proc'[Leader].st = "none" <=> proc[Leader].st = "none"
    BY LeaderPid DEF CalmAll, Calm, Task!Exists
  <1> QED BY <1>1, <1>2, LeaderPid DEF LeaderInv

\* Every step of the leader's program keeps LeaderInv, and only setsid is not calm.
LEMMA LeaderMoves ==
  ASSUME Task!SessionAssumption, ProcOK, LeaderInv, Task!LeaderStep
  PROVE  LeaderInv' /\ (CalmAll \/ Task!StartSession)
  <1>1. stage # "unborn" /\ r.pc # "start" /\ UNCHANGED r /\ Task!Ours(Leader)
    BY DEF Task!LeaderStep, Task!CheckParent, Task!BindDeathSignal, Task!StartSession,
       Task!CreateRecord, Task!WriteRecord,
       Task!ExecHost, Task!LeaderAt, LeaderInv
  <1>2. CASE Task!LeaderFails /\ UNCHANGED record
    <2>1. CalmAll
      BY <1>1, <1>2, LeaderFailsCalm
    <2> QED BY <1>1, <1>2, <2>1, LeaderCalm DEF Task!LeaderFails
  <1>3. CASE UNCHANGED proc /\ ~Task!LeaderFails /\ ~Task!StartSession
    <2>1. CalmAll
      BY <1>3, SameCalm
    <2>2. \/ /\ stage \in {"boot", "checked"} /\ stage' \in {"checked", "bound"}
             /\ UNCHANGED record
          \/ stage = "session" /\ stage' = "created" /\ record' = "empty"
          \/ stage = "created" /\ stage' = "registered"
          \/ stage = "registered" /\ stage' = "host"
      BY <1>3 DEF Task!LeaderStep, Task!CheckParent, Task!BindDeathSignal, Task!CreateRecord,
         Task!WriteRecord, Task!ExecHost,
         Task!LeaderAt
    <2>3. LeaderInv'
      BY <1>1, <1>3, <2>2 DEF LeaderInv
    <2> QED BY <2>1, <2>3
  <1>4. CASE Task!StartSession /\ ~Task!LeaderFails
    <2>1. /\ stage = "bound" /\ stage' = "session" /\ proc' = [proc EXCEPT ![Leader].sess = TRUE]
          /\ UNCHANGED <<record, r>>
      BY <1>4 DEF Task!StartSession, Task!LeaderAt
    <2>2. proc'[Leader].sess = TRUE /\ proc'[Leader].gen = proc[Leader].gen
      BY <2>1, LeaderPid DEF ProcOK, Task!Procs
    <2>3. LeaderInv'
      BY <1>1, <2>1, <2>2 DEF LeaderInv
    <2> QED BY <1>4, <2>3
  <1>5. Task!LeaderFails => UNCHANGED record
    BY DEF Task!LeaderStep, Task!CheckParent, Task!BindDeathSignal, Task!StartSession,
       Task!CreateRecord, Task!WriteRecord,
       Task!ExecHost, Task!LeaderAt, Task!LeaderFails
  <1>6. Task!StartSession \/ Task!LeaderFails \/ UNCHANGED proc
    BY DEF Task!LeaderStep, Task!CheckParent, Task!BindDeathSignal, Task!CreateRecord,
       Task!WriteRecord, Task!ExecHost
  <1> QED BY <1>2, <1>3, <1>4, <1>5, <1>6

LEMMA LeaderReap ==
  ASSUME Task!SessionAssumption, ProcOK, LeaderInv, NEW p \in Pids, Task!Reap(p)
  PROVE  LeaderInv'
  <1>1. /\ proc'[p].gen = proc[p].gen /\ proc'[p].own = FALSE
        /\ \A x \in Pids \ {p} : proc'[x] = proc[x]
    BY ReapFacts
  <1>2. UNCHANGED <<stage, record, r>> /\ proc[p].st = "zombie"
    BY DEF Task!Reap
  <1> QED BY <1>1, <1>2, LeaderPid DEF LeaderInv

LEMMA LeaderFork ==
  ASSUME Task!SessionAssumption, ProcOK, OwnInv, LeaderInv, Task!OnlyOwnSignalled, NEW p \in Pids,
         NEW q \in Pids,
         Task!ForkMember(p, q)
  PROVE  LeaderInv'
  <1>1. q # Leader /\ \A x \in Pids \ {q} : proc'[x] = proc[x]
    BY OwnFork
  <1>2. UNCHANGED <<stage, record, r>> /\ proc[p].own = TRUE
    BY OursFacts DEF Task!ForkMember, Task!Runs
  <1> QED BY <1>1, <1>2, LeaderPid DEF LeaderInv

LEMMA LeaderForeign ==
  ASSUME Task!SessionAssumption, "child" \notin ForeignKinds, ProcOK, OwnInv, LeaderInv,
         Task!OnlyOwnSignalled, NEW p \in Pids,
         NEW kind \in ForeignKinds, Task!ForeignAppears(p, kind)
  PROVE  LeaderInv'
  <1>1. /\ proc'[p].own = FALSE /\ proc'[p].gen = proc[p].gen + 1
        /\ \A x \in Pids \ {p} : proc'[x] = proc[x]
    BY OwnForeign
  <1>2. UNCHANGED <<stage, record, r>> /\ (p = Leader => stage # "unborn")
    BY DEF Task!ForeignAppears
  <1>3. proc[p].gen \in Nat
    BY DEF ProcOK, Task!Procs
  <1> QED BY <1>1, <1>2, <1>3, LeaderPid DEF LeaderInv

LEMMA LeaderBorn ==
  ASSUME Task!SessionAssumption, ProcOK, OwnInv, LeaderInv, Task!OnlyOwnSignalled,
         Task!ForkLeader, r \in Scripts
  PROVE  LeaderInv'
  <1>1. proc'[Leader].gen = 1
    BY OwnLeader
  <1>2. stage = "unborn" /\ stage' = "boot" /\ UNCHANGED record /\ r'.pc = "forked"
    BY DEF Task!ForkLeader, LeaderInv, Scripts
  <1> QED BY <1>1, <1>2 DEF LeaderInv
-----------------------------------------------------------------------------
(* The end of the script and the leader *)

LEMMA HostCalm ==
  ASSUME Task!SessionAssumption, ProcOK, Task!HostFollowsScript, CalmAll, UNCHANGED stage,
         r'.pc = "exit" => r.pc = "exit"
  PROVE  Task!HostFollowsScript'
  <1>1. Calm(Leader) /\ ProcOK'
    BY LeaderPid DEF CalmAll
  <1>2. Task!Ours(Leader)' => Task!Ours(Leader) /\ proc'[Leader].sig \in {proc[Leader].sig, "term"}
    BY <1>1, LeaderPid, OursFacts, OursFactsNext DEF Calm
  <1> QED BY <1>2 DEF Task!HostFollowsScript, Task!RunnerGone

\* At the end of the script the leader has not asked for its signal yet, or gets it.
LEMMA HostExit ==
  ASSUME Task!SessionAssumption, ProcOK, LeaderInv, stage \in Task!Stages, NEW code,
         Task!ScriptExits(code), UNCHANGED stage
  PROVE  Task!HostFollowsScript'
  <1>1. /\ CalmAll
        /\ Task!Ours(Leader)' =>
               stage \notin Task!Bound \/ (stage = "host" /\ proc'[Leader].sig = "term")
    BY ExitCalm
  <1>2. Calm(Leader) /\ ProcOK'
    BY <1>1, LeaderPid DEF CalmAll
  <1>3. Task!Ours(Leader)' => proc[Leader].own = TRUE
    BY <1>2, LeaderPid, OursFactsNext DEF Calm
  <1>4. Task!Ours(Leader)' => stage # "unborn"
    BY <1>3, LeaderPid DEF LeaderInv
  <1> QED BY <1>1, <1>4 DEF Task!HostFollowsScript, Task!Stages, Task!Bound

\* A leader that has failed is no longer there; a leader that goes on while the
\* script has gone has not passed its second look, or has its SIGTERM.
LEMMA HostLeader ==
  ASSUME Task!SessionAssumption, ProcOK, Task!HostFollowsScript, Task!LeaderStep
  PROVE  Task!HostFollowsScript'
  <1>1. UNCHANGED r /\ Task!Ours(Leader)
    BY DEF Task!LeaderStep, Task!CheckParent, Task!BindDeathSignal, Task!StartSession,
       Task!CreateRecord, Task!WriteRecord,
       Task!ExecHost, Task!LeaderAt
  <1>2. CASE Task!LeaderFails
    <2>1. proc'[Leader].st = "zombie"
      BY <1>2, LeaderPid DEF Task!LeaderFails, Task!Dead, ProcOK, Task!Procs
    <2> QED BY <2>1 DEF Task!HostFollowsScript, Task!Ours, Task!Live
  <1>3. CASE ~Task!RunnerGone
    BY <1>1, <1>3 DEF Task!HostFollowsScript, Task!RunnerGone
  <1>4. CASE Task!RunnerGone /\ ~Task!LeaderFails
    <2>1. UNCHANGED proc
      BY <1>4 DEF Task!LeaderStep, Task!CheckParent, Task!BindDeathSignal, Task!StartSession,
         Task!CreateRecord,
         Task!WriteRecord, Task!ExecHost
    <2>2. stage' = "bound" \/ stage \in {"session", "created", "registered"}
      BY <1>4 DEF Task!LeaderStep, Task!CheckParent, Task!BindDeathSignal, Task!StartSession,
         Task!CreateRecord,
         Task!WriteRecord, Task!ExecHost, Task!LeaderAt
    <2> QED BY <1>1, <1>4, <2>1, <2>2 DEF Task!HostFollowsScript
  <1> QED BY <1>2, <1>3, <1>4
-----------------------------------------------------------------------------
(* The script's own state *)

LEMMA ScansType ==
  ASSUME Task!SessionAssumption, g \in Guards
  PROVE  Task!Scans \in Nat
  <1>1. TermConfirmations \in Nat
    BY DEF Task!SessionAssumption
  <1>2. CASE g.cmd = "absent"
    BY <1>2 DEF Task!Scans
  <1>3. CASE g.cmd = "unregistered"
    BY <1>3 DEF Task!Scans
  <1>4. CASE g.cmd \notin {"absent", "unregistered"}
    BY <1>1, <1>4 DEF Task!Scans
  <1> QED BY <1>2, <1>3, <1>4

LEMMA ScriptInit == Task!Script \in Scripts
  BY DEF Task!Script, Scripts, ScriptPCs, Task!Starting

\* A failing script forgets its state, a clean one keeps what its answer rests on.
LEMMA ExitScript ==
  ASSUME r \in Scripts, NEW code \in {"zero", "fail", "killed"}, Task!ScriptExits(code)
  PROVE  /\ r' \in Scripts /\ r'.pc = "exit" /\ r'.code = code
         /\ code = "zero" => r'.base = r.base /\ r'.scans = r.scans
  <1>1. CASE code = "zero"
    <2>1. r' = [r EXCEPT !.pc = "exit", !.code = code]
      BY <1>1 DEF Task!ScriptExits
    <2> QED BY <2>1 DEF Scripts, ScriptPCs
  <1>2. CASE code # "zero"
    <2> DEFINE k == Task!Script
    <2>1. k \in Scripts
      BY ScriptInit
    <2>2. r' = [k EXCEPT !.pc = "exit", !.code = code]
      BY <1>2 DEF Task!ScriptExits
    <2> HIDE DEF k
    <2> QED BY <1>2, <2>1, <2>2 DEF Scripts, ScriptPCs
  <1> QED BY <1>1, <1>2

ScriptEnd == Task!EndCleanup \/ Task!InterruptCleanup \/ Task!ScriptKilled

\* The three ends of the script.
LEMMA EndsFacts ==
  ASSUME ScriptEnd
  PROVE  /\ \E code \in {"zero", "fail", "killed"} : Task!ScriptExits(code)
         /\ UNCHANGED <<World, g>>
  <1>1. CASE Task!EndCleanup
    BY <1>1 DEF Task!EndCleanup, Task!ScriptOnly, World
  <1>2. CASE Task!InterruptCleanup
    BY <1>2 DEF Task!InterruptCleanup, Task!ScriptOnly, World
  <1>3. CASE Task!ScriptKilled
    BY <1>3 DEF Task!ScriptKilled, Task!ScriptOnly, World
  <1> QED BY <1>1, <1>2, <1>3 DEF ScriptEnd

\* The script's other steps keep its types.
LEMMA QuietScriptType ==
  ASSUME Task!SessionAssumption, ProcOK, RestOK, r \in Scripts, g \in Guards, QuietScript
  PROVE  r' \in Scripts /\ r'.pc \notin {"start", "exit"}
  <1>1. forks \in Nat /\ proc[Leader].gen \in Nat /\ Task!Scans \in Nat
    BY ScansType, LeaderPid DEF RestOK, ProcOK, Task!Procs, Task!SessionAssumption
  <1>2. CASE Task!NotePid
    BY <1>2 DEF Task!NotePid, Scripts, ScriptPCs, Task!Starting
  <1>3. CASE Task!NoteSession
    BY <1>3 DEF Task!NoteSession, Scripts, ScriptPCs, Task!Starting
  <1>4. CASE Task!NoteStart
    BY <1>1, <1>4 DEF Task!NoteStart, Scripts, ScriptPCs, Task!Starting
  <1>5. CASE Task!EnterCleanup
    BY <1>1, <1>5 DEF Task!EnterCleanup, Scripts, ScriptPCs
  <1>6. CASE Task!RunCleanup
    <2>1. r' = [r EXCEPT !.pc = "await"] \/ r' = [r EXCEPT !.pc = "absent", !.failed = TRUE]
      BY <1>6 DEF Task!RunCleanup
    <2> QED BY <2>1 DEF Scripts, ScriptPCs
  <1>7. CASE Task!AfterCleanup
    <2> DEFINE f == r.failed \/ g.code = "fail"
    <2>1. r' = [r EXCEPT !.pc = "absent", !.failed = f, !.scans = Task!Scans] /\ f \in BOOLEAN
      BY <1>7 DEF Task!AfterCleanup
    <2> HIDE DEF f
    <2> QED BY <1>1, <2>1 DEF Scripts, ScriptPCs
  <1>8. CASE Task!RunAbsent
    BY <1>8 DEF Task!RunAbsent, Scripts, ScriptPCs
  <1>9. CASE Task!AfterAbsent
    <2> DEFINE f == r.failed \/ g.code = "fail"
               n == r.scans + 1
    <2>1. r' = [r EXCEPT !.pc = "ending", !.failed = f, !.scans = n] /\ f \in BOOLEAN
      BY <1>9 DEF Task!AfterAbsent
    <2>2. n \in Nat
      BY DEF Scripts
    <2> HIDE DEF f, n
    <2> QED BY <2>1, <2>2 DEF Scripts, ScriptPCs
  <1> QED BY <1>2, <1>3, <1>4, <1>5, <1>6, <1>7, <1>8, <1>9 DEF QuietScript
-----------------------------------------------------------------------------
(* One step, seen from a pidfd and from a count of the forks *)

\* A PID keeps its occupant, loses it, or has a new one.
Ages(x) ==
  \/ /\ proc'[x].gen = proc[x].gen
     /\ Task!Exists(x)' => Task!Exists(x) /\ proc'[x].own = proc[x].own
  \/ proc'[x].gen = proc[x].gen + 1

\* A process of the task comes from another one, and costs a fork.
Dwindles ==
  /\ Task!Ours(Leader)' => Task!Ours(Leader)
  /\ \/ forks' = forks /\ \A p \in Pids : Task!Ours(p)' => Task!Ours(p)
     \/ forks' = forks + 1 /\ \E p \in Pids : Task!Ours(p)

Effect == (\A x \in Pids : Ages(x)) /\ Dwindles

\* A calm step brings nobody to life.
LEMMA CalmEffect ==
  ASSUME Task!SessionAssumption, ProcOK, CalmAll, UNCHANGED forks
  PROVE  Effect
  <1>1. \A x \in Pids : Ages(x)
    BY DEF CalmAll, Calm, Ages
  <1>2. \A x \in Pids : Task!Ours(x)' => Task!Ours(x)
    <2> SUFFICES ASSUME NEW x \in Pids, Task!Ours(x)' PROVE Task!Ours(x)
      OBVIOUS
    <2>1. Calm(x) /\ ProcOK'
      BY DEF CalmAll
    <2> QED BY <2>1, OursFacts, OursFactsNext DEF Calm
  <1> QED BY <1>1, <1>2, LeaderPid DEF Effect, Dwindles

LEMMA SessionEffect ==
  ASSUME Task!SessionAssumption, ProcOK, Task!StartSession, ~Task!LeaderFails
  PROVE  Effect
  <1>1. UNCHANGED forks /\ proc' = [proc EXCEPT ![Leader].sess = TRUE]
    BY DEF Task!StartSession
  <1>2. \A x \in Pids : /\ proc'[x].st = proc[x].st /\ proc'[x].gen = proc[x].gen
                        /\ proc'[x].own = proc[x].own
    BY <1>1, LeaderPid DEF ProcOK, Task!Procs
  <1> QED BY <1>1, <1>2, LeaderPid DEF Effect, Ages, Dwindles, Task!Ours, Task!Live, Task!Exists

LEMMA ReapEffect ==
  ASSUME Task!SessionAssumption, ProcOK, NEW p \in Pids, Task!Reap(p)
  PROVE  Effect
  <1>1. /\ proc'[p].st = "none" /\ proc'[p].gen = proc[p].gen
        /\ \A x \in Pids \ {p} : proc'[x] = proc[x]
    BY ReapFacts
  <1>2. UNCHANGED forks
    BY DEF Task!Reap
  <1> QED BY <1>1, <1>2, LeaderPid DEF Effect, Ages, Dwindles, Task!Ours, Task!Live, Task!Exists

\* A fork costs a fork, and somebody of the task was there to make it.
LEMMA ForkEffect ==
  ASSUME Task!SessionAssumption, ProcOK, OwnInv, Task!OnlyOwnSignalled, NEW p \in Pids,
         NEW q \in Pids, Task!ForkMember(p, q)
  PROVE  Effect
  <1>1. q # Leader /\ \A x \in Pids \ {q} : proc'[x] = proc[x]
    BY OwnFork
  <1>2. forks' = forks + 1 /\ Task!Ours(p)
    BY DEF Task!ForkMember, Task!Runs
  <1>3. proc'[q].gen = proc[q].gen + 1
    BY BornFacts DEF Task!ForkMember
  <1> QED BY <1>1, <1>2, <1>3, LeaderPid DEF Effect, Ages, Dwindles, Task!Ours, Task!Live,
    Task!Exists

LEMMA ForeignEffect ==
  ASSUME Task!SessionAssumption, "child" \notin ForeignKinds, ProcOK, OwnInv, LeaderInv,
         Task!OnlyOwnSignalled, NEW p \in Pids,
         NEW kind \in ForeignKinds, Task!ForeignAppears(p, kind)
  PROVE  Effect
  <1>1. /\ proc'[p].own = FALSE /\ proc'[p].gen = proc[p].gen + 1
        /\ \A x \in Pids \ {p} : proc'[x] = proc[x]
    BY OwnForeign
  <1>2. UNCHANGED forks
    BY DEF Task!ForeignAppears
  <1> QED BY <1>1, <1>2, LeaderPid DEF Effect, Ages, Dwindles, Task!Ours, Task!Live, Task!Exists
-----------------------------------------------------------------------------
(* The part of the invariant that does not mention the guard *)

WorldInv ==
  /\ ProcOK /\ RestOK /\ r \in Scripts
  /\ OwnInv /\ LeaderInv /\ Task!OnlyOwnSignalled /\ Task!HostFollowsScript

\* A calm step keeps WorldInv, unless the script starts or ends with it.
LEMMA WorldCalm ==
  ASSUME Task!SessionAssumption, WorldInv, CalmAll, UNCHANGED World, r' \in Scripts,
         r'.pc = "start" => r.pc = "start", r'.pc = "exit" => r.pc = "exit"
  PROVE  WorldInv' /\ Effect
  <1>1. ProcOK' /\ OwnInv' /\ Task!OnlyOwnSignalled'
    BY OwnCalm DEF WorldInv, CalmAll
  <1>2. LeaderInv'
    BY LeaderCalm DEF WorldInv, World
  <1>3. Task!HostFollowsScript'
    BY HostCalm DEF WorldInv, World
  <1>4. RestOK'
    BY DEF WorldInv, RestOK, World
  <1>5. Effect
    BY CalmEffect DEF WorldInv, World
  <1> QED BY <1>1, <1>2, <1>3, <1>4, <1>5 DEF WorldInv

\* So does the leader's program, and a written record stays.
LEMMA WorldLeader ==
  ASSUME Task!SessionAssumption, WorldInv, Task!LeaderStep
  PROVE  WorldInv' /\ Effect /\ (record = "written" => record' = "written") /\ UNCHANGED <<r, g>>
  <1>1. LeaderInv' /\ (CalmAll \/ Task!StartSession)
    BY LeaderMoves DEF WorldInv
  <1>2. Task!HostFollowsScript'
    BY HostLeader DEF WorldInv
  <1>3. UNCHANGED <<r, g, forks, foreign>>
    BY DEF Task!LeaderStep, Task!CheckParent, Task!BindDeathSignal, Task!StartSession,
       Task!CreateRecord, Task!WriteRecord,
       Task!ExecHost
  <1>4. stage' \in Task!Stages /\ record' \in {"none", "empty", "written"}
    BY DEF WorldInv, RestOK, Task!Stages, Task!LeaderStep, Task!CheckParent,
       Task!BindDeathSignal, Task!StartSession,
       Task!CreateRecord, Task!WriteRecord, Task!ExecHost, Task!LeaderFails
  <1>5. record = "written" => record' = "written"
    BY DEF WorldInv, LeaderInv, Task!LeaderStep, Task!CheckParent, Task!BindDeathSignal,
       Task!StartSession,
       Task!CreateRecord, Task!WriteRecord, Task!ExecHost, Task!LeaderAt
  <1>6. RestOK'
    BY <1>3, <1>4 DEF WorldInv, RestOK
  <1>7. CASE CalmAll
    <2>1. ProcOK' /\ OwnInv' /\ Task!OnlyOwnSignalled'
      BY <1>7, OwnCalm DEF WorldInv, CalmAll
    <2>2. Effect
      BY <1>3, <1>7, CalmEffect DEF WorldInv
    <2> QED BY <1>1, <1>2, <1>3, <1>5, <1>6, <2>1, <2>2 DEF WorldInv
  <1>8. CASE Task!StartSession /\ ~CalmAll
    <2>1. ProcOK' /\ OwnInv' /\ Task!OnlyOwnSignalled'
      BY <1>8, OwnSession DEF WorldInv
    <2>2. ~Task!LeaderFails
      BY <1>8, LeaderFailsCalm DEF WorldInv, Task!StartSession, Task!LeaderAt
    <2>3. Effect
      BY <1>8, <2>2, SessionEffect DEF WorldInv
    <2> QED BY <1>1, <1>2, <1>3, <1>5, <1>6, <2>1, <2>3 DEF WorldInv
  <1> QED BY <1>1, <1>7, <1>8

LEMMA HostOther ==
  ASSUME ProcOK, Task!HostFollowsScript, UNCHANGED <<r, stage>>,
         proc'[Leader] = proc[Leader] \/ ~Task!Ours(Leader)'
  PROVE  Task!HostFollowsScript'
  BY DEF Task!HostFollowsScript, Task!RunnerGone, Task!Ours, Task!Live

\* So do forks, exits, reaping and unrelated processes ...
LEMMA WorldMachine ==
  ASSUME Task!SessionAssumption, "child" \notin ForeignKinds, WorldInv, Task!Machine
  PROVE  WorldInv' /\ Effect /\ UNCHANGED <<record, r, g>>
  <1> USE DEF WorldInv
  <1>0. UNCHANGED <<stage, record, r, g>>
    BY DEF Task!Machine, Task!ForkMember, Task!ProcessExits, Task!Reap, Task!ForeignExits,
       Task!ForeignAppears
  <1>1. ASSUME NEW p \in Pids, NEW q \in Pids, Task!ForkMember(p, q)
        PROVE  WorldInv' /\ Effect
    <2>1. /\ ProcOK' /\ OwnInv' /\ Task!OnlyOwnSignalled' /\ q # Leader
          /\ \A x \in Pids \ {q} : proc'[x] = proc[x]
      BY <1>1, OwnFork
    <2>2. LeaderInv' /\ Effect
      BY <1>1, LeaderFork, ForkEffect
    <2>3. Task!HostFollowsScript'
      BY <1>0, <2>1, HostOther, LeaderPid
    <2>4. RestOK'
      BY <1>0, <1>1 DEF RestOK, Task!ForkMember, Task!SessionAssumption
    <2> QED BY <1>0, <2>1, <2>2, <2>3, <2>4
  <1>2. ASSUME NEW p \in Pids, Task!ProcessExits(p) \/ Task!ForeignExits(p)
        PROVE  WorldInv' /\ Effect
    <2>1. CalmAll /\ UNCHANGED <<World, r, g>>
      BY <1>2, ExitsCalm
    <2> QED BY <2>1, WorldCalm
  <1>3. ASSUME NEW p \in Pids, Task!Reap(p)
        PROVE  WorldInv' /\ Effect
    <2>1. ProcOK' /\ OwnInv' /\ Task!OnlyOwnSignalled'
      BY <1>3, OwnReap
    <2>2. LeaderInv' /\ Effect
      BY <1>3, LeaderReap, ReapEffect
    <2>3. proc'[Leader] = proc[Leader] \/ proc'[Leader].st = "none"
      BY <1>3, ReapFacts, LeaderPid
    <2>4. Task!HostFollowsScript'
      BY <1>0, <2>3, HostOther DEF Task!Ours, Task!Live
    <2>5. RestOK'
      BY <1>0, <1>3 DEF RestOK, Task!Reap
    <2> QED BY <1>0, <2>1, <2>2, <2>4, <2>5
  <1>4. ASSUME NEW p \in Pids, NEW kind \in ForeignKinds, Task!ForeignAppears(p, kind)
        PROVE  WorldInv' /\ Effect
    <2>1. /\ ProcOK' /\ OwnInv' /\ Task!OnlyOwnSignalled' /\ proc'[p].own = FALSE
          /\ \A x \in Pids \ {p} : proc'[x] = proc[x]
      BY <1>4, OwnForeign
    <2>2. LeaderInv' /\ Effect
      BY <1>4, LeaderForeign, ForeignEffect
    <2>3. proc'[Leader] = proc[Leader] \/ ~Task!Ours(Leader)'
      BY <2>1, LeaderPid DEF Task!Ours
    <2>4. Task!HostFollowsScript'
      BY <1>0, <2>3, HostOther
    <2>5. RestOK'
      BY <1>0, <1>4 DEF RestOK, Task!ForeignAppears, Task!SessionAssumption
    <2> QED BY <1>0, <2>1, <2>2, <2>4, <2>5
  <1> QED BY <1>0, <1>1, <1>2, <1>3, <1>4 DEF Task!Machine

\* ... the guard ...
LEMMA WorldGuard ==
  ASSUME Task!SessionAssumption, WorldInv, g \in Guards, FdInv, Task!GuardStep \/ Task!Tick
  PROVE  WorldInv' /\ Effect /\ CalmAll /\ UNCHANGED <<World, r>>
  <1>1. CalmAll /\ UNCHANGED <<World, r>>
    BY GuardCalm DEF WorldInv
  <1> QED BY <1>1, WorldCalm DEF WorldInv

\* ... and the script.
LEMMA WorldQuiet ==
  ASSUME Task!SessionAssumption, WorldInv, g \in Guards, QuietScript
  PROVE  WorldInv' /\ Effect /\ CalmAll /\ UNCHANGED <<proc, World>>
  <1>1. CalmAll /\ UNCHANGED World
    BY QuietScriptCalm DEF WorldInv
  <1>2. r' \in Scripts /\ r'.pc \notin {"start", "exit"}
    BY QuietScriptType DEF WorldInv
  <1>3. UNCHANGED proc
    BY DEF QuietScript, Task!NotePid, Task!NoteSession, Task!NoteStart, Task!EnterCleanup,
       Task!RunCleanup, Task!AfterCleanup,
       Task!RunAbsent, Task!AfterAbsent
  <1> QED BY <1>1, <1>2, <1>3, WorldCalm

LEMMA WorldBorn ==
  ASSUME Task!SessionAssumption, WorldInv, Task!ForkLeader
  PROVE  /\ WorldInv' /\ (\A x \in Pids : Ages(x)) /\ UNCHANGED <<record, g>>
         /\ r'.pc = "forked" /\ r'.code = r.code
  <1>1. /\ ProcOK' /\ OwnInv' /\ Task!OnlyOwnSignalled' /\ proc'[Leader].gen = 1
        /\ proc[Leader].gen = 0
    BY OwnLeader DEF WorldInv
  <1>2. LeaderInv'
    BY LeaderBorn DEF WorldInv
  <1>3. \A x \in Pids \ {Leader} : proc'[x] = proc[x]
    BY BornFacts, LeaderPid DEF Task!ForkLeader, WorldInv
  <1>4. \A x \in Pids : Ages(x)
    BY <1>1, <1>3 DEF Ages, Task!Exists
  <1>5. r' \in Scripts /\ r'.pc = "forked" /\ r'.code = r.code
    BY DEF WorldInv, Task!ForkLeader, Scripts, ScriptPCs, Task!Starting
  <1>6. RestOK' /\ UNCHANGED <<record, g>>
    BY DEF WorldInv, RestOK, Task!ForkLeader, Task!Stages
  <1>7. Task!HostFollowsScript'
    BY <1>5 DEF Task!HostFollowsScript, Task!RunnerGone
  <1> QED BY <1>1, <1>2, <1>4, <1>5, <1>6, <1>7 DEF WorldInv

LEMMA WorldEnd ==
  ASSUME Task!SessionAssumption, WorldInv, ScriptEnd
  PROVE  WorldInv' /\ Effect /\ UNCHANGED <<World, g>>
  <1>1. PICK code \in {"zero", "fail", "killed"} : Task!ScriptExits(code)
    BY EndsFacts
  <1>2. UNCHANGED <<World, g>>
    BY EndsFacts
  <1>3. r' \in Scripts /\ r'.pc = "exit"
    BY <1>1, ExitScript DEF WorldInv
  <1>4. CalmAll
    BY <1>1, ExitCalm DEF WorldInv
  <1>5. ProcOK' /\ OwnInv' /\ Task!OnlyOwnSignalled'
    BY <1>4, OwnCalm DEF WorldInv, CalmAll
  <1>6. LeaderInv'
    BY <1>2, <1>3, <1>4, LeaderCalm DEF WorldInv, World
  <1>7. Task!HostFollowsScript'
    BY <1>1, <1>2, HostExit DEF WorldInv, RestOK, World
  <1>8. RestOK' /\ Effect
    BY <1>2, <1>4, CalmEffect DEF WorldInv, RestOK, World
  <1> QED BY <1>2, <1>3, <1>5, <1>6, <1>7, <1>8 DEF WorldInv
-----------------------------------------------------------------------------
(* What the guard's record updates keep *)

Same(h, k) ==
  /\ k.cmd = h.cmd /\ k.ph = h.ph /\ k.excl = h.excl /\ k.killed = h.killed
  /\ k.empty = h.empty /\ k.fd = h.fd /\ k.pid = h.pid /\ k.err = h.err

LEMMA NoGuardFacts ==
  ASSUME Task!SessionAssumption
  PROVE  /\ Task!NoGuard \in Guards /\ Task!NoGuard.cmd = "none" /\ Task!NoGuard.pc = "none"
         /\ Task!NoGuard.ph = "none" /\ Task!NoGuard.err = FALSE /\ Task!NoGuard.excl = FALSE
         /\ Task!NoGuard.killed = FALSE /\ Task!NoGuard.empty = 0
  BY LeaderPid DEF Task!NoGuard, Guards, Phases, GuardPCs, Commands, GuardCodes

LEMMA AtFacts ==
  ASSUME NEW h \in Guards, NEW q \in GuardPCs
  PROVE  Task!At(h, q) \in Guards /\ Same(h, Task!At(h, q)) /\ Task!At(h, q).pc = q
  BY DEF Task!At, Guards, Same

LEMMA ScanFacts ==
  ASSUME NEW h \in Guards, NEW f \in Phases
  PROVE  /\ Task!Scan(h, f) \in Guards /\ Task!Scan(h, f).pc = "list" /\ Task!Scan(h, f).ph = f
         /\ Task!Scan(h, f).cmd = h.cmd /\ Task!Scan(h, f).excl = h.excl
         /\ Task!Scan(h, f).killed = h.killed
         /\ Task!Scan(h, f).empty = h.empty /\ Task!Scan(h, f).err = h.err
  <1> DEFINE k == Task!At(h, "list")
  <1>1. k \in Guards /\ Same(h, k) /\ k.pc = "list"
    BY AtFacts DEF GuardPCs
  <1>2. Task!Scan(h, f) = [k EXCEPT !.ph = f]
    BY DEF Task!Scan
  <1> HIDE DEF k
  <1>3. [k EXCEPT !.ph = f] \in Guards
    BY <1>1 DEF Guards
  <1> QED BY <1>1, <1>2, <1>3 DEF Guards, Same

LEMMA FreshFacts ==
  ASSUME NEW h \in Guards
  PROVE  /\ Task!Fresh(h) \in Guards /\ Task!Fresh(h).cmd = h.cmd /\ Task!Fresh(h).ph = h.ph
         /\ Task!Fresh(h).pc = h.pc /\ Task!Fresh(h).excl = h.excl /\ Task!Fresh(h).killed = h.killed
         /\ Task!Fresh(h).err = h.err /\ Task!Fresh(h).empty = 0 /\ Task!Fresh(h).fd = h.fd
  BY DEF Task!Fresh, Guards

\* A command that has ended.
Ended(k, h, c) ==
  /\ k \in Guards /\ k.cmd = h.cmd /\ k.pc = "done" /\ k.code = c /\ k.killed = h.killed
  /\ k.ph = "none" /\ k.err = FALSE /\ k.excl = FALSE

LEMMA DoneFacts ==
  ASSUME Task!SessionAssumption, NEW h \in Guards, NEW c \in GuardCodes
  PROVE  Ended(Task!Done(h, c), h, c)
  <1> DEFINE k == Task!NoGuard
  <1>1. k \in Guards /\ k.err = FALSE /\ k.excl = FALSE /\ k.ph = "none"
    BY NoGuardFacts
  <1>2. Task!Done(h, c) = [k EXCEPT !.cmd = h.cmd, !.pc = "done", !.code = c, !.killed = h.killed]
    BY DEF Task!Done
  <1> HIDE DEF k
  <1>3. h.cmd \in Commands /\ h.killed \in BOOLEAN
    BY DEF Guards
  <1> QED BY <1>1, <1>2, <1>3 DEF Guards, GuardPCs, Ended

\* A command at its first step.
Opened(k, c, q) ==
  /\ k \in Guards /\ k.cmd = c /\ k.pc = q /\ k.err = FALSE /\ k.excl = FALSE
  /\ k.empty = 0 /\ k.ph = "none"

LEMMA CommandFacts ==
  ASSUME Task!SessionAssumption, NEW c \in Commands, NEW q \in GuardPCs, NEW n \in Nat
  PROVE  Opened(Task!Command(c, q, n), c, q)
  <1> DEFINE k == Task!NoGuard
  <1>1. k \in Guards /\ k.err = FALSE /\ k.excl = FALSE /\ k.ph = "none" /\ k.empty = 0
    BY NoGuardFacts
  <1>2. Task!Command(c, q, n) = [k EXCEPT !.cmd = c, !.pc = q, !.fd = n]
    BY DEF Task!Command
  <1> HIDE DEF k
  <1> QED BY <1>1, <1>2 DEF Guards, Opened

\* The command goes on at q in phase f: an error stays, and a leader is left
\* out only with an error, when its identity is not the recorded one.
Unknown == ~Task!Identity(Task!LeaderStart, "host")
Keeps(q, f) ==
  /\ g' \in Guards /\ g'.cmd = g.cmd /\ g'.pc = q /\ g'.ph = f
  /\ g'.killed = g.killed \/ g'.killed = TRUE
  /\ g'.err = FALSE => g.err = FALSE
  /\ g'.excl = TRUE => g.excl = TRUE \/ (g'.err = TRUE /\ Unknown)
\* It goes on, and a row of empty scans is kept or begun again.
Goes(q, f) == Keeps(q, f) /\ (g'.empty = g.empty \/ g'.empty = 0)
\* The command ends with the result c.
Ends(c) ==
  /\ g' \in Guards /\ g'.cmd = g.cmd /\ g'.pc = "done" /\ g'.code = c
  /\ g'.killed = g.killed /\ g'.ph = "none" /\ g'.err = FALSE /\ g'.excl = FALSE

\* A state h on the way to the next one.
Base(h) ==
  /\ h \in Guards /\ h.cmd = g.cmd
  /\ h.killed = g.killed \/ h.killed = TRUE
  /\ h.err = FALSE => g.err = FALSE
  /\ h.excl = TRUE => g.excl = TRUE \/ (h.err = TRUE /\ Unknown)
From(h) == Base(h) /\ (h.empty = g.empty \/ h.empty = 0)

LEMMA KeepsAt ==
  ASSUME NEW h, Base(h), NEW q \in GuardPCs, g' = Task!At(h, q)
  PROVE  Keeps(q, h.ph) /\ g'.fd = h.fd /\ g'.empty = h.empty /\ g'.err = h.err
  BY AtFacts DEF Keeps, Base, Same

LEMMA KeepsScan ==
  ASSUME NEW h, Base(h), NEW f \in Phases, g' = Task!Scan(h, f)
  PROVE  /\ Keeps("list", f) /\ g'.killed = h.killed /\ g'.empty = h.empty
         /\ g'.err = h.err
  BY ScanFacts DEF Keeps, Base

LEMMA GoesAt ==
  ASSUME NEW h, From(h), NEW q \in GuardPCs, g' = Task!At(h, q)
  PROVE  Goes(q, h.ph) /\ g'.fd = h.fd
  BY KeepsAt DEF Goes, From

LEMMA GoesScan ==
  ASSUME NEW h, From(h), NEW f \in Phases, g' = Task!Scan(h, f)
  PROVE  Goes("list", f) /\ g'.killed = h.killed
  BY KeepsScan DEF Goes, From

LEMMA EndsDone ==
  ASSUME Task!SessionAssumption, NEW h \in Guards, h.cmd = g.cmd, h.killed = g.killed,
         NEW c \in GuardCodes,
         g' = Task!Done(h, c)
  PROVE  Ends(c)
  <1>1. Ended(Task!Done(h, c), h, c)
    BY DoneFacts
  <1>2. Ended(g', h, c)
    BY <1>1
  <1> QED BY <1>2 DEF Ended, Ends

\* The state itself, and with a new deadline.
LEMMA FromSelf ==
  ASSUME g \in Guards
  PROVE  From(g) /\ From(Task!Fresh(g)) /\ Task!Fresh(g).ph = g.ph /\ Task!Fresh(g).fd = g.fd
  <1>1. g.err \in BOOLEAN
    BY DEF Guards
  <1>2. From(g)
    BY <1>1 DEF From, Base
  <1>3. From(Task!Fresh(g))
    BY FreshFacts DEF From, Base
  <1> QED BY <1>2, <1>3, FreshFacts

LEMMA GoesFallback ==
  ASSUME NEW h, From(h), g' = Task!Fallback(h)
  PROVE  Goes("fallback", h.ph) \/ Goes("signalled", h.ph)
  BY GoesAt DEF Task!Fallback, GuardPCs

\* A member that is left alone.
LEMMA SkipFacts ==
  ASSUME Task!SessionAssumption, g \in Guards, NEW e \in BOOLEAN, Task!Skip(e)
  PROVE  Goes("next", g.ph)
  <1> DEFINE k == Task!At(g, "next")
             b == g.err \/ e
  <1>1. k \in Guards /\ Same(g, k) /\ k.pc = "next"
    BY AtFacts DEF GuardPCs
  <1>2. k.todo \ {g.pid} \subseteq Pids
    BY <1>1 DEF Guards
  <1>3. b \in BOOLEAN /\ (b = FALSE => g.err = FALSE)
    BY DEF Guards
  <1>4. g' = [k EXCEPT !.todo = k.todo \ {g.pid}, !.pid = Leader, !.fd = 0, !.err = b]
    BY <1>1 DEF Task!Skip, Same
  <1> HIDE DEF k, b
  <1>5. g' \in Guards
    BY <1>1, <1>2, <1>3, <1>4, LeaderPid DEF Guards
  <1>6. /\ g'.pc = "next" /\ g'.cmd = g.cmd /\ g'.ph = g.ph /\ g'.excl = g.excl
        /\ g'.killed = g.killed /\ g'.empty = g.empty /\ g'.err = b
    BY <1>1, <1>4 DEF Guards, Same
  <1> QED BY <1>3, <1>5, <1>6 DEF Goes, Keeps
-----------------------------------------------------------------------------
(* The guard's actions, but for the reading of a scan *)

LEMMA TickFacts ==
  ASSUME g \in Guards, Task!Tick
  PROVE  /\ Goes(g.pc, g.ph) /\ g'.list = g.list /\ g'.empty = g.empty /\ g'.fd = g.fd
         /\ g'.killed = g.killed
  <1>1. g' = [g EXCEPT !.late = TRUE]
    BY DEF Task!Tick
  <1> QED BY <1>1 DEF Guards, Goes, Keeps

LEMMA RecordFacts ==
  ASSUME Task!SessionAssumption, g \in Guards, Task!ReadRecord
  PROVE  (record = "written" /\ Goes("list", "init")) \/ Ends("fail")
  BY FromSelf, GoesScan, EndsDone DEF Task!ReadRecord, Phases, GuardCodes

LEMMA ListFacts ==
  ASSUME g \in Guards, Task!ListProc
  PROVE  Goes("read", g.ph) /\ g'.empty = g.empty /\ g'.list = {p \in Pids : Task!Exists(p)}
  <1> DEFINE k == Task!At(g, "read")
  <1>1. k \in Guards /\ Same(g, k) /\ k.pc = "read"
    BY AtFacts DEF GuardPCs
  <1>2. g' = [k EXCEPT !.list = {p \in Pids : Task!Exists(p)}]
    BY DEF Task!ListProc
  <1> HIDE DEF k
  <1> QED BY <1>1, <1>2 DEF Guards, Same, Goes, Keeps

LEMMA LeaderFacts ==
  ASSUME g \in Guards, Task!ReadLeader
  PROVE  Goes("anchor", g.ph) \/ Goes("list", "term")
  BY FromSelf, GoesAt, GoesScan DEF Task!ReadLeader, GuardPCs, Phases

\* _prepare_leader_cleanup leaves the leader out only with an error.
LEMMA AnchorFacts ==
  ASSUME g \in Guards, Task!AnchorLeader
  PROVE  Goes("list", "term")
  <1> DEFINE known == Task!Identity(Task!LeaderStart, "host")
             b == g.err \/ ~known
             h == [g EXCEPT !.excl = ~known, !.err = b]
  <1>1. g' = Task!Scan(Task!Fresh(h), "term")
    BY DEF Task!AnchorLeader
  <1>2. b \in BOOLEAN /\ (~known) \in BOOLEAN /\ (b = FALSE => g.err = FALSE /\ (~known) = FALSE)
    BY DEF Guards
  <1>3. h \in Guards /\ h.cmd = g.cmd /\ h.killed = g.killed /\ h.err = b /\ h.excl = ~known
    BY <1>2 DEF Guards
  <1>5. known \/ Unknown
    BY DEF Unknown
  <1> HIDE DEF h, b, known
  <1>4. From(Task!Fresh(h))
    BY <1>2, <1>3, <1>5, FreshFacts DEF From, Base
  <1> QED BY <1>1, <1>4, GoesScan DEF Phases

\* The end of a round of signals.
LEMMA RoundFacts ==
  ASSUME g \in Guards, NEW h, From(h), h.ph = g.ph, h.killed = g.killed, g' = Task!RoundEnds(h)
  PROVE  \/ g.ph = "term" /\ (Goes("fallback", "term") \/ Goes("signalled", "term"))
         \/ g.ph # "term" /\ Goes("list", "killwait") /\ g'.killed = g.killed
  <1> DEFINE k == [h EXCEPT !.todo = {}]
  <1>1. From(k) /\ k.ph = g.ph /\ k.killed = g.killed
    BY DEF From, Base, Guards
  <1>2. g' = IF h.ph = "term" THEN Task!Fallback(k) ELSE Task!Scan(k, "killwait")
    BY DEF Task!RoundEnds
  <1> HIDE DEF k
  <1> QED BY <1>1, <1>2, GoesFallback, GoesScan DEF Phases

LEMMA NextFacts ==
  ASSUME g \in Guards, Task!NextMember
  PROVE  \/ g.ph = "term" /\ (Goes("fallback", "term") \/ Goes("signalled", "term"))
         \/ g.ph # "term" /\ Goes("list", "killwait") /\ g'.killed = g.killed
         \/ Goes("open", g.ph) \/ Goes("next", g.ph)
  <1>1. CASE g' = Task!RoundEnds(g)
    BY <1>1, FromSelf, RoundFacts
  <1>2. CASE g' = Task!RoundEnds([g EXCEPT !.err = TRUE])
    <2> DEFINE h == [g EXCEPT !.err = TRUE]
    <2>1. From(h) /\ h.ph = g.ph /\ h.killed = g.killed
      BY DEF From, Base, Guards
    <2> HIDE DEF h
    <2> QED BY <1>2, <2>1, RoundFacts DEF h
  <1>3. ASSUME NEW p \in g.todo, g' = [g EXCEPT !.pc = "open", !.pid = p]
        PROVE  Goes("open", g.ph)
    <2>1. p \in Pids
      BY DEF Guards
    <2> QED BY <1>3, <2>1 DEF Goes, Keeps, Guards, GuardPCs
  <1>4. ASSUME NEW p \in g.todo, g' = [g EXCEPT !.todo = @ \ {p}]
        PROVE  Goes("next", g.ph)
    <2>1. g.pc = "next"
      BY DEF Task!NextMember
    <2> QED BY <1>4, <2>1 DEF Goes, Keeps, Guards, GuardPCs
  <1> QED BY <1>1, <1>2, <1>3, <1>4 DEF Task!NextMember

LEMMA OpenFacts ==
  ASSUME Task!SessionAssumption, ProcOK, g \in Guards, Task!OpenPidfd
  PROVE  Goes("snap", g.ph) \/ Goes("next", g.ph)
  <1>1. proc[g.pid].gen \in Nat
    BY DEF Guards, ProcOK, Task!Procs
  <1>2. CASE Task!Skip(FALSE)
    BY <1>2, SkipFacts
  <1>3. CASE g' = [g EXCEPT !.pc = "snap", !.fd = proc[g.pid].gen]
    BY <1>1, <1>3 DEF Goes, Keeps, Guards, GuardPCs
  <1> QED BY <1>2, <1>3 DEF Task!OpenPidfd

LEMMA FirstFacts ==
  ASSUME Task!SessionAssumption, ProcOK, g \in Guards, Task!FirstSnapshot
  PROVE  Goes("verify", g.ph) \/ Goes("next", g.ph)
  <1>1. proc[g.pid].gen \in Nat /\ Task!Live(g.pid) \in BOOLEAN
    BY DEF Guards, ProcOK, Task!Procs, Task!Live
  <1>2. CASE Task!Skip(Task!Live(g.pid))
    BY <1>1, <1>2, SkipFacts
  <1>3. CASE g' = [g EXCEPT !.pc = "verify", !.seen = proc[g.pid].gen]
    BY <1>1, <1>3 DEF Goes, Keeps, Guards, GuardPCs
  <1> QED BY <1>2, <1>3 DEF Task!FirstSnapshot

LEMMA SecondFacts ==
  ASSUME Task!SessionAssumption, g \in Guards, Task!SecondSnapshot
  PROVE  Goes("current", g.ph) \/ Goes("next", g.ph)
  <1>1. Task!Live(g.pid) \in BOOLEAN
    BY DEF Task!Live
  <1>2. CASE Task!Skip(Task!Live(g.pid))
    BY <1>1, <1>2, SkipFacts
  <1>3. CASE g' = [g EXCEPT !.pc = "current"]
    BY <1>3 DEF Goes, Keeps, Guards, GuardPCs
  <1> QED BY <1>2, <1>3 DEF Task!SecondSnapshot

LEMMA CurrentFacts ==
  ASSUME Task!SessionAssumption, g \in Guards, Task!MemberIsCurrent
  PROVE  \/ Goes("next", g.ph)
         \/ /\ Goes("send", g.ph) /\ g'.pid = g.pid /\ g'.fd = g.fd
            /\ Task!Live(g.pid) /\ proc[g.pid].gen = g.fd /\ Task!Member(g.pid)
  <1>1. CASE Task!Skip(FALSE) \/ Task!Skip(TRUE)
    BY <1>1, SkipFacts
  <1>2. CASE g' = [g EXCEPT !.pc = "send"] /\ ~(Task!Skip(FALSE) \/ Task!Skip(TRUE))
    <2>1. Task!Live(g.pid) /\ proc[g.pid].gen = g.fd /\ Task!Member(g.pid)
      BY <1>2 DEF Task!MemberIsCurrent
    <2>2. Goes("send", g.ph) /\ g'.pid = g.pid /\ g'.fd = g.fd
      BY <1>2 DEF Goes, Keeps, Guards, GuardPCs
    <2> QED BY <2>1, <2>2
  <1> QED BY <1>1, <1>2 DEF Task!MemberIsCurrent

LEMMA SendFacts ==
  ASSUME Task!SessionAssumption, g \in Guards, Task!SendSignal
  PROVE  Goes("next", g.ph)
  <1> DEFINE k == Task!At(g, "next")
             reached == Task!Exists(g.pid) /\ proc[g.pid].gen = g.fd
             a == g.hitLeader \/ (reached /\ g.pid = Leader)
             b == g.surprise \/ (reached /\ g.pid # Leader)
  <1>0. k.hitLeader = g.hitLeader /\ k.surprise = g.surprise
    BY DEF Task!At, Guards
  <1>1. k \in Guards /\ Same(g, k) /\ k.pc = "next"
    BY AtFacts DEF GuardPCs
  <1>2. k.todo \ {g.pid} \subseteq Pids
    BY <1>1 DEF Guards
  <1>3. a \in BOOLEAN /\ b \in BOOLEAN
    OBVIOUS
  <1>4. g' = [k EXCEPT !.todo = k.todo \ {g.pid}, !.pid = Leader, !.fd = 0, !.hitLeader = a,
                       !.surprise = b]
    BY <1>0 DEF Task!SendSignal
  <1> HIDE DEF k, a, b, reached
  <1>5. g' \in Guards
    BY <1>1, <1>2, <1>3, <1>4, LeaderPid DEF Guards
  <1>6. /\ g'.pc = "next" /\ g'.cmd = g.cmd /\ g'.ph = g.ph /\ g'.excl = g.excl
        /\ g'.killed = g.killed /\ g'.empty = g.empty /\ g'.err = g.err
    BY <1>1, <1>4 DEF Guards, Same
  <1> QED BY <1>5, <1>6 DEF Goes, Keeps

LEMMA SignalFacts ==
  ASSUME g \in Guards, Task!SignalLeader
  PROVE  Goes("signalled", g.ph)
  <1> DEFINE b == g.err \/ (Task!Live(Leader) /\ ~Task!Identity(Task!LeaderStart, "host"))
  <1>1. g' = [g EXCEPT !.pc = "signalled", !.err = b]
    BY DEF Task!SignalLeader
  <1>2. b \in BOOLEAN /\ (b = FALSE => g.err = FALSE)
    BY DEF Guards
  <1> HIDE DEF b
  <1> QED BY <1>1, <1>2 DEF Goes, Keeps, Guards, GuardPCs

\* terminate_registered_session ends well only without an error.
LEMMA VerdictFacts ==
  ASSUME Task!SessionAssumption, NEW h \in Guards, h.cmd = g.cmd, h.killed = g.killed,
         NEW stopped \in BOOLEAN,
         g' = Task!Verdict(h, stopped)
  PROVE  Ends("fail") \/ (Ends("ok") /\ stopped = TRUE /\ h.err = FALSE)
  <1>1. CASE stopped /\ ~h.err /\ ~h.surprise
    <2>1. stopped = TRUE /\ h.err = FALSE
      BY <1>1 DEF Guards
    <2> QED BY <1>1, <2>1, EndsDone DEF Task!Verdict, GuardCodes
  <1>2. CASE ~(stopped /\ ~h.err /\ ~h.surprise)
    BY <1>2, EndsDone DEF Task!Verdict, GuardCodes
  <1> QED BY <1>1, <1>2

LEMMA AfterFacts ==
  ASSUME Task!SessionAssumption, g \in Guards, Task!AfterSignals
  PROVE  \/ g.ph = "term" /\ Goes("list", "termwait")
         \/ g.ph # "term" /\ (Ends("fail") \/ (Ends("ok") /\ g.empty = 1 /\ g.err = FALSE))
  <1>1. CASE g.ph = "term"
    <2> DEFINE h == [g EXCEPT !.empty = 0]
    <2>1. From(h)
      BY DEF From, Base, Guards
    <2>2. g' = Task!Scan(h, "termwait")
      BY <1>1 DEF Task!AfterSignals
    <2> HIDE DEF h
    <2> QED BY <1>1, <2>1, <2>2, GoesScan DEF Phases
  <1>2. CASE g.ph # "term"
    <2> DEFINE s == g.empty = 1
    <2>1. g' = Task!Verdict(g, s) /\ s \in BOOLEAN
      BY <1>2 DEF Task!AfterSignals
    <2>2. Ends("fail") \/ (Ends("ok") /\ s = TRUE /\ g.err = FALSE)
      BY <2>1, VerdictFacts
    <2> QED BY <1>2, <2>2
  <1> QED BY <1>1, <1>2

LEMMA OpenUnregisteredFacts ==
  ASSUME Task!SessionAssumption, g \in Guards, Task!OpenUnregistered
  PROVE  \/ Ends("fail") \/ (Ends("ok") /\ ~Task!Live(Leader))
         \/ Goes("ufields", g.ph) /\ g'.fd = g.fd /\ Task!Identity(g.fd, "python")
  BY FromSelf, EndsDone, GoesAt DEF Task!OpenUnregistered, GuardPCs, GuardCodes, Task!Exists,
     Task!Live

LEMMA CheckUnregisteredFacts ==
  ASSUME Task!SessionAssumption, g \in Guards, Task!CheckUnregistered
  PROVE  Ends("fail") \/ (Goes("uterm", g.ph) /\ g'.fd = g.fd)
  BY FromSelf, EndsDone, GoesAt DEF Task!CheckUnregistered, GuardPCs, GuardCodes

LEMMA SignalUnregisteredFacts ==
  ASSUME g \in Guards, Task!SignalUnregistered
  PROVE  (Goes("uwait", g.ph) \/ Goes("uwaitKill", g.ph)) /\ g'.fd = g.fd
  BY FromSelf, GoesAt DEF Task!SignalUnregistered, GuardPCs

LEMMA AwaitUnregisteredFacts ==
  ASSUME Task!SessionAssumption, g \in Guards, Task!AwaitUnregistered
  PROVE  \/ Ends("fail") \/ (Ends("ok") /\ ~Task!Live(Leader))
         \/ Goes("ukill", g.ph) /\ g'.fd = g.fd
  BY FromSelf, EndsDone, GoesAt DEF Task!AwaitUnregistered, GuardPCs, GuardCodes
-----------------------------------------------------------------------------
(* The reading of a scan *)

\* Nobody of the task was on the list, provided that they are all in the session.
InSession == \A p \in Pids : Task!Ours(p) => proc[p].sess = TRUE
Clear == InSession => \A p \in Pids : Task!Ours(p) => p \notin g.list
\* The command goes on after an empty scan: the row is one longer at most.
Counts(q, f) ==
  Keeps(q, f) /\ g'.empty <= g.empty + 1 /\ (g'.err = FALSE => Clear)

TermOutcome ==
  \/ Ends("fail")
  \/ Ends("ok") /\ g.err = FALSE /\ Clear /\ g.empty + 1 >= TermConfirmations
  \/ Counts("list", "termwait") \/ Goes("list", "termwait")
  \/ Goes("list", "kill") /\ g'.killed = TRUE

\* The state of a scan with its errors added.
ReadOf(h) ==
  /\ h \in Guards /\ h.cmd = g.cmd /\ h.ph = g.ph /\ h.excl = g.excl /\ h.killed = g.killed
  /\ h.empty = g.empty /\ h.late = g.late
  /\ h.err = FALSE => g.err = FALSE

\* The wait after TERM: only an uninterrupted row of empty scans ends it well.
LEMMA TermWaitFacts ==
  ASSUME Task!SessionAssumption, g \in Guards, NEW h, ReadOf(h), NEW found,
         found = {} /\ h.err = FALSE => Clear,
         g' = Task!TermWait(h, found)
  PROVE  TermOutcome
  <1> DEFINE row == IF found = {} THEN h.empty + 1 ELSE 0
             k == [h EXCEPT !.empty = row]
             m == [Task!Fresh(h) EXCEPT !.killed = TRUE, !.hitLeader = FALSE]
  <1>1. h \in Guards /\ h.cmd = g.cmd /\ h.killed = g.killed /\ h.empty = g.empty /\ g.empty \in Nat
    BY DEF ReadOf, Guards
  <1>2. row \in Nat /\ (found # {} => row = 0) /\ (found = {} => row = g.empty + 1)
    BY <1>1
  <1>3. Base(k) /\ k.empty = row /\ k.err = h.err
    BY <1>2 DEF ReadOf, Base, Guards
  <1>4. From(m) /\ m.killed = TRUE
    <2>1. /\ Task!Fresh(h) \in Guards /\ Task!Fresh(h).cmd = g.cmd /\ Task!Fresh(h).excl = g.excl
          /\ Task!Fresh(h).err = h.err /\ Task!Fresh(h).empty = 0
      BY FreshFacts DEF ReadOf
    <2>2. h.err = FALSE => g.err = FALSE
      BY DEF ReadOf
    <2> DEFINE f == Task!Fresh(h)
    <2> HIDE DEF f
    <2>3. /\ f \in Guards /\ f.cmd = g.cmd /\ f.excl = g.excl /\ f.err = h.err /\ f.empty = 0
      BY <2>1 DEF f
    <2>4. m = [f EXCEPT !.killed = TRUE, !.hitLeader = FALSE]
      BY DEF f
    <2> HIDE DEF m
    <2> QED BY <2>2, <2>3, <2>4 DEF From, Base, Guards
  <1>5. g' = IF row >= TermConfirmations THEN Task!Verdict(h, TRUE)
             ELSE IF k.late THEN Task!Scan(m, "kill") ELSE Task!Scan(k, "termwait")
    BY DEF Task!TermWait, Task!Again
  <1>6. TermConfirmations \in Nat \ {0}
    BY DEF Task!SessionAssumption
  <1> HIDE DEF row, k, m
  <1>7. CASE row >= TermConfirmations
    <2>1. found = {} /\ g.empty + 1 >= TermConfirmations
      BY <1>2, <1>6, <1>7
    <2>2. g' = Task!Verdict(h, TRUE)
      BY <1>5, <1>7
    <2>3. Ends("fail") \/ (Ends("ok") /\ h.err = FALSE)
      BY <1>1, <2>2, VerdictFacts
    <2>4. h.err = FALSE => g.err = FALSE
      BY DEF ReadOf
    <2> QED BY <2>1, <2>3, <2>4 DEF TermOutcome
  <1>8. CASE g' = Task!Scan(m, "kill")
    BY <1>4, <1>8, GoesScan DEF TermOutcome, Phases
  <1>9. CASE g' = Task!Scan(k, "termwait")
    <2>1. Keeps("list", "termwait") /\ g'.empty = row /\ g'.err = h.err
      BY <1>3, <1>9, KeepsScan DEF Phases
    <2>2. CASE found = {}
      BY <1>1, <1>2, <2>1, <2>2 DEF TermOutcome, Counts
    <2>3. CASE found # {}
      BY <1>2, <2>1, <2>3 DEF TermOutcome, Goes
    <2> QED BY <2>2, <2>3
  <1> QED BY <1>5, <1>7, <1>8, <1>9

KillOutcome ==
  \/ Counts("fallback", "killwait") \/ Counts("signalled", "killwait")
  \/ Goes("fallback", "killwait") \/ Goes("signalled", "killwait")
  \/ Goes("list", "killwait") \/ Goes("list", "kill")

\* The wait after KILL: one empty scan will do.
LEMMA KillWaitFacts ==
  ASSUME g \in Guards, g.ph = "killwait", NEW h, ReadOf(h), NEW found,
         found = {} /\ h.err = FALSE => Clear,
         IF found = {} \/ h.late
         THEN g' = Task!Fallback([h EXCEPT !.empty = IF found = {} THEN 1 ELSE 0])
         ELSE g' \in {Task!Scan(h, "killwait"), Task!Scan(h, "kill")}
  PROVE  KillOutcome
  <1> DEFINE row == IF found = {} THEN 1 ELSE 0
             k == [h EXCEPT !.empty = row]
  <1>1. From(h) /\ g.empty \in Nat
    BY DEF ReadOf, From, Base, Guards
  <1>2. row \in Nat /\ (found # {} => row = 0) /\ (found = {} => row = 1)
    OBVIOUS
  <1>3. Base(k) /\ k.empty = row /\ k.err = h.err /\ k.ph = "killwait"
    BY <1>2 DEF ReadOf, Base, Guards
  <1>4. g' = Task!Fallback(k) \/ g' = Task!Scan(h, "killwait") \/ g' = Task!Scan(h, "kill")
    OBVIOUS
  <1> HIDE DEF row, k
  <1>5. CASE g' = Task!Fallback(k)
    <2>1. PICK q \in {"fallback", "signalled"} : g' = Task!At(k, q)
      BY <1>5 DEF Task!Fallback
    <2>2. Keeps(q, "killwait") /\ g'.empty = row /\ g'.err = h.err
      BY <1>3, <2>1, KeepsAt DEF GuardPCs
    <2>3. CASE found = {}
      <3>1. Counts(q, "killwait")
        BY <1>1, <1>2, <2>2, <2>3 DEF Counts
      <3> QED BY <3>1 DEF KillOutcome
    <2>4. CASE found # {}
      <3>1. Goes(q, "killwait")
        BY <1>2, <2>2, <2>4 DEF Goes
      <3> QED BY <3>1 DEF KillOutcome
    <2> QED BY <2>3, <2>4
  <1>6. CASE g' = Task!Scan(h, "killwait") \/ g' = Task!Scan(h, "kill")
    BY <1>1, <1>6, GoesScan DEF KillOutcome, Phases
  <1> QED BY <1>4, <1>5, <1>6

AbsentOutcome == Ends("fail") \/ (Ends("ok") /\ Clear) \/ Goes("list", "absent")

ReadOutcome ==
  \/ g.ph = "init" /\ Goes("leader", "init")
  \/ g.ph \in {"term", "kill"} /\ Goes("next", g.ph)
  \/ g.ph = "termwait" /\ TermOutcome
  \/ g.ph = "killwait" /\ KillOutcome
  \/ g.ph = "absent" /\ AbsentOutcome

\* An entry of the list that is not in the result, and is not lost, was not a
\* live member when it was read.
LEMMA ReadFacts ==
  ASSUME Task!SessionAssumption, g \in Guards, g.excl = TRUE => g.err = TRUE, Task!ReadEntries
  PROVE  ReadOutcome
  <1>1. PICK lost \in SUBSET {p \in g.list : Task!Exists(p) /\ proc[p].sess} :
         LET members == {p \in g.list \ lost : Task!Exists(p) /\ proc[p].sess}
             active == {p \in members : Task!Live(p)}
             h == [g EXCEPT !.err = @ \/ lost # {}]
         IN  \/ /\ g.ph = "init"
                /\ g' = Task!At([h EXCEPT !.surprise = active \ {Leader} # {}], "leader")
             \/ /\ g.ph \in {"term", "kill"}
                /\ g' = [Task!At(h, "next") EXCEPT !.todo = members \ Task!Excluded]
             \/ /\ g.ph = "termwait"
                /\ g' = Task!TermWait(h, active \ Task!Excluded)
             \/ /\ g.ph = "killwait"
                /\ IF active \ Task!Excluded = {} \/ h.late
                   THEN g' = Task!Fallback([h EXCEPT !.empty =
                                 IF active \ Task!Excluded = {} THEN 1 ELSE 0])
                   ELSE g' \in {Task!Scan(h, "killwait"), Task!Scan(h, "kill")}
             \/ /\ g.ph = "absent"
                /\ g' = IF h.err THEN Task!Done(h, "fail")
                        ELSE IF active = {} THEN Task!Done(h, "ok")
                        ELSE Task!Again(h, "absent", Task!Done(h, "fail"))
    BY DEF Task!ReadEntries
  <1> DEFINE b == g.err \/ lost # {}
             h == [g EXCEPT !.err = b]
             members == {p \in g.list \ lost : Task!Exists(p) /\ proc[p].sess}
             active == {p \in members : Task!Live(p)}
             found == active \ Task!Excluded
  <1>2. b \in BOOLEAN /\ (b = FALSE => g.err = FALSE /\ lost = {})
    BY DEF Guards
  <1>3. ReadOf(h) /\ h.err = b
    BY <1>2 DEF ReadOf, Guards
  <1>4. members \subseteq Pids
    BY DEF Guards
  <1>5. active = {} /\ h.err = FALSE => Clear
    BY <1>2, <1>3 DEF Clear, InSession, Task!Ours, Task!Live, Task!Exists
  <1>6. found = {} /\ h.err = FALSE => Clear
    <2> SUFFICES ASSUME found = {}, h.err = FALSE PROVE Clear
      OBVIOUS
    <2>1. g.err = FALSE /\ g.excl \in BOOLEAN
      BY <1>2, <1>3 DEF Guards
    <2>2. Task!Excluded = {}
      BY <2>1 DEF Task!Excluded
    <2> QED BY <1>5, <2>2
  <1>7. From(h) /\ h.ph = g.ph
    BY <1>3 DEF ReadOf, From, Base
  <1>8. CASE /\ g.ph = "init"
             /\ g' = Task!At([h EXCEPT !.surprise = active \ {Leader} # {}], "leader")
    <2> DEFINE s == active \ {Leader} # {}
               k == [h EXCEPT !.surprise = s]
    <2>1. s \in BOOLEAN /\ g' = Task!At(k, "leader")
      BY <1>8
    <2> HIDE DEF h, s
    <2>2. From(k) /\ k.ph = g.ph
      BY <1>7, <2>1 DEF From, Base, Guards
    <2> HIDE DEF k
    <2> QED BY <1>8, <2>1, <2>2, GoesAt DEF ReadOutcome, GuardPCs
  <1>9. CASE /\ g.ph \in {"term", "kill"}
             /\ g' = [Task!At(h, "next") EXCEPT !.todo = members \ Task!Excluded]
    <2> DEFINE k == Task!At(h, "next")
               t == members \ Task!Excluded
    <2>1. t \subseteq Pids /\ g' = [k EXCEPT !.todo = t]
      BY <1>4, <1>9
    <2>2. k \in Guards /\ Same(h, k) /\ k.pc = "next"
      BY <1>3, AtFacts DEF ReadOf, GuardPCs
    <2> HIDE DEF h, k, t
    <2>3. g' \in Guards /\ Same(h, g') /\ g'.pc = "next"
      BY <2>1, <2>2 DEF Guards, Same
    <2>4. Goes("next", g.ph)
      BY <1>7, <2>3 DEF From, Base, Goes, Keeps, Same
    <2> QED BY <1>9, <2>4 DEF ReadOutcome
  <1>10. CASE g.ph = "termwait" /\ g' = Task!TermWait(h, found)
    <2> HIDE DEF h, found
    <2> QED BY <1>3, <1>6, <1>10, TermWaitFacts DEF ReadOutcome
  <1>11. CASE /\ g.ph = "killwait"
              /\ IF found = {} \/ h.late
                 THEN g' = Task!Fallback([h EXCEPT !.empty = IF found = {} THEN 1 ELSE 0])
                 ELSE g' \in {Task!Scan(h, "killwait"), Task!Scan(h, "kill")}
    <2> HIDE DEF h, found
    <2> QED BY <1>3, <1>6, <1>11, KillWaitFacts DEF ReadOutcome
  <1>12. CASE /\ g.ph = "absent"
              /\ g' = IF h.err THEN Task!Done(h, "fail")
                      ELSE IF active = {} THEN Task!Done(h, "ok")
                      ELSE Task!Again(h, "absent", Task!Done(h, "fail"))
    <2> HIDE DEF h, active
    <2>1. h \in Guards /\ h.cmd = g.cmd /\ h.killed = g.killed /\ h.err \in BOOLEAN
      BY <1>3 DEF ReadOf, Guards
    <2>2. CASE g' = Task!Done(h, "fail")
      BY <1>12, <2>1, <2>2, EndsDone DEF ReadOutcome, AbsentOutcome, GuardCodes
    <2>3. CASE ~h.err /\ active = {} /\ g' = Task!Done(h, "ok")
      BY <1>5, <1>12, <2>1, <2>3, EndsDone DEF ReadOutcome, AbsentOutcome, GuardCodes
    <2>4. CASE g' = Task!Scan(h, "absent")
      BY <1>7, <1>12, <2>4, GoesScan DEF ReadOutcome, AbsentOutcome, Phases
    <2> QED BY <1>12, <2>2, <2>3, <2>4 DEF Task!Again
  <1> QED BY <1>1, <1>8, <1>9, <1>10, <1>11, <1>12
-----------------------------------------------------------------------------
(* The guard's invariants *)

\* Which steps and phases belong to which command; the sweep that kills is
\* noted, and a registered session is only cleaned up with its record.
Rounds == {"next", "open", "snap", "verify", "current", "send"}
Fits ==
  /\ g.cmd = "absent" => g.pc \in {"list", "read", "done"} /\ (g.pc # "done" => g.ph = "absent")
  /\ g.cmd = "unregistered" => g.pc \in {"uopen", "done"} \cup UPCs
  /\ g.cmd = "cleanup" => g.pc \notin {"none", "uopen"} \cup UPCs /\ g.ph # "absent"
  /\ g.cmd = "cleanup" /\ g.pc \notin {"record", "done"} => record = "written"
  /\ g.cmd = "none" => g.pc = "none"
  /\ g.pc \in {"leader", "anchor"} => g.ph = "init"
  /\ g.pc \in Rounds => g.ph \in {"term", "kill"}
  /\ g.pc \in {"fallback", "signalled"} => g.ph \in {"term", "killwait"}
  /\ g.pc # "done" /\ g.ph \in {"kill", "killwait"} => g.killed = TRUE
GuardInv ==
  /\ r.pc = "await" => g.cmd \in {"cleanup", "unregistered"}
  /\ r.pc = "awaitAbsent" => g.cmd = "absent"
  /\ g.excl = TRUE => g.err = TRUE
  /\ Fits

\* The session has forked n times at least since cleanup began, for as long as
\* a process of the task is left, or one that the current list misses.
Since(n) == forks >= r.base + n
Reaches(n) == \A p \in Pids : Task!Ours(p) => Since(n)
Missed(n) == \A p \in Pids : Task!Ours(p) /\ p \notin g.list => Since(n)
\* Every process of the task can be found by its session.
Seen == record = "written" \/ ~Task!Ours(Leader)
\* Every empty scan is worth a fork of the session: what the script knows ...
CleanScript ==
  /\ r.pc # "exit" => r.code = "none"
  /\ r.pc \in {"cleanup", "await", "absent", "awaitAbsent", "ending"} => Since(0)
  /\ r.pc \in {"absent", "awaitAbsent", "ending"} /\ r.failed = FALSE => Seen /\ Reaches(r.scans)
  /\ r.pc = "exit" /\ r.code = "zero" => Reaches(r.scans)
\* ... and what the guard that it waits for is about to tell it.
CleanGuard ==
  /\ r.pc = "await" /\ g.cmd = "cleanup" /\ g.err = FALSE /\ g.pc # "done" =>
       Reaches(g.empty) /\ (g.pc = "read" => Missed(g.empty + 1))
  /\ r.pc = "await" /\ g.pc = "done" /\ g.code # "fail" => Seen /\ Reaches(Task!Scans)
  /\ r.pc = "awaitAbsent" /\ r.failed = FALSE /\ g.pc = "read" => Missed(r.scans + 1)
  /\ r.pc = "awaitAbsent" /\ r.failed = FALSE /\ g.pc = "done" /\ g.code # "fail" =>
       Reaches(r.scans + 1)
CleanInv == CleanScript /\ CleanGuard

\* A verified pidfd stays verified: the PID has its old occupant, none, or a new one.
LEMMA HoldsStep ==
  ASSUME ProcOK, \A x \in Pids : Ages(x)
  PROVE  \A p \in Pids, n \in Nat : VerifiedFd(p, n) => VerifiedFd(p, n)'
  <1> SUFFICES ASSUME NEW p \in Pids, NEW n \in Nat, VerifiedFd(p, n) PROVE VerifiedFd(p, n)'
    OBVIOUS
  <1>1. Ages(p) /\ proc[p].gen \in Nat
    BY DEF ProcOK, Task!Procs
  <1> QED BY <1>1 DEF Ages, VerifiedFd

LEMMA FdSame ==
  ASSUME Task!SessionAssumption, ProcOK, g \in Guards, FdInv, \A x \in Pids : Ages(x), UNCHANGED g
  PROVE  FdInv'
  <1>1. \A p \in Pids, n \in Nat : VerifiedFd(p, n) => VerifiedFd(p, n)'
    BY HoldsStep
  <1>2. g.pid \in Pids /\ g.fd \in Nat
    BY DEF Guards
  <1> QED BY <1>1, <1>2, LeaderPid DEF FdInv, VerifiedFd, Task!Exists

LEMMA FdLeader ==
  ASSUME Task!SessionAssumption, ProcOK, g \in Guards, FdInv, \A x \in Pids : Ages(x),
         g.pc \in UPCs, g'.pc # "send",
         g'.fd = g.fd
  PROVE  FdInv'
  <1>1. \A p \in Pids, n \in Nat : VerifiedFd(p, n) => VerifiedFd(p, n)'
    BY HoldsStep
  <1>2. g.fd \in Nat /\ VerifiedFd(Leader, g.fd)
    BY DEF Guards, FdInv
  <1> QED BY <1>1, <1>2, LeaderPid DEF FdInv, VerifiedFd, Task!Exists

\* What is true now of the forks stays true, whatever step is taken.
LEMMA Lasts ==
  ASSUME Task!SessionAssumption, RestOK, r \in Scripts, Effect, UNCHANGED r, NEW n \in Nat
  PROVE  /\ Since(n) => forks' >= r.base + n
         /\ Reaches(n) => \A p \in Pids : Task!Ours(p)' => forks' >= r.base + n
         /\ Reaches(n) /\ Missed(n + 1) =>
              \A p \in Pids : Task!Ours(p)' /\ p \notin g.list => forks' >= r.base + (n + 1)
  <1>1. forks \in Nat /\ r.base \in Nat
    BY DEF RestOK, Scripts, Task!SessionAssumption
  <1>2. CASE forks' = forks /\ \A p \in Pids : Task!Ours(p)' => Task!Ours(p)
    BY <1>1, <1>2 DEF Since, Reaches, Missed
  <1>3. CASE forks' = forks + 1 /\ \E p \in Pids : Task!Ours(p)
    BY <1>1, <1>3 DEF Since, Reaches, Missed
  <1> QED BY <1>2, <1>3 DEF Effect, Dwindles

\* A record stays written and a leader that has gone stays away.
LEMMA SeenLasts ==
  ASSUME Effect, record = "written" => record' = "written", Seen
  PROVE  Seen'
  BY DEF Effect, Dwindles, Seen

\* With a written record, or without a leader, the session names everybody of the task.
LEMMA Visible ==
  ASSUME WorldInv, Seen
  PROVE  InSession
  <1> SUFFICES ASSUME NEW p \in Pids, Task!Ours(p) PROVE proc[p].sess = TRUE
    BY DEF InSession
  <1>1. proc[p].own = TRUE
    BY OursFacts DEF WorldInv
  <1>2. CASE p # Leader
    BY <1>1, <1>2 DEF WorldInv, OwnInv
  <1>3. CASE p = Leader
    BY <1>1, <1>3 DEF WorldInv, LeaderInv, Seen
  <1> QED BY <1>2, <1>3
-----------------------------------------------------------------------------
(* Cleanup's answer: steps that leave script and guard alone *)

\* What the script knows stays true, whatever others do.
LEMMA CleanRest ==
  ASSUME Task!SessionAssumption, WorldInv, CleanScript, Effect, UNCHANGED r,
         record = "written" => record' = "written"
  PROVE  CleanScript'
  <1>1. RestOK /\ r \in Scripts /\ r.scans \in Nat
    BY DEF WorldInv, Scripts
  <1>2. Since(0) => Since(0)'
    BY <1>1, Lasts DEF Since
  <1>3. Seen => Seen'
    BY SeenLasts
  <1>4. Reaches(r.scans) => Reaches(r.scans)'
    BY <1>1, Lasts DEF Reaches, Since
  <1> QED BY <1>2, <1>3, <1>4 DEF CleanScript

\* Steps of neither script nor guard keep both.
LEMMA CleanWorld ==
  ASSUME Task!SessionAssumption, WorldInv, g \in Guards, CleanInv, Effect, UNCHANGED <<r, g>>,
         record = "written" => record' = "written"
  PROVE  CleanInv'
  <1>1. RestOK /\ r \in Scripts /\ r.scans \in Nat /\ g.empty \in Nat /\ Task!Scans \in Nat
    BY ScansType DEF WorldInv, Scripts, Guards
  <1>2. Task!Scans' = Task!Scans
    BY DEF Task!Scans
  <1>3. CleanScript'
    BY CleanRest DEF CleanInv
  <1>4. Seen => Seen'
    BY SeenLasts
  <1>5. Reaches(g.empty) => Reaches(g.empty)'
    BY <1>1, Lasts DEF Reaches, Since
  <1>6. Reaches(g.empty) /\ Missed(g.empty + 1) => Missed(g.empty + 1)'
    BY <1>1, Lasts DEF Missed, Since
  <1>7. Reaches(Task!Scans) => Reaches(Task!Scans)'
    BY <1>1, <1>2, Lasts DEF Reaches, Since
  <1>8. Reaches(r.scans) /\ Missed(r.scans + 1) => Missed(r.scans + 1)'
    BY <1>1, Lasts DEF Missed, Since
  <1>9. r.scans + 1 \in Nat
    BY <1>1
  <1>10. Reaches(r.scans + 1) => Reaches(r.scans + 1)'
    BY <1>1, <1>9, Lasts DEF Reaches, Since
  <1>11. CleanGuard'
    BY <1>4, <1>5, <1>6, <1>7, <1>8, <1>10 DEF CleanInv, CleanScript, CleanGuard
  <1> QED BY <1>3, <1>11 DEF CleanInv
-----------------------------------------------------------------------------
(* Cleanup's answer: the steps of the guard *)

\* The guard goes on with its row of empty scans, or begins a new one.
LEMMA CleanGoes ==
  ASSUME Task!SessionAssumption, WorldInv, g \in Guards, CleanInv, Effect, UNCHANGED <<record, r>>,
         g.pc # "done", NEW q, NEW f, Goes(q, f), q \notin {"read", "done"}
  PROVE  CleanInv'
  <1>1. CleanScript'
    BY CleanRest DEF CleanInv
  <1>2. RestOK /\ r \in Scripts /\ g.empty \in Nat /\ g'.empty \in Nat
    BY DEF WorldInv, Guards, Goes, Keeps
  <1>3. g'.pc = q /\ g'.cmd = g.cmd /\ (g'.err = FALSE => g.err = FALSE)
    BY DEF Goes, Keeps
  <1>4. Reaches(g.empty) => Reaches(g'.empty)
    <2>1. forks \in Nat /\ r.base \in Nat /\ g'.empty <= g.empty
      BY <1>2 DEF RestOK, Scripts, Task!SessionAssumption, Goes
    <2> QED BY <1>2, <2>1 DEF Reaches, Since
  <1>5. Reaches(g'.empty) => Reaches(g.empty)'
    BY <1>2, Lasts DEF Reaches, Since
  <1>6. CleanGuard'
    BY <1>3, <1>4, <1>5 DEF CleanInv, CleanGuard
  <1> QED BY <1>1, <1>6 DEF CleanInv

\* A row of empty scans grows only when nobody of the task was on the list.
LEMMA CleanCounts ==
  ASSUME Task!SessionAssumption, WorldInv, g \in Guards, GuardInv, CleanInv, Effect,
         UNCHANGED <<record, r>>,
         g.pc = "read", NEW q, NEW f, Counts(q, f), q \notin {"read", "done"}
  PROVE  CleanInv'
  <1>1. CleanScript'
    BY CleanRest DEF CleanInv
  <1>2. RestOK /\ r \in Scripts /\ g.empty \in Nat /\ g'.empty \in Nat
    BY DEF WorldInv, Guards, Counts, Keeps
  <1>3. /\ g'.pc = q /\ g'.cmd = g.cmd /\ (g'.err = FALSE => g.err = FALSE /\ Clear)
        /\ g'.empty <= g.empty + 1
    BY DEF Counts, Keeps
  <1>4. ASSUME r.pc = "await", g.cmd = "cleanup", g'.err = FALSE
        PROVE  Reaches(g'.empty)
    <2>1. InSession
      BY <1>4, Visible DEF GuardInv, Fits, Seen
    <2>2. Missed(g.empty + 1) /\ \A p \in Pids : Task!Ours(p) => p \notin g.list
      BY <1>3, <1>4, <2>1 DEF Clear, CleanInv, CleanGuard
    <2>3. forks \in Nat /\ r.base \in Nat
      BY <1>2 DEF RestOK, Scripts, Task!SessionAssumption
    <2> QED BY <1>2, <1>3, <2>2, <2>3 DEF Missed, Reaches, Since
  <1>5. Reaches(g'.empty) => Reaches(g.empty)'
    BY <1>2, Lasts DEF Reaches, Since
  <1>6. CleanGuard'
    BY <1>3, <1>4, <1>5 DEF CleanGuard
  <1> QED BY <1>1, <1>6 DEF CleanInv

\* A command that fails claims nothing.
LEMMA CleanFails ==
  ASSUME Task!SessionAssumption, WorldInv, CleanInv, Effect, UNCHANGED <<record, r>>, Ends("fail")
  PROVE  CleanInv'
  <1>1. CleanScript'
    BY CleanRest DEF CleanInv
  <1> QED BY <1>1 DEF CleanInv, CleanGuard, Ends

\* A command that succeeds has to have what it claims.
LEMMA CleanOk ==
  ASSUME Task!SessionAssumption, WorldInv, g \in Guards, CleanInv, Effect, UNCHANGED <<record,
         r>>, Ends("ok"),
         r.pc = "await" => Seen /\ Reaches(Task!Scans),
         r.pc = "awaitAbsent" /\ r.failed = FALSE => Reaches(r.scans + 1)
  PROVE  CleanInv'
  <1>1. CleanScript'
    BY CleanRest DEF CleanInv
  <1>2. RestOK /\ r \in Scripts /\ Task!Scans \in Nat /\ r.scans + 1 \in Nat
    BY ScansType DEF WorldInv, Scripts
  <1>3. Task!Scans' = Task!Scans
    BY DEF Task!Scans, Ends
  <1>4. Seen => Seen'
    BY SeenLasts
  <1>5. Reaches(Task!Scans) => Reaches(Task!Scans)'
    BY <1>2, <1>3, Lasts DEF Reaches, Since
  <1>6. Reaches(r.scans + 1) => Reaches(r.scans + 1)'
    BY <1>2, Lasts DEF Reaches, Since
  <1>7. CleanGuard'
    BY <1>4, <1>5, <1>6 DEF CleanGuard, Ends
  <1> QED BY <1>1, <1>7 DEF CleanInv

\* Nobody who is there is missing from the list when it is made.
LEMMA CleanList ==
  ASSUME Task!SessionAssumption, WorldInv, WorldInv', g \in Guards, CleanInv, Effect,
         UNCHANGED <<proc, record, r>>, Task!ListProc
  PROVE  CleanInv'
  <1>1. CleanScript'
    BY CleanRest DEF CleanInv
  <1>2. /\ Goes("read", g.ph) /\ g'.empty = g.empty /\ g'.list = {p \in Pids : Task!Exists(p)}
    BY ListFacts
  <1>3. RestOK /\ r \in Scripts /\ g.empty \in Nat /\ g.pc = "list"
    BY DEF WorldInv, Guards, Task!ListProc
  <1>5. Reaches(g.empty) => Reaches(g.empty)'
    BY <1>2, <1>3, Lasts DEF Reaches, Since
  <1>6. Missed(g.empty + 1)' /\ Missed(r.scans + 1)'
    BY <1>2 DEF Missed, Task!Ours, Task!Live, Task!Exists
  <1>7. g'.pc = "read" /\ g'.cmd = g.cmd /\ (g'.err = FALSE => g.err = FALSE)
    BY <1>2 DEF Goes, Keeps
  <1>8. CleanGuard'
    BY <1>3, <1>5, <1>6, <1>7 DEF CleanInv, CleanGuard
  <1> QED BY <1>1, <1>8 DEF CleanInv

LEMMA CleanTick ==
  ASSUME Task!SessionAssumption, WorldInv, g \in Guards, CleanInv, Effect, UNCHANGED <<record,
         r>>, Task!Tick
  PROVE  CleanInv'
  <1>1. CleanScript'
    BY CleanRest DEF CleanInv
  <1>2. RestOK /\ r \in Scripts /\ r.scans \in Nat /\ g.empty \in Nat
    BY DEF WorldInv, Scripts, Guards
  <1>3. /\ g'.list = g.list /\ g'.empty = g.empty /\ g'.pc = g.pc /\ g'.cmd = g.cmd
        /\ g'.err = FALSE => g.err = FALSE
    BY TickFacts DEF Goes, Keeps
  <1>4. g.pc # "done"
    BY DEF Task!Tick
  <1>5. Reaches(g.empty) => Reaches(g.empty)'
    BY <1>2, <1>3, Lasts DEF Reaches, Since
  <1>6. Reaches(g.empty) /\ Missed(g.empty + 1) => Missed(g.empty + 1)'
    BY <1>2, <1>3, Lasts DEF Missed, Since
  <1>7. Reaches(r.scans) /\ Missed(r.scans + 1) => Missed(r.scans + 1)'
    BY <1>2, <1>3, Lasts DEF Missed, Since
  <1>8. CleanGuard'
    BY <1>3, <1>4, <1>5, <1>6, <1>7 DEF CleanInv, CleanScript, CleanGuard
  <1> QED BY <1>1, <1>8 DEF CleanInv
-----------------------------------------------------------------------------
(* The guard keeps its invariants *)

StepInv == g \in Guards /\ FdInv /\ GuardInv /\ CleanInv

\* A command that goes on within its steps keeps GuardInv.
LEMMA FitsKeeps ==
  ASSUME g \in Guards, GuardInv, UNCHANGED r, NEW q, NEW f, Keeps(q, f), Fits'
  PROVE  GuardInv' /\ g' \in Guards
  <1>1. g'.err \in BOOLEAN
    BY DEF Keeps, Guards
  <1>2. g'.excl = TRUE => g'.err = TRUE
    BY <1>1 DEF GuardInv, Keeps
  <1> QED BY <1>2 DEF GuardInv, Keeps

\* So does a command that ends.
LEMMA FitsEnds ==
  ASSUME g \in Guards, GuardInv, UNCHANGED r, NEW c, Ends(c), g.pc # "none"
  PROVE  GuardInv' /\ FdInv' /\ g' \in Guards
  <1>1. Fits'
    BY DEF GuardInv, Fits, Ends, Rounds, UPCs
  <1> QED BY <1>1 DEF GuardInv, FdInv, UPCs, Ends

LEMMA StepGoes ==
  ASSUME Task!SessionAssumption, WorldInv, StepInv, Effect, UNCHANGED <<record, r>>,
         g.pc # "done", NEW q, NEW f,
         Goes(q, f), q \notin {"read", "done", "send"} \cup UPCs, Fits'
  PROVE  StepInv'
  <1>1. GuardInv' /\ g' \in Guards
    BY FitsKeeps DEF StepInv, Goes
  <1>2. CleanInv'
    BY CleanGoes DEF StepInv
  <1>3. FdInv'
    BY DEF FdInv, Goes, Keeps
  <1> QED BY <1>1, <1>2, <1>3 DEF StepInv

LEMMA StepCounts ==
  ASSUME Task!SessionAssumption, WorldInv, StepInv, Effect, UNCHANGED <<record, r>>,
         g.pc = "read", NEW q, NEW f,
         Counts(q, f), q \notin {"read", "done", "send"} \cup UPCs, Fits'
  PROVE  StepInv'
  <1>1. GuardInv' /\ g' \in Guards
    BY FitsKeeps DEF StepInv, Counts
  <1>2. CleanInv'
    BY CleanCounts DEF StepInv
  <1>3. FdInv'
    BY DEF FdInv, Counts, Keeps
  <1> QED BY <1>1, <1>2, <1>3 DEF StepInv

\* The steps of terminate_unregistered_session keep the pidfd they have opened.
LEMMA StepUnregistered ==
  ASSUME Task!SessionAssumption, WorldInv, StepInv, Effect, UNCHANGED <<record, r>>,
         g.pc # "done", NEW q, NEW f,
         Goes(q, f), q \in UPCs, Fits', FdInv'
  PROVE  StepInv'
  <1>1. GuardInv' /\ g' \in Guards
    BY FitsKeeps DEF StepInv, Goes
  <1>2. CleanInv'
    BY CleanGoes DEF StepInv, UPCs
  <1> QED BY <1>1, <1>2 DEF StepInv

LEMMA StepFails ==
  ASSUME Task!SessionAssumption, WorldInv, StepInv, Effect, UNCHANGED <<record, r>>,
         g.pc # "none", Ends("fail")
  PROVE  StepInv'
  BY FitsEnds, CleanFails DEF StepInv

LEMMA StepOk ==
  ASSUME Task!SessionAssumption, WorldInv, StepInv, Effect, UNCHANGED <<record, r>>,
         g.pc # "none", Ends("ok"),
         r.pc = "await" => Seen /\ Reaches(Task!Scans),
         r.pc = "awaitAbsent" /\ r.failed = FALSE => Reaches(r.scans + 1)
  PROVE  StepInv'
  BY FitsEnds, CleanOk DEF StepInv

LEMMA StepTick ==
  ASSUME Task!SessionAssumption, WorldInv, StepInv, Effect, UNCHANGED <<record, r>>, Task!Tick
  PROVE  StepInv'
  <1>1. /\ Goes(g.pc, g.ph) /\ g'.fd = g.fd /\ g'.killed = g.killed
    BY TickFacts DEF StepInv
  <1>2. Fits'
    BY <1>1 DEF StepInv, GuardInv, Fits, Goes, Keeps
  <1>3. GuardInv' /\ g' \in Guards
    BY <1>1, <1>2, FitsKeeps DEF StepInv, Goes
  <1>4. CleanInv'
    BY CleanTick DEF StepInv
  <1>5. FdInv'
    <2>1. g.pc # "send" /\ g'.pc = g.pc
      BY <1>1 DEF Task!Tick, Goes, Keeps
    <2>2. CASE g.pc \in UPCs
      BY <1>1, <2>1, <2>2, FdLeader DEF WorldInv, StepInv, Effect
    <2>3. CASE g.pc \notin UPCs
      BY <2>1, <2>3 DEF FdInv
    <2> QED BY <2>2, <2>3
  <1> QED BY <1>3, <1>4, <1>5 DEF StepInv

LEMMA StepList ==
  ASSUME Task!SessionAssumption, WorldInv, WorldInv', StepInv, Effect, UNCHANGED <<proc, record,
         r>>, Task!ListProc
  PROVE  StepInv'
  <1>1. Goes("read", g.ph) /\ g.pc = "list"
    BY ListFacts DEF StepInv, Task!ListProc
  <1>2. Fits'
    BY <1>1 DEF StepInv, GuardInv, Fits, Goes, Keeps, UPCs, Rounds
  <1>3. GuardInv' /\ g' \in Guards
    BY <1>1, <1>2, FitsKeeps DEF StepInv, Goes
  <1>4. CleanInv'
    BY CleanList DEF StepInv
  <1>5. FdInv'
    BY <1>1 DEF FdInv, Goes, Keeps, UPCs
  <1> QED BY <1>3, <1>4, <1>5 DEF StepInv

\* The reading of a scan, phase by phase.
LEMMA StepRead ==
  ASSUME Task!SessionAssumption, WorldInv, StepInv, Effect, UNCHANGED <<record, r>>,
         Task!ReadEntries
  PROVE  StepInv'
  <1>1. ReadOutcome /\ g.pc = "read"
    BY ReadFacts DEF StepInv, GuardInv, Task!ReadEntries
  <1>2. /\ GuardInv /\ CleanInv /\ g \in Guards /\ Fits /\ g.empty \in Nat /\ r \in Scripts
        /\ forks \in Nat /\ r.base \in Nat
    BY DEF StepInv, GuardInv, Guards, WorldInv, RestOK, Scripts, Task!SessionAssumption
  <1>3. CASE g.ph = "init" /\ Goes("leader", "init")
    <2>1. Fits'
      BY <1>1, <1>2, <1>3 DEF Fits, Goes, Keeps, UPCs, Rounds
    <2> QED BY <1>1, <1>3, <2>1, StepGoes DEF UPCs
  <1>4. CASE g.ph \in {"term", "kill"} /\ Goes("next", g.ph)
    <2>1. Fits'
      BY <1>1, <1>2, <1>4 DEF Fits, Goes, Keeps, UPCs, Rounds
    <2> QED BY <1>1, <1>4, <2>1, StepGoes DEF UPCs
  <1>5. CASE g.ph = "termwait" /\ TermOutcome
    <2>1. CASE Ends("fail")
      BY <1>1, <2>1, StepFails
    <2>2. CASE Ends("ok") /\ g.err = FALSE /\ Clear /\ g.empty + 1 >= TermConfirmations
      <3>1. g.cmd = "cleanup" /\ record = "written"
        BY <1>1, <1>2, <1>5 DEF Fits, UPCs, Guards, Commands
      <3>2. r.pc # "awaitAbsent"
        BY <1>2, <3>1 DEF GuardInv
      <3>3. ASSUME r.pc = "await" PROVE Reaches(Task!Scans)
        <4>1. Missed(g.empty + 1)
          BY <1>1, <1>2, <2>2, <3>1, <3>3 DEF CleanInv, CleanGuard
        <4>2. \A p \in Pids : Task!Ours(p) => p \notin g.list
          BY <2>2, <3>1, Visible DEF Clear, Seen
        <4>3. Task!Scans <= g.empty + 1 /\ Task!Scans \in Nat
          BY <1>2, <2>2, <3>1, ScansType DEF Task!Scans, Task!SessionAssumption
        <4> QED BY <1>2, <4>1, <4>2, <4>3 DEF Missed, Reaches, Since
      <3> QED BY <1>1, <2>2, <3>1, <3>2, <3>3, StepOk DEF Seen
    <2>3. CASE Counts("list", "termwait")
      <3>1. Fits'
        BY <1>1, <1>2, <1>5, <2>3 DEF Fits, Counts, Keeps, UPCs, Rounds
      <3> QED BY <1>1, <2>3, <3>1, StepCounts DEF UPCs
    <2>4. CASE Goes("list", "termwait")
      <3>1. Fits'
        BY <1>1, <1>2, <1>5, <2>4 DEF Fits, Goes, Keeps, UPCs, Rounds
      <3> QED BY <1>1, <2>4, <3>1, StepGoes DEF UPCs
    <2>5. CASE Goes("list", "kill") /\ g'.killed = TRUE
      <3>1. Fits'
        BY <1>1, <1>2, <1>5, <2>5 DEF Fits, Goes, Keeps, UPCs, Rounds
      <3> QED BY <1>1, <2>5, <3>1, StepGoes DEF UPCs
    <2> QED BY <1>5, <2>1, <2>2, <2>3, <2>4, <2>5 DEF TermOutcome
  <1>6. CASE g.ph = "killwait" /\ KillOutcome
    <2>1. ASSUME NEW q \in {"fallback", "signalled"}, Counts(q, "killwait") PROVE StepInv'
      <3>1. Fits'
        BY <1>1, <1>2, <1>6, <2>1 DEF Fits, Counts, Keeps, UPCs, Rounds
      <3> QED BY <1>1, <2>1, <3>1, StepCounts DEF UPCs
    <2>2. ASSUME NEW q \in {"fallback", "signalled", "list"}, NEW f \in {"killwait", "kill"},
                 Goes(q, f), q # "list" => f = "killwait"
          PROVE  StepInv'
      <3>1. Fits'
        BY <1>1, <1>2, <1>6, <2>2 DEF Fits, Goes, Keeps, UPCs, Rounds
      <3> QED BY <1>1, <2>2, <3>1, StepGoes DEF UPCs
    <2> QED BY <1>6, <2>1, <2>2 DEF KillOutcome
  <1>7. CASE g.ph = "absent" /\ AbsentOutcome
    <2>0. g.cmd = "absent"
      BY <1>1, <1>2, <1>7 DEF Fits, UPCs, Guards, Commands
    <2>1. CASE Ends("fail")
      BY <1>1, <2>1, StepFails
    <2>2. CASE Ends("ok") /\ Clear
      <3>1. r.pc # "await"
        BY <1>2, <2>0 DEF GuardInv
      <3>2. ASSUME r.pc = "awaitAbsent", r.failed = FALSE PROVE Reaches(r.scans + 1)
        <4>1. Missed(r.scans + 1) /\ Seen
          BY <1>1, <1>2, <3>2 DEF CleanInv, CleanGuard, CleanScript
        <4>2. \A p \in Pids : Task!Ours(p) => p \notin g.list
          BY <2>2, <4>1, Visible DEF Clear
        <4> QED BY <4>1, <4>2 DEF Missed, Reaches
      <3> QED BY <1>1, <2>2, <3>1, <3>2, StepOk
    <2>3. CASE Goes("list", "absent")
      <3>1. Fits'
        BY <1>1, <1>2, <2>0, <2>3 DEF Fits, Goes, Keeps, UPCs, Rounds
      <3> QED BY <1>1, <2>3, <3>1, StepGoes DEF UPCs
    <2> QED BY <1>7, <2>1, <2>2, <2>3 DEF AbsentOutcome
  <1> QED BY <1>1, <1>3, <1>4, <1>5, <1>6, <1>7 DEF ReadOutcome

LEMMA StepRecord ==
  ASSUME Task!SessionAssumption, WorldInv, StepInv, Effect, UNCHANGED <<record, r>>, Task!ReadRecord
  PROVE  StepInv'
  <1>1. g \in Guards /\ GuardInv /\ Fits /\ g.pc = "record"
    BY DEF StepInv, GuardInv, Task!ReadRecord
  <1>2. CASE record = "written" /\ Goes("list", "init")
    <2>1. Fits'
      BY <1>1, <1>2 DEF Fits, Goes, Keeps, UPCs, Rounds
    <2> QED BY <1>1, <1>2, <2>1, StepGoes DEF UPCs
  <1>3. CASE Ends("fail")
    BY <1>1, <1>3, StepFails
  <1> QED BY <1>1, <1>2, <1>3, RecordFacts

LEMMA StepLeader ==
  ASSUME Task!SessionAssumption, WorldInv, StepInv, Effect, UNCHANGED <<record, r>>, Task!ReadLeader
  PROVE  StepInv'
  <1>1. g \in Guards /\ GuardInv /\ Fits /\ g.pc = "leader"
    BY DEF StepInv, GuardInv, Task!ReadLeader
  <1>2. CASE Goes("anchor", g.ph)
    <2>1. Fits'
      BY <1>1, <1>2 DEF Fits, Goes, Keeps, UPCs, Rounds
    <2> QED BY <1>1, <1>2, <2>1, StepGoes DEF UPCs
  <1>3. CASE Goes("list", "term")
    <2>1. Fits'
      BY <1>1, <1>3 DEF Fits, Goes, Keeps, UPCs, Rounds
    <2> QED BY <1>1, <1>3, <2>1, StepGoes DEF UPCs
  <1> QED BY <1>1, <1>2, <1>3, LeaderFacts

LEMMA StepAnchor ==
  ASSUME Task!SessionAssumption, WorldInv, StepInv, Effect, UNCHANGED <<record, r>>,
         Task!AnchorLeader
  PROVE  StepInv'
  <1>1. g \in Guards /\ GuardInv /\ Fits /\ g.pc = "anchor"
    BY DEF StepInv, GuardInv, Task!AnchorLeader
  <1>2. CASE Goes("list", "term")
    <2>1. Fits'
      BY <1>1, <1>2 DEF Fits, Goes, Keeps, UPCs, Rounds
    <2> QED BY <1>1, <1>2, <2>1, StepGoes DEF UPCs
  <1> QED BY <1>1, <1>2, AnchorFacts

LEMMA StepNext ==
  ASSUME Task!SessionAssumption, WorldInv, StepInv, Effect, UNCHANGED <<record, r>>, Task!NextMember
  PROVE  StepInv'
  <1>1. g \in Guards /\ GuardInv /\ Fits /\ g.pc = "next"
    BY DEF StepInv, GuardInv, Task!NextMember
  <1>2. CASE g.ph = "term" /\ Goes("fallback", "term")
    <2>1. Fits'
      BY <1>1, <1>2 DEF Fits, Goes, Keeps, UPCs, Rounds
    <2> QED BY <1>1, <1>2, <2>1, StepGoes DEF UPCs
  <1>3. CASE g.ph = "term" /\ Goes("signalled", "term")
    <2>1. Fits'
      BY <1>1, <1>3 DEF Fits, Goes, Keeps, UPCs, Rounds
    <2> QED BY <1>1, <1>3, <2>1, StepGoes DEF UPCs
  <1>4. CASE g.ph # "term" /\ Goes("list", "killwait")
    <2>1. Fits'
      BY <1>1, <1>4 DEF Fits, Goes, Keeps, UPCs, Rounds
    <2> QED BY <1>1, <1>4, <2>1, StepGoes DEF UPCs
  <1>5. CASE Goes("open", g.ph)
    <2>1. Fits'
      BY <1>1, <1>5 DEF Fits, Goes, Keeps, UPCs, Rounds
    <2> QED BY <1>1, <1>5, <2>1, StepGoes DEF UPCs
  <1>6. CASE Goes("next", g.ph)
    <2>1. Fits'
      BY <1>1, <1>6 DEF Fits, Goes, Keeps, UPCs, Rounds
    <2> QED BY <1>1, <1>6, <2>1, StepGoes DEF UPCs
  <1> QED BY <1>1, <1>2, <1>3, <1>4, <1>5, <1>6, NextFacts

LEMMA StepOpen ==
  ASSUME Task!SessionAssumption, WorldInv, StepInv, Effect, UNCHANGED <<record, r>>, Task!OpenPidfd
  PROVE  StepInv'
  <1>1. g \in Guards /\ GuardInv /\ Fits /\ g.pc = "open"
    BY DEF StepInv, GuardInv, Task!OpenPidfd
  <1>2. CASE Goes("snap", g.ph)
    <2>1. Fits'
      BY <1>1, <1>2 DEF Fits, Goes, Keeps, UPCs, Rounds
    <2> QED BY <1>1, <1>2, <2>1, StepGoes DEF UPCs
  <1>3. CASE Goes("next", g.ph)
    <2>1. Fits'
      BY <1>1, <1>3 DEF Fits, Goes, Keeps, UPCs, Rounds
    <2> QED BY <1>1, <1>3, <2>1, StepGoes DEF UPCs
  <1> QED BY <1>1, <1>2, <1>3, OpenFacts DEF WorldInv

LEMMA StepFirst ==
  ASSUME Task!SessionAssumption, WorldInv, StepInv, Effect, UNCHANGED <<record, r>>,
         Task!FirstSnapshot
  PROVE  StepInv'
  <1>1. g \in Guards /\ GuardInv /\ Fits /\ g.pc = "snap"
    BY DEF StepInv, GuardInv, Task!FirstSnapshot
  <1>2. CASE Goes("verify", g.ph)
    <2>1. Fits'
      BY <1>1, <1>2 DEF Fits, Goes, Keeps, UPCs, Rounds
    <2> QED BY <1>1, <1>2, <2>1, StepGoes DEF UPCs
  <1>3. CASE Goes("next", g.ph)
    <2>1. Fits'
      BY <1>1, <1>3 DEF Fits, Goes, Keeps, UPCs, Rounds
    <2> QED BY <1>1, <1>3, <2>1, StepGoes DEF UPCs
  <1> QED BY <1>1, <1>2, <1>3, FirstFacts DEF WorldInv

LEMMA StepSecond ==
  ASSUME Task!SessionAssumption, WorldInv, StepInv, Effect, UNCHANGED <<record, r>>,
         Task!SecondSnapshot
  PROVE  StepInv'
  <1>1. g \in Guards /\ GuardInv /\ Fits /\ g.pc = "verify"
    BY DEF StepInv, GuardInv, Task!SecondSnapshot
  <1>2. CASE Goes("current", g.ph)
    <2>1. Fits'
      BY <1>1, <1>2 DEF Fits, Goes, Keeps, UPCs, Rounds
    <2> QED BY <1>1, <1>2, <2>1, StepGoes DEF UPCs
  <1>3. CASE Goes("next", g.ph)
    <2>1. Fits'
      BY <1>1, <1>3 DEF Fits, Goes, Keeps, UPCs, Rounds
    <2> QED BY <1>1, <1>3, <2>1, StepGoes DEF UPCs
  <1> QED BY <1>1, <1>2, <1>3, SecondFacts

LEMMA StepSend ==
  ASSUME Task!SessionAssumption, WorldInv, StepInv, Effect, UNCHANGED <<record, r>>, Task!SendSignal
  PROVE  StepInv'
  <1>1. g \in Guards /\ GuardInv /\ Fits /\ g.pc = "send"
    BY DEF StepInv, GuardInv, Task!SendSignal
  <1>2. CASE Goes("next", g.ph)
    <2>1. Fits'
      BY <1>1, <1>2 DEF Fits, Goes, Keeps, UPCs, Rounds
    <2> QED BY <1>1, <1>2, <2>1, StepGoes DEF UPCs
  <1> QED BY <1>1, <1>2, SendFacts

LEMMA StepSignal ==
  ASSUME Task!SessionAssumption, WorldInv, StepInv, Effect, UNCHANGED <<record, r>>,
         Task!SignalLeader
  PROVE  StepInv'
  <1>1. g \in Guards /\ GuardInv /\ Fits /\ g.pc = "fallback"
    BY DEF StepInv, GuardInv, Task!SignalLeader
  <1>2. CASE Goes("signalled", g.ph)
    <2>1. Fits'
      BY <1>1, <1>2 DEF Fits, Goes, Keeps, UPCs, Rounds
    <2> QED BY <1>1, <1>2, <2>1, StepGoes DEF UPCs
  <1> QED BY <1>1, <1>2, SignalFacts

\* The last look at a member before the signal is what makes its pidfd safe.
LEMMA StepCurrent ==
  ASSUME Task!SessionAssumption, WorldInv, StepInv, Effect, UNCHANGED <<record, r>>,
         Task!MemberIsCurrent
  PROVE  StepInv'
  <1>1. g \in Guards /\ GuardInv /\ Fits /\ g.pc = "current"
    BY DEF StepInv, GuardInv, Task!MemberIsCurrent
  <1>2. CASE Goes("next", g.ph)
    <2>1. Fits'
      BY <1>1, <1>2 DEF Fits, Goes, Keeps, UPCs, Rounds
    <2> QED BY <1>1, <1>2, <2>1, StepGoes DEF UPCs
  <1>3. CASE /\ Goes("send", g.ph) /\ g'.pid = g.pid /\ g'.fd = g.fd
             /\ Task!Live(g.pid) /\ proc[g.pid].gen = g.fd /\ Task!Member(g.pid)
    <2>1. Fits'
      BY <1>1, <1>3 DEF Fits, Goes, Keeps, UPCs, Rounds
    <2>2. GuardInv' /\ g' \in Guards
      BY <1>1, <1>3, <2>1, FitsKeeps DEF Goes
    <2>3. CleanInv'
      BY <1>1, <1>3, CleanGoes DEF StepInv
    <2>4. g.pid \in Pids /\ g.fd \in Nat /\ proc[g.pid].sess = TRUE /\ Task!Exists(g.pid)
      BY <1>1, <1>3 DEF Guards, WorldInv, ProcOK, Task!Procs, Task!Member
    <2>5. proc[g.pid].own = TRUE
      <3>1. CASE g.pid # Leader
        BY <2>4, <3>1 DEF WorldInv, OwnInv
      <3>2. CASE g.pid = Leader
        BY <1>3, <2>4, <3>2 DEF WorldInv, OwnInv, Task!Member, Task!LeaderStart
      <3> QED BY <3>1, <3>2
    <2>6. VerifiedFd(g.pid, g.fd)
      BY <1>3, <2>4, <2>5 DEF VerifiedFd
    <2>7. \A p \in Pids, n \in Nat : VerifiedFd(p, n) => VerifiedFd(p, n)'
      BY HoldsStep DEF WorldInv, Effect
    <2>8. FdInv'
      BY <1>3, <2>4, <2>6, <2>7 DEF FdInv, VerifiedFd, Task!Exists, Goes, Keeps, UPCs
    <2> QED BY <2>2, <2>3, <2>8 DEF StepInv
  <1> QED BY <1>1, <1>2, <1>3, CurrentFacts

LEMMA StepAfter ==
  ASSUME Task!SessionAssumption, WorldInv, StepInv, Effect, UNCHANGED <<record, r>>,
         Task!AfterSignals
  PROVE  StepInv'
  <1>1. g \in Guards /\ GuardInv /\ Fits /\ g.pc = "signalled" /\ CleanInv
    BY DEF StepInv, GuardInv, Task!AfterSignals
  <1>2. g.cmd = "cleanup" /\ record = "written"
    BY <1>1 DEF Fits, UPCs, Guards, Commands
  <1>3. CASE g.ph = "term" /\ Goes("list", "termwait")
    <2>1. Fits'
      BY <1>1, <1>3 DEF Fits, Goes, Keeps, UPCs, Rounds
    <2> QED BY <1>1, <1>3, <2>1, StepGoes DEF UPCs
  <1>4. CASE Ends("fail")
    BY <1>1, <1>4, StepFails
  <1>5. CASE g.ph # "term" /\ Ends("ok") /\ g.empty = 1 /\ g.err = FALSE
    <2>1. g.killed = TRUE
      BY <1>1, <1>5 DEF Fits
    <2>2. Task!Scans = 1
      BY <1>2, <2>1 DEF Task!Scans
    <2>3. r.pc # "awaitAbsent"
      BY <1>1, <1>2 DEF GuardInv
    <2>4. r.pc = "await" => Reaches(g.empty)
      BY <1>1, <1>2, <1>5 DEF CleanInv, CleanGuard
    <2>5. r.pc = "await" => Seen /\ Reaches(Task!Scans)
      BY <1>2, <1>5, <2>2, <2>4 DEF Seen
    <2> QED BY <1>1, <1>5, <2>3, <2>5, StepOk
  <1> QED BY <1>1, <1>3, <1>4, <1>5, AfterFacts

\* A leader that is not there is worth the answer "ok" when no record exists.
LEMMA StepGone ==
  ASSUME Task!SessionAssumption, WorldInv, StepInv, Effect, UNCHANGED <<record, r>>,
         g.cmd = "unregistered",
         g.pc # "none", Ends("ok"), ~Task!Live(Leader)
  PROVE  StepInv'
  <1>1. r.pc # "awaitAbsent"
    BY DEF StepInv, GuardInv
  <1>2. Task!Scans = 0
    BY DEF Task!Scans
  <1>3. r.pc = "await" => Seen /\ Reaches(Task!Scans)
    BY <1>2 DEF StepInv, CleanInv, CleanScript, Seen, Task!Ours, Reaches
  <1> QED BY <1>1, <1>3, StepOk

LEMMA StepOpenUnregistered ==
  ASSUME Task!SessionAssumption, WorldInv, StepInv, Effect, UNCHANGED <<record, r>>,
         Task!OpenUnregistered
  PROVE  StepInv'
  <1>1. g \in Guards /\ GuardInv /\ Fits /\ g.pc = "uopen"
    BY DEF StepInv, GuardInv, Task!OpenUnregistered
  <1>2. g.cmd = "unregistered"
    BY <1>1 DEF Fits, Guards, Commands
  <1>3. CASE Ends("fail")
    BY <1>1, <1>3, StepFails
  <1>4. CASE Ends("ok") /\ ~Task!Live(Leader)
    BY <1>1, <1>2, <1>4, StepGone
  <1>5. CASE Goes("ufields", g.ph) /\ g'.fd = g.fd /\ Task!Identity(g.fd, "python")
    <2>1. Fits'
      BY <1>1, <1>2, <1>5 DEF Fits, Goes, Keeps, UPCs, Rounds
    <2>2. Task!Live(Leader) /\ proc[Leader].gen = g.fd /\ Task!Exe = "python"
      BY <1>5 DEF Task!Identity
    <2>3. proc[Leader].own = TRUE
      BY <2>2, LeaderPid DEF Task!Exe, WorldInv, ProcOK, Task!Procs
    <2>4. g.fd \in Nat /\ VerifiedFd(Leader, g.fd)
      BY <1>1, <2>2, <2>3 DEF VerifiedFd, Guards
    <2>5. \A p \in Pids, n \in Nat : VerifiedFd(p, n) => VerifiedFd(p, n)'
      BY HoldsStep DEF WorldInv, Effect
    <2>6. FdInv'
      BY <1>5, <2>4, <2>5, LeaderPid DEF FdInv, VerifiedFd, Task!Exists, Goes, Keeps, UPCs
    <2> QED BY <1>1, <1>5, <2>1, <2>6, StepUnregistered DEF UPCs
  <1> QED BY <1>1, <1>3, <1>4, <1>5, OpenUnregisteredFacts

LEMMA StepKeepsFd ==
  ASSUME Task!SessionAssumption, WorldInv, StepInv, Effect, UNCHANGED <<record, r>>,
         g.cmd = "unregistered",
         g.pc \in UPCs, NEW q \in UPCs, Goes(q, g.ph), g'.fd = g.fd
  PROVE  StepInv'
  <1>1. g \in Guards /\ GuardInv /\ Fits /\ FdInv
    BY DEF StepInv, GuardInv
  <1>2. Fits'
    BY <1>1 DEF Fits, Goes, Keeps, UPCs, Rounds
  <1>3. FdInv'
    BY <1>1, FdLeader DEF WorldInv, Effect, Goes, Keeps, UPCs
  <1> QED BY <1>2, <1>3, StepUnregistered DEF UPCs

LEMMA StepUnregisteredRest ==
  ASSUME Task!SessionAssumption, WorldInv, StepInv, Effect, UNCHANGED <<record, r>>,
         Task!CheckUnregistered \/ Task!SignalUnregistered \/ Task!AwaitUnregistered
  PROVE  StepInv'
  <1>1. g \in Guards /\ GuardInv /\ Fits /\ g.pc \in UPCs
    BY DEF StepInv, GuardInv, Task!CheckUnregistered, Task!SignalUnregistered,
       Task!AwaitUnregistered, UPCs
  <1>2. g.cmd = "unregistered" /\ g.pc # "none"
    BY <1>1 DEF Fits, Guards, Commands, UPCs
  <1>3. CASE Ends("fail")
    BY <1>2, <1>3, StepFails
  <1>4. CASE Ends("ok") /\ ~Task!Live(Leader)
    BY <1>2, <1>4, StepGone
  <1>5. ASSUME NEW q \in UPCs, Goes(q, g.ph), g'.fd = g.fd
        PROVE  StepInv'
    BY <1>1, <1>2, <1>5, StepKeepsFd
  <1>6. {"uterm", "ukill", "uwait", "uwaitKill"} \subseteq UPCs
    BY DEF UPCs
  <1>7. CASE Task!CheckUnregistered
    BY <1>1, <1>3, <1>5, <1>6, <1>7, CheckUnregisteredFacts
  <1>8. CASE Task!SignalUnregistered
    BY <1>1, <1>5, <1>6, <1>8, SignalUnregisteredFacts
  <1>9. CASE Task!AwaitUnregistered
    BY <1>1, <1>3, <1>4, <1>5, <1>6, <1>9, AwaitUnregisteredFacts
  <1> QED BY <1>7, <1>8, <1>9

\* Every step of a guard command keeps the whole invariant.
LEMMA StepGuard ==
  ASSUME Task!SessionAssumption, WorldInv, StepInv, Task!GuardStep \/ Task!Tick
  PROVE  WorldInv' /\ StepInv'
  <1>1. WorldInv' /\ Effect /\ UNCHANGED <<World, r>>
    BY WorldGuard DEF StepInv
  <1>2. UNCHANGED <<record, r>>
    BY <1>1 DEF World
  <1>3. Task!ListProc => UNCHANGED proc
    BY DEF Task!ListProc, Task!GuardOnly
  <1>4. StepInv'
    BY <1>1, <1>2, <1>3, StepTick, StepList, StepRead, StepRecord, StepLeader, StepAnchor,
       StepNext, StepOpen, StepFirst, StepSecond, StepSend, StepSignal, StepCurrent, StepAfter,
       StepOpenUnregistered, StepUnregisteredRest DEF Task!GuardStep
  <1> QED BY <1>1, <1>4
-----------------------------------------------------------------------------
(* The script's steps, and the whole *)

LEMMA CleanNow ==
  ASSUME Task!SessionAssumption, WorldInv
  PROVE  forks \in Nat /\ r.base \in Nat /\ r.scans \in Nat
  BY DEF WorldInv, RestOK, Scripts, Task!SessionAssumption

LEMMA StepStarting ==
  ASSUME Task!SessionAssumption, WorldInv, StepInv, UNCHANGED <<proc, World>>,
         \A x \in Pids : Ages(x),
         Task!NotePid \/ Task!NoteSession \/ Task!NoteStart \/ Task!EnterCleanup
  PROVE  StepInv'
  <1>1. /\ UNCHANGED g /\ r'.pc \in {"pid", "session", "work", "cleanup"} /\ r'.code = r.code
        /\ r.pc # "exit"
        /\ r'.pc = "cleanup" => r'.base = forks
    BY DEF Task!NotePid, Task!NoteSession, Task!NoteStart, Task!EnterCleanup, WorldInv, Scripts,
       Task!Starting
  <1>2. FdInv'
    BY <1>1, FdSame DEF WorldInv, StepInv
  <1>3. GuardInv'
    BY <1>1 DEF StepInv, GuardInv, Fits, World
  <1>4. CleanInv'
    <2>1. forks' >= forks + 0
      BY CleanNow DEF World
    <2> QED BY <1>1, <2>1 DEF StepInv, CleanInv, CleanScript, CleanGuard, Since, World
  <1> QED BY <1>1, <1>2, <1>3, <1>4 DEF StepInv

\* A command starts with an empty row, or cleanup has failed.
LEMMA StepRunCleanup ==
  ASSUME Task!SessionAssumption, WorldInv, StepInv, UNCHANGED <<proc, World>>,
         \A x \in Pids : Ages(x), Task!RunCleanup
  PROVE  StepInv'
  <1>0. {"cleanup", "unregistered"} \subseteq Commands /\ {"record", "uopen"} \subseteq GuardPCs
        /\ 0 \in Nat
    BY DEF Commands, GuardPCs
  <1>1. r \in Scripts /\ r.pc = "cleanup" /\ r.start \in Nat /\ Since(0) /\ r.code = "none"
    BY DEF WorldInv, Scripts, Task!RunCleanup, StepInv, CleanInv, CleanScript
  <1>2. forks \in Nat /\ r.base \in Nat
    BY CleanNow
  <1>3. CASE g' = Task!Command("cleanup", "record", 0) /\ r' = [r EXCEPT !.pc = "await"]
    <2>1. /\ g' \in Guards /\ g'.cmd = "cleanup" /\ g'.pc = "record" /\ g'.err = FALSE
          /\ g'.excl = FALSE /\ g'.empty = 0 /\ g'.ph = "none"
      <3>1. Opened(Task!Command("cleanup", "record", 0), "cleanup", "record")
        BY <1>0, CommandFacts
      <3>2. Opened(g', "cleanup", "record")
        BY <1>3, <3>1
      <3> QED BY <3>2 DEF Opened
    <2>2. r'.pc = "await" /\ r'.base = r.base /\ r'.code = "none"
      BY <1>1, <1>3 DEF Scripts
    <2>3. FdInv'
      BY <2>1 DEF FdInv, UPCs
    <2>4. GuardInv'
      BY <2>1, <2>2 DEF GuardInv, Fits, UPCs, Rounds
    <2>5. Since(0)'
      BY <1>1, <2>2 DEF Since, World
    <2>6. Reaches(g.empty)'
      BY <2>1, <2>5 DEF Reaches, Since
    <2>7. CleanInv'
      BY <2>1, <2>2, <2>5, <2>6 DEF CleanInv, CleanScript, CleanGuard
    <2> QED BY <2>1, <2>3, <2>4, <2>7 DEF StepInv
  <1>4. CASE g' = Task!Command("unregistered", "uopen", r.start) /\ r' = [r EXCEPT !.pc = "await"]
    <2>1. /\ g' \in Guards /\ g'.cmd = "unregistered" /\ g'.pc = "uopen" /\ g'.err = FALSE
          /\ g'.excl = FALSE /\ g'.empty = 0 /\ g'.ph = "none"
      <3>1. Opened(Task!Command("unregistered", "uopen", r.start), "unregistered", "uopen")
        BY <1>0, <1>1, CommandFacts
      <3>2. Opened(g', "unregistered", "uopen")
        BY <1>4, <3>1
      <3> QED BY <3>2 DEF Opened
    <2>2. r'.pc = "await" /\ r'.base = r.base /\ r'.code = "none"
      BY <1>1, <1>4 DEF Scripts
    <2>3. FdInv'
      BY <2>1 DEF FdInv, UPCs
    <2>4. GuardInv'
      BY <2>1, <2>2 DEF GuardInv, Fits, UPCs, Rounds
    <2>5. Since(0)'
      BY <1>1, <2>2 DEF Since, World
    <2>6. CleanInv'
      BY <2>1, <2>2, <2>5 DEF CleanInv, CleanScript, CleanGuard
    <2> QED BY <2>1, <2>3, <2>4, <2>6 DEF StepInv
  <1>5. CASE UNCHANGED g /\ r' = [r EXCEPT !.pc = "absent", !.failed = TRUE]
    <2>1. r'.pc = "absent" /\ r'.base = r.base /\ r'.code = "none" /\ r'.failed = TRUE
      BY <1>1, <1>5 DEF Scripts
    <2>2. FdInv'
      BY <1>5, FdSame DEF WorldInv, StepInv
    <2>3. GuardInv'
      BY <1>5, <2>1 DEF StepInv, GuardInv, Fits, World
    <2>4. Since(0)'
      BY <1>1, <2>1 DEF Since, World
    <2>5. CleanInv'
      BY <2>1, <2>4 DEF CleanInv, CleanScript, CleanGuard
    <2> QED BY <1>5, <2>2, <2>3, <2>5 DEF StepInv
  <1> QED BY <1>3, <1>4, <1>5 DEF Task!RunCleanup

\* The answers of the two guards add up: an empty scan each, a fork each.
LEMMA StepAfterCleanup ==
  ASSUME Task!SessionAssumption, WorldInv, StepInv, UNCHANGED <<proc, World>>, Task!AfterCleanup
  PROVE  StepInv'
  <1> DEFINE f == r.failed \/ g.code = "fail"
  <1>1. r.pc = "await" /\ g.pc = "done" /\ r.code = "none" /\ Since(0) /\ Task!Scans \in Nat
    BY ScansType DEF Task!AfterCleanup, StepInv, CleanInv, CleanScript
  <1>2. r' = [r EXCEPT !.pc = "absent", !.failed = f, !.scans = Task!Scans] /\ g' = Task!NoGuard
    BY DEF Task!AfterCleanup
  <1>3. f = FALSE => g.code # "fail"
    OBVIOUS
  <1> HIDE DEF f
  <1>4. /\ r'.pc = "absent" /\ r'.failed = f /\ r'.scans = Task!Scans /\ r'.base = r.base
        /\ r'.code = "none"
    BY <1>1, <1>2 DEF WorldInv, Scripts
  <1>5. g' \in Guards /\ g'.cmd = "none" /\ g'.pc = "none" /\ g'.excl = FALSE /\ g'.ph = "none"
    BY <1>2, NoGuardFacts
  <1>6. FdInv' /\ GuardInv'
    BY <1>4, <1>5 DEF FdInv, GuardInv, Fits, UPCs, Rounds
  <1>7. f = FALSE => Seen /\ Reaches(Task!Scans)
    BY <1>1, <1>3 DEF StepInv, CleanInv, CleanGuard
  <1>8. Since(0)'
    BY <1>1, <1>4 DEF Since, World
  <1>9. Seen /\ Reaches(Task!Scans) => Seen' /\ Reaches(r.scans)'
    BY <1>4 DEF Seen, Reaches, Since, Task!Ours, Task!Live, World
  <1>10. CleanInv'
    BY <1>4, <1>7, <1>8, <1>9 DEF CleanInv, CleanScript, CleanGuard
  <1> QED BY <1>5, <1>6, <1>10 DEF StepInv

LEMMA StepRunAbsent ==
  ASSUME Task!SessionAssumption, WorldInv, StepInv, UNCHANGED <<proc, World>>, Task!RunAbsent
  PROVE  StepInv'
  <1> DEFINE k == Task!Command("absent", "list", 0)
  <1>0. "absent" \in Commands /\ "list" \in GuardPCs /\ 0 \in Nat
    BY DEF Commands, GuardPCs
  <1>1. k \in Guards /\ k.cmd = "absent" /\ k.excl = FALSE
    <2>1. Opened(k, "absent", "list")
      BY <1>0, CommandFacts
    <2> HIDE DEF k
    <2> QED BY <2>1 DEF Opened
  <1>2. g' = Task!Scan(k, "absent")
    BY DEF Task!RunAbsent
  <1> HIDE DEF k
  <1>3. /\ g' \in Guards /\ g'.cmd = "absent" /\ g'.pc = "list" /\ g'.ph = "absent"
        /\ g'.excl = FALSE
    BY <1>1, <1>2, ScanFacts DEF Phases
  <1>4. r.pc = "absent" /\ r' = [r EXCEPT !.pc = "awaitAbsent"]
    BY DEF Task!RunAbsent
  <1>5. /\ r'.pc = "awaitAbsent" /\ r'.failed = r.failed /\ r'.scans = r.scans
        /\ r'.base = r.base /\ r'.code = r.code
    BY <1>4 DEF WorldInv, Scripts
  <1>6. FdInv' /\ GuardInv'
    BY <1>3, <1>5 DEF FdInv, GuardInv, Fits, UPCs, Rounds
  <1>7. /\ r.code = "none" /\ Since(0)
        /\ r.failed = FALSE => Seen /\ Reaches(r.scans)
    BY <1>4 DEF StepInv, CleanInv, CleanScript
  <1>8. Since(0)' /\ (Seen /\ Reaches(r.scans) => Seen' /\ Reaches(r.scans)')
    BY <1>5, <1>7 DEF Seen, Reaches, Since, Task!Ours, Task!Live, World
  <1>9. CleanInv'
    BY <1>3, <1>5, <1>7, <1>8 DEF CleanInv, CleanScript, CleanGuard
  <1> QED BY <1>3, <1>6, <1>9 DEF StepInv

LEMMA StepAfterAbsent ==
  ASSUME Task!SessionAssumption, WorldInv, StepInv, UNCHANGED <<proc, World>>, Task!AfterAbsent
  PROVE  StepInv'
  <1> DEFINE f == r.failed \/ g.code = "fail"
             n == r.scans + 1
  <1>1. r.pc = "awaitAbsent" /\ g.pc = "done" /\ r.code = "none" /\ Since(0)
    BY DEF Task!AfterAbsent, StepInv, CleanInv, CleanScript
  <1>2. r' = [r EXCEPT !.pc = "ending", !.failed = f, !.scans = n] /\ g' = Task!NoGuard
    BY DEF Task!AfterAbsent
  <1>3. f = FALSE => g.code # "fail" /\ r.failed = FALSE
    BY DEF WorldInv, Scripts
  <1>4. f = FALSE => Seen /\ Reaches(n)
    BY <1>1, <1>3 DEF StepInv, CleanInv, CleanScript, CleanGuard
  <1> HIDE DEF f, n
  <1>5. /\ r'.pc = "ending" /\ r'.failed = f /\ r'.scans = n /\ r'.base = r.base
        /\ r'.code = "none"
    BY <1>1, <1>2 DEF WorldInv, Scripts
  <1>6. g' \in Guards /\ g'.cmd = "none" /\ g'.pc = "none" /\ g'.excl = FALSE /\ g'.ph = "none"
    BY <1>2, NoGuardFacts
  <1>7. FdInv' /\ GuardInv'
    BY <1>5, <1>6 DEF FdInv, GuardInv, Fits, UPCs, Rounds
  <1>8. Since(0)' /\ (Seen /\ Reaches(n) => Seen' /\ Reaches(r.scans)')
    BY <1>1, <1>5 DEF Seen, Reaches, Since, Task!Ours, Task!Live, World
  <1>9. CleanInv'
    BY <1>4, <1>5, <1>8 DEF CleanInv, CleanScript, CleanGuard
  <1> QED BY <1>6, <1>7, <1>9 DEF StepInv

\* The script says "zero" only after a cleanup that has not failed.
LEMMA StepEnd ==
  ASSUME Task!SessionAssumption, WorldInv, StepInv, ScriptEnd
  PROVE  WorldInv' /\ StepInv'
  <1>1. WorldInv' /\ Effect /\ UNCHANGED <<World, g>>
    BY WorldEnd
  <1>2. \/ Task!EndCleanup /\ r.failed = FALSE /\ Task!ScriptExits("zero")
        \/ Task!ScriptExits("fail") \/ Task!ScriptExits("killed")
    <2>1. r.failed \in BOOLEAN
      BY DEF WorldInv, Scripts
    <2> QED BY <2>1 DEF ScriptEnd, Task!EndCleanup, Task!InterruptCleanup, Task!ScriptKilled
  <1>3. FdInv'
    BY <1>1, FdSame DEF WorldInv, StepInv, Effect
  <1>4. CASE Task!EndCleanup /\ r.failed = FALSE /\ Task!ScriptExits("zero")
    <2>1. r'.pc = "exit" /\ r'.code = "zero" /\ r'.base = r.base /\ r'.scans = r.scans
      BY <1>4, ExitScript DEF WorldInv
    <2>2. GuardInv'
      BY <1>1, <2>1 DEF StepInv, GuardInv, Fits, World
    <2>3. Reaches(r.scans)
      BY <1>4 DEF Task!EndCleanup, StepInv, CleanInv, CleanScript
    <2>4. \A p \in Pids : Task!Ours(p)' => Task!Ours(p)
      <3>1. CalmAll
        BY <1>4, ExitCalm DEF WorldInv
      <3> SUFFICES ASSUME NEW p \in Pids, Task!Ours(p)' PROVE Task!Ours(p)
        OBVIOUS
      <3>2. Calm(p) /\ ProcOK'
        BY <3>1 DEF CalmAll
      <3> QED BY <3>2, OursFacts, OursFactsNext DEF WorldInv, Calm
    <2>5. Reaches(r.scans)'
      BY <1>1, <2>1, <2>3, <2>4 DEF Reaches, Since, World
    <2>6. CleanInv'
      BY <2>1, <2>5 DEF CleanInv, CleanScript, CleanGuard
    <2> QED BY <1>1, <1>3, <2>2, <2>6 DEF StepInv
  <1>5. ASSUME NEW code \in {"fail", "killed"}, Task!ScriptExits(code)
        PROVE  WorldInv' /\ StepInv'
    <2>1. r'.pc = "exit" /\ r'.code = code
      BY <1>5, ExitScript DEF WorldInv
    <2>2. GuardInv'
      BY <1>1, <2>1 DEF StepInv, GuardInv, Fits, World
    <2>3. CleanInv'
      BY <2>1 DEF CleanInv, CleanScript, CleanGuard
    <2> QED BY <1>1, <1>3, <2>2, <2>3 DEF StepInv
  <1> QED BY <1>2, <1>4, <1>5

LEMMA StepBorn ==
  ASSUME Task!SessionAssumption, WorldInv, StepInv, Task!ForkLeader
  PROVE  WorldInv' /\ StepInv'
  <1>1. /\ WorldInv' /\ (\A x \in Pids : Ages(x)) /\ UNCHANGED <<record, g>>
        /\ r'.pc = "forked" /\ r'.code = r.code
    BY WorldBorn
  <1>2. FdInv'
    BY <1>1, FdSame DEF WorldInv, StepInv
  <1>3. GuardInv'
    BY <1>1 DEF StepInv, GuardInv, Fits
  <1>4. r.code = "none"
    BY DEF Task!ForkLeader, StepInv, CleanInv, CleanScript
  <1>5. CleanInv'
    BY <1>1, <1>4 DEF CleanInv, CleanScript, CleanGuard
  <1> QED BY <1>1, <1>2, <1>3, <1>5 DEF StepInv

\* The leader and the machine keep what guard and script know.
LEMMA StepWorld ==
  ASSUME Task!SessionAssumption, WorldInv, WorldInv', StepInv, Effect, UNCHANGED <<r, g>>,
         record = "written" => record' = "written"
  PROVE  StepInv'
  <1>1. FdInv'
    BY FdSame DEF WorldInv, StepInv, Effect
  <1>2. GuardInv'
    BY DEF StepInv, GuardInv, Fits
  <1>3. CleanInv'
    BY CleanWorld DEF StepInv
  <1> QED BY <1>1, <1>2, <1>3 DEF StepInv

LEMMA StepQuiet ==
  ASSUME Task!SessionAssumption, WorldInv, StepInv, QuietScript
  PROVE  WorldInv' /\ StepInv'
  <1>1. WorldInv' /\ Effect /\ UNCHANGED <<proc, World>>
    BY WorldQuiet DEF StepInv
  <1>2. StepInv'
    BY <1>1, StepStarting, StepRunCleanup, StepAfterCleanup, StepRunAbsent, StepAfterAbsent
    DEF QuietScript, Effect
  <1> QED BY <1>1, <1>2

SessionInv == WorldInv /\ StepInv

\* ... every step keeps it ...
LEMMA SessionStep ==
  ASSUME Task!SessionAssumption, "child" \notin ForeignKinds, SessionInv, [Task!Next]_(Task!vars)
  PROVE  SessionInv'
  <1> USE DEF SessionInv
  <1>1. CASE Task!LeaderStep
    BY <1>1, WorldLeader, StepWorld
  <1>2. CASE Task!Machine
    BY <1>2, WorldMachine, StepWorld
  <1>3. CASE Task!GuardStep \/ Task!Tick
    BY <1>3, StepGuard
  <1>4. CASE Task!ForkLeader
    BY <1>4, StepBorn
  <1>5. CASE QuietScript
    BY <1>5, StepQuiet
  <1>6. CASE ScriptEnd
    BY <1>6, StepEnd
  <1>7. CASE UNCHANGED Task!vars
    <2>1. CalmAll
      BY <1>7, SameCalm DEF Task!vars, WorldInv
    <2>2. WorldInv' /\ Effect
      BY <1>7, <2>1, WorldCalm DEF Task!vars, World, WorldInv
    <2> QED BY <1>7, <2>2, StepWorld DEF Task!vars
  <1> QED BY <1>1, <1>2, <1>3, <1>4, <1>5, <1>6, <1>7 DEF Task!Next, Task!ScriptStep,
    QuietScript, ScriptEnd

\* The invariant holds at the start ...
LEMMA SessionInit ==
  ASSUME Task!SessionAssumption, Task!Init
  PROVE  SessionInv
  <1>1. ProcOK /\ RestOK
    BY DEF Task!Init, ProcOK, Task!Procs, RestOK, Task!Stages, Task!SessionAssumption
  <1>2. \A p \in Pids : /\ proc[p].st = "none" /\ proc[p].gen = 0 /\ proc[p].own = FALSE
                        /\ proc[p].sess = FALSE /\ proc[p].sig = "none"
    BY DEF Task!Init
  <1>3. r \in Scripts /\ r.pc = "start" /\ r.code = "none"
    BY ScriptInit DEF Task!Init, Task!Script
  <1>4. OwnInv /\ LeaderInv /\ Task!OnlyOwnSignalled
    BY <1>2, LeaderPid DEF Task!Init, OwnInv, LeaderInv, Task!OnlyOwnSignalled, Task!Exists,
       Task!Live
  <1>5. Task!HostFollowsScript
    BY <1>3 DEF Task!HostFollowsScript, Task!RunnerGone
  <1>6. g \in Guards /\ g.cmd = "none" /\ g.pc = "none" /\ g.excl = FALSE /\ g.ph = "none"
    BY NoGuardFacts DEF Task!Init
  <1>7. FdInv /\ GuardInv
    BY <1>3, <1>6 DEF FdInv, GuardInv, Fits, UPCs, Rounds
  <1>8. CleanInv
    BY <1>3 DEF CleanInv, CleanScript, CleanGuard
  <1> QED BY <1>1, <1>3, <1>4, <1>5, <1>6, <1>7, <1>8 DEF SessionInv, WorldInv, StepInv

\* ... and it implies the property.
LEMMA SessionInvSound ==
  ASSUME Task!SessionAssumption, SessionInv
  PROVE  Task!SessionSound
  <1>1. r \in Scripts /\ g \in Guards
    BY DEF SessionInv, WorldInv, StepInv
  <1>2. /\ g.cmd \in {"none", "cleanup", "unregistered", "absent"} /\ g.code \in {"none", "ok", "fail"}
        /\ g.list \subseteq Pids /\ g.todo \subseteq Pids /\ g.pid \in Pids
        /\ {g.fd, g.seen, g.empty} \subseteq Nat
    BY <1>1 DEF Guards, Commands, GuardCodes
  <1>3. {g.late, g.err, g.excl, g.hitLeader, g.surprise, g.killed} \subseteq BOOLEAN
    <2>1. /\ g.late \in BOOLEAN /\ g.err \in BOOLEAN /\ g.excl \in BOOLEAN
          /\ g.hitLeader \in BOOLEAN /\ g.surprise \in BOOLEAN /\ g.killed \in BOOLEAN
      BY <1>1 DEF Guards
    <2> QED BY <2>1
  <1>4. Task!TypeOK
    BY <1>1, <1>2, <1>3 DEF Task!TypeOK, SessionInv, WorldInv, ProcOK, RestOK, Scripts, ScriptPCs
  <1>5. Task!CleanMeansGone
    <2> SUFFICES ASSUME r.code = "zero", NEW p \in Pids, Task!Ours(p) PROVE forks - r.base >= r.scans
      BY DEF Task!CleanMeansGone
    <2>1. r.pc = "exit"
      BY DEF SessionInv, StepInv, CleanInv, CleanScript
    <2>2. Reaches(r.scans)
      BY <2>1 DEF SessionInv, StepInv, CleanInv, CleanScript
    <2>3. forks \in Nat /\ r.base \in Nat /\ r.scans \in Nat
      BY CleanNow DEF SessionInv
    <2> QED BY <2>2, <2>3 DEF Reaches, Since
  <1> QED BY <1>4, <1>5 DEF Task!SessionSound, SessionInv, WorldInv

\* Cleanup signals processes of the task only; a clean end leaves none behind,
\* unless the session has forked across every empty scan the answer rests on;
\* and no host outlives the script unsignalled.  This holds for any number of
\* confirming rescans.  Unrelated processes may take any PID and lead a session
\* named like the task's, but have no children in it.
THEOREM SessionTheorem ==
  ASSUME Task!SessionAssumption, "child" \notin ForeignKinds
  PROVE  Task!Spec => []Task!SessionSound
  <1>1. Task!Init => SessionInv
    BY SessionInit
  <1>2. SessionInv /\ [Task!Next]_(Task!vars) => SessionInv'
    BY SessionStep
  <1>3. SessionInv => Task!SessionSound
    BY SessionInvSound
  <1> QED BY <1>1, <1>2, <1>3, PTL DEF Task!Spec
-----------------------------------------------------------------------------
(* cleanup-session and the leader of its own record *)

\* The leader is left out only by the step that does not recognise it.
LEMMA LeftOut ==
  ASSUME Task!SessionAssumption, WorldInv, StepInv, Task!GuardStep \/ Task!Tick, g'.excl = TRUE
  PROVE  g.excl = TRUE \/ Unknown
  <1>1. ProcOK /\ g \in Guards /\ (g.excl = TRUE => g.err = TRUE)
    BY DEF WorldInv, StepInv, GuardInv
  <1>2. ASSUME NEW q, NEW f, Keeps(q, f) PROVE g.excl = TRUE \/ Unknown
    BY <1>2 DEF Keeps
  <1>3. ASSUME NEW q, NEW f, Goes(q, f) \/ Counts(q, f) PROVE g.excl = TRUE \/ Unknown
    BY <1>2, <1>3 DEF Goes, Counts
  <1>4. ASSUME NEW c PROVE ~Ends(c)
    BY DEF Ends
  <1>5. CASE Task!ReadEntries
    BY <1>1, <1>3, <1>4, <1>5, ReadFacts DEF ReadOutcome, TermOutcome, KillOutcome, AbsentOutcome
  <1>6. CASE \/ Task!Tick \/ Task!ReadRecord \/ Task!ListProc \/ Task!ReadLeader
             \/ Task!AnchorLeader \/ Task!NextMember
    BY <1>1, <1>3, <1>4, <1>6, TickFacts, RecordFacts, ListFacts, LeaderFacts, AnchorFacts,
       NextFacts
  <1>7. CASE \/ Task!OpenPidfd \/ Task!FirstSnapshot \/ Task!SecondSnapshot
             \/ Task!MemberIsCurrent \/ Task!SendSignal
    BY <1>1, <1>3, <1>7, OpenFacts, FirstFacts, SecondFacts, CurrentFacts, SendFacts
  <1>8. CASE Task!SignalLeader \/ Task!AfterSignals
    BY <1>1, <1>3, <1>4, <1>8, SignalFacts, AfterFacts
  <1>9. CASE \/ Task!OpenUnregistered \/ Task!CheckUnregistered
             \/ Task!SignalUnregistered \/ Task!AwaitUnregistered
    BY <1>1, <1>3, <1>4, <1>9, OpenUnregisteredFacts, CheckUnregisteredFacts,
       SignalUnregisteredFacts, AwaitUnregisteredFacts
  <1> QED BY <1>5, <1>6, <1>7, <1>8, <1>9 DEF Task!GuardStep

\* No command starts with its leader left out.
LEMMA LeftOutElsewhere ==
  ASSUME Task!SessionAssumption, SessionInv, Task!Next, ~(Task!GuardStep \/ Task!Tick),
         g'.excl = TRUE
  PROVE  g.excl = TRUE
  <1> SUFFICES ASSUME g' # g PROVE FALSE
    OBVIOUS
  <1>0. /\ {"cleanup", "unregistered", "absent"} \subseteq Commands /\ 0 \in Nat
        /\ {"record", "uopen", "list"} \subseteq GuardPCs /\ r.start \in Nat
    BY DEF Commands, GuardPCs, SessionInv, WorldInv, Scripts
  <1>1. Task!RunCleanup \/ Task!AfterCleanup \/ Task!RunAbsent \/ Task!AfterAbsent
    BY DEF Task!Next, Task!LeaderStep, Task!CheckParent, Task!BindDeathSignal, Task!StartSession,
       Task!CreateRecord,
       Task!WriteRecord, Task!ExecHost, Task!Machine, Task!ForkMember, Task!ProcessExits,
         Task!Reap, Task!ForeignExits,
       Task!ForeignAppears, Task!ScriptStep, Task!ForkLeader, Task!NotePid, Task!NoteSession,
         Task!NoteStart, Task!EnterCleanup,
       Task!EndCleanup, Task!InterruptCleanup, Task!ScriptKilled
  <1>2. CASE Task!RunCleanup
    <2>1. /\ Opened(Task!Command("cleanup", "record", 0), "cleanup", "record")
          /\ Opened(Task!Command("unregistered", "uopen", r.start), "unregistered", "uopen")
      BY <1>0, CommandFacts
    <2>2. \/ g' = Task!Command("cleanup", "record", 0)
          \/ g' = Task!Command("unregistered", "uopen", r.start)
      BY <1>2 DEF Task!RunCleanup
    <2> QED BY <2>1, <2>2 DEF Opened
  <1>3. CASE Task!AfterCleanup \/ Task!AfterAbsent
    BY <1>3, NoGuardFacts DEF Task!AfterCleanup, Task!AfterAbsent
  <1>4. CASE Task!RunAbsent
    <2> DEFINE k == Task!Command("absent", "list", 0)
    <2>1. Opened(k, "absent", "list")
      BY <1>0, CommandFacts
    <2>2. g' = Task!Scan(k, "absent")
      BY <1>4 DEF Task!RunAbsent
    <2> HIDE DEF k
    <2> QED BY <2>1, <2>2, ScanFacts DEF Opened, Phases
  <1> QED BY <1>1, <1>2, <1>3, <1>4

\* cleanup-session never refuses the leader of its own record once that leader
\* has become the host, provided that the host is what the leader executes.
THEOREM RecognisedTheorem ==
  ASSUME Task!SessionAssumption, "child" \notin ForeignKinds, SessionExe = "host"
  PROVE  Task!Spec => Task!LeaderRecognised
  <1> DEFINE Step == g'.excl /\ ~g.excl => ~(Task!Ours(Leader) /\ stage = "host")
  <1>1. Task!Init => SessionInv
    BY SessionInit
  <1>2. SessionInv /\ [Task!Next]_(Task!vars) => SessionInv'
    BY SessionStep
  <1>3. ASSUME SessionInv, SessionInv', [Task!Next]_(Task!vars)
        PROVE  [Step]_(Task!vars)
    <2> SUFFICES ASSUME Task!Next, g'.excl, ~g.excl, Task!Ours(Leader), stage = "host" PROVE FALSE
      BY <1>3 DEF Task!vars
    <2>1. g'.excl = TRUE /\ g.excl = FALSE
      BY <1>3 DEF SessionInv, StepInv, Guards
    <2>2. Task!Live(Leader) /\ proc[Leader].own = TRUE
      BY <1>3, LeaderPid, OursFacts DEF SessionInv, WorldInv
    <2>3. proc[Leader].gen = 1
      BY <1>3, <2>2 DEF SessionInv, WorldInv, OwnInv, Task!Live, Task!Exists
    <2>4. ~Unknown
      BY <2>2, <2>3 DEF Unknown, Task!Identity, Task!Exe, Task!LeaderStart
    <2>5. ~(Task!GuardStep \/ Task!Tick)
      BY <1>3, <2>1, <2>4, LeftOut DEF SessionInv
    <2> QED BY <1>3, <2>1, <2>5, LeftOutElsewhere
  <1> QED BY <1>1, <1>2, <1>3, PTL DEF Task!Spec, Task!LeaderRecognised
=============================================================================
