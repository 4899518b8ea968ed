------------------------- MODULE NginxLauncherProofs -------------------------
(***************************************************************************)
(* Proofs about NginxLauncher, for any number of failing account commands, *)
(* with and without an account of the runner.                              *)
(***************************************************************************)
EXTENDS NginxLauncher, TLAPS

Setup == Delegation \cup {"dirs", "admit", "groupadd", "useradd", "groupdel", "lookup",
                          "undo_subgid", "undo_subuid", "cells", "spawn"}
Running == {"wait_mode", "http", "complete", "wait_exit", "publish"}
Dropping == {"drop_subgid", "drop_subuid", "drop_check"}
Releasing == Dropping \cup {"identity", "userdel", "delgroup", "scratch"}
Ending == Releasing \cup {"drain", "finish", "done"}

-----------------------------------------------------------------------------
(***************************************************************************)
(* The inductive invariant.  Whether a leftover is reported depends on     *)
(* what the launcher knew when it was made; whether something is released  *)
(* too early, on which steps can still meet a running sandbox.             *)
(***************************************************************************)

\* The sandbox does not run before it is started, nor once the drain has succeeded.
RuntimeInv ==
  /\ pc \in Setup => sup = "none" /\ mode = "on"
  /\ pc \in Releasing => sup # "running"

\* A mode is marked complete after its answer was seen, and "off" follows "on".
HandshakeInv ==
  /\ completed \subseteq observed
  /\ pc = "complete" => mode \in observed
  /\ pc \in {"wait_mode", "http", "complete"} /\ mode = "off" => "on" \in observed
  /\ pc \in {"wait_exit", "publish"} => observed = Modes
  /\ pc = "publish" => sup = "exit0"

\* The account and its ids are known before anything is delegated to them, and
\* to a run that has ended without an exception, which has published too.
KnownInv ==
  /\ host \cap Delegation # {} => {"identity", "mapping"} \subseteq known
  /\ pc \in (Setup \ {"dirs", "admit", "groupadd", "useradd", "groupdel", "lookup"}) \cup Running
       => {"identity", "mapping"} \subseteq known
  /\ pc = "lookup" => "identity" \in known
  /\ pc \in Ending /\ ~primary => {"identity", "mapping"} \subseteq known /\ Records \subseteq host

\* What each step of the cleanup has removed, or reported.
CleanupInv ==
  /\ pc \in Dropping => host \cap Account = {}
  /\ pc \in {"scratch", "finish", "done"} =>
       /\ host \cap Delegation # {} => errors \cap {"mapping", "identity", "runtime"} # {}
       /\ errors = {} /\ ~primary => host \cap Account = {}
  /\ pc \in {"finish", "done"} /\ errors = {} => "scratch" \notin host
  /\ rc = 0 => pc = "done" /\ ~primary /\ errors = {}

LInv == TypeOK /\ RuntimeInv /\ HandshakeInv /\ KnownInv /\ CleanupInv /\ EvidenceSound

-----------------------------------------------------------------------------
(* Types *)

\* TypeOK in two parts: the launcher, and the sandbox with its files.
LauncherType ==
  /\ pc \in Delegation \cup {"dirs", "admit", "groupadd", "useradd", "groupdel", "lookup",
        "undo_subgid", "undo_subuid", "drop_subgid", "drop_subuid", "drop_check", "cells",
        "spawn", "wait_mode", "http", "complete", "wait_exit", "publish", "drain",
        "identity", "userdel", "delgroup", "scratch", "finish", "done"}
  /\ mode \in Modes /\ primary \in BOOLEAN /\ rc \in 0 .. 2 /\ faults \in 0 .. MaxFaults
SetsType ==
  /\ host \subseteq Account \cup Delegation \cup {"evidence", "container", "scratch"} \cup Records
  /\ known \subseteq {"evidence", "scratch", "identity", "worker_uid", "mapping", "process",
        "published"} \cup Delegation
  /\ errors \subseteq {"mapping", "identity", "runtime", "scratch", "evidence"}
SandboxType ==
  /\ hmode \in Modes /\ sup \in {"none", "running", "exit0", "exit1"}
  /\ hpc \in {"gone", "boot", "up", "announce", "released?", "completed?", "term"}
  /\ master \in BOOLEAN /\ ready \in [Modes -> {"none", "partial", "full"}]
  /\ released \subseteq Modes /\ completed \subseteq Modes /\ observed \subseteq Modes

LEMMA TypeParts == TypeOK <=> LauncherType /\ SetsType /\ SandboxType
  BY DEF TypeOK, LauncherType, SetsType, SandboxType

LEMMA LauncherTypeStep == TypeOK /\ [Next]_vars => LauncherType'
  <1> SUFFICES ASSUME TypeOK, [Next]_vars
               PROVE  LauncherType'
    OBVIOUS
  <1> USE LauncherConstants, TypeParts DEF LauncherType, Delegation, Modes
  <1>1. CASE PrepareDirectories
    BY <1>1 DEF PrepareDirectories, Raise, Directories
  <1>2. CASE PrepareAdmit
    BY <1>2 DEF PrepareAdmit, Raise
  <1>3. CASE CreateGroup
    <2>1. primary' \in BOOLEAN
      BY <1>3 DEF CreateGroup, Raise, Ran
    <2>2. pc' \in {"useradd", "drain"} /\ mode' = mode /\ rc' = rc
      BY <1>3 DEF CreateGroup, Raise, Ran
    <2>3. faults' \in 0 .. MaxFaults
      BY <1>3 DEF CreateGroup, Ran
    <2> QED
      BY <2>1, <2>2, <2>3
  <1>4. CASE CreateUser
    BY <1>4 DEF CreateUser, Ran
  <1>5. CASE RollbackGroup
    BY <1>5 DEF RollbackGroup, Raise, Ran
  <1>6. CASE LookUpIdentity
    BY <1>6 DEF LookUpIdentity, Raise
  <1>7. ASSUME NEW id \in Delegation, AddDelegation(id)
        PROVE  LauncherType'
    BY <1>7 DEF AddDelegation, Ran
  <1>8. ASSUME NEW id \in Delegation, NEW undo \in BOOLEAN, DropDelegation(id, undo)
        PROVE  LauncherType'
    BY <1>8 DEF DropDelegation, DropStep, Ran
  <1>9. CASE PrepareCells
    BY <1>9 DEF PrepareCells, Raise
  <1>10. CASE Spawn
    BY <1>10 DEF Spawn
  <1>11. CASE WaitMode
    BY <1>11 DEF WaitMode, Raise
  <1>12. CASE HttpStatus
    BY <1>12 DEF HttpStatus, Raise
  <1>13. CASE MarkRequestComplete
    BY <1>13 DEF MarkRequestComplete
  <1>14. CASE WaitExit
    BY <1>14 DEF WaitExit, Raise
  <1>15. CASE Publish
    BY <1>15 DEF Publish, Raise
  <1>16. CASE Drain
    BY <1>16 DEF Drain
  <1>17. CASE CleanupIdentity
    BY <1>17 DEF CleanupIdentity
  <1>18. CASE DeleteUser
    BY <1>18 DEF DeleteUser, Ran
  <1>19. CASE DeleteGroup
    BY <1>19 DEF DeleteGroup, Ran
  <1>20. CASE DropCheck
    BY <1>20 DEF DropCheck
  <1>21. CASE RemoveScratch
    BY <1>21 DEF RemoveScratch
  <1>22. CASE Finish
    BY <1>22 DEF Finish
  <1>23. CASE HelperStart
    BY <1>23 DEF HelperStart, Helper, launcher, control
  <1>24. CASE HelperReady
    BY <1>24 DEF HelperReady, Helper, launcher, control
  <1>25. CASE HelperReleased
    BY <1>25 DEF HelperReleased, Helper, launcher, control
  <1>26. CASE HelperCompleted
    BY <1>26 DEF HelperCompleted, Helper, launcher, control
  <1>27. CASE HelperTerm
    BY <1>27 DEF HelperTerm, Helper, launcher, control
  <1>28. CASE HelperDie
    BY <1>28 DEF HelperDie, Helper, launcher, control
  <1>29. CASE MasterExit
    BY <1>29 DEF MasterExit, launcher, control
  <1>30. CASE UNCHANGED vars
    BY <1>30 DEF vars
  <1> QED
    BY <1>1, <1>2, <1>3, <1>4, <1>5, <1>6, <1>7, <1>8, <1>9, <1>10, <1>11, <1>12,
       <1>13, <1>14, <1>15, <1>16, <1>17, <1>18, <1>19, <1>20, <1>21, <1>22, <1>23,
       <1>24, <1>25, <1>26, <1>27, <1>28, <1>29, <1>30
       DEF Next, Launcher, Sandbox

LEMMA SetsTypeStep == TypeOK /\ [Next]_vars => SetsType'
  <1> SUFFICES ASSUME TypeOK, [Next]_vars
               PROVE  SetsType'
    OBVIOUS
  <1> USE TypeParts DEF SetsType, Account, Delegation, Records
  <1>1. CASE PrepareDirectories
    BY <1>1 DEF PrepareDirectories, Raise, Directories
  <1>2. CASE PrepareAdmit
    BY <1>2 DEF PrepareAdmit, Raise
  <1>3. CASE CreateGroup
    BY <1>3 DEF CreateGroup, Raise, Ran
  <1>4. CASE CreateUser
    BY <1>4 DEF CreateUser, Ran
  <1>5. CASE RollbackGroup
    BY <1>5 DEF RollbackGroup, Raise, Ran
  <1>6. CASE LookUpIdentity
    BY <1>6 DEF LookUpIdentity, Raise
  <1>7. ASSUME NEW id \in Delegation, AddDelegation(id)
        PROVE  SetsType'
    BY <1>7 DEF AddDelegation, Ran
  <1>8. ASSUME NEW id \in Delegation, NEW undo \in BOOLEAN, DropDelegation(id, undo)
        PROVE  SetsType'
    BY <1>8 DEF DropDelegation, DropStep, Ran
  <1>9. CASE PrepareCells
    BY <1>9 DEF PrepareCells, Raise
  <1>10. CASE Spawn
    BY <1>10 DEF Spawn
  <1>11. CASE WaitMode
    BY <1>11 DEF WaitMode, Raise
  <1>12. CASE HttpStatus
    BY <1>12 DEF HttpStatus, Raise
  <1>13. CASE MarkRequestComplete
    BY <1>13 DEF MarkRequestComplete
  <1>14. CASE WaitExit
    BY <1>14 DEF WaitExit, Raise
  <1>15. CASE Publish
    BY <1>15 DEF Publish, Raise
  <1>16. CASE Drain
    BY <1>16 DEF Drain
  <1>17. CASE CleanupIdentity
    BY <1>17 DEF CleanupIdentity
  <1>18. CASE DeleteUser
    BY <1>18 DEF DeleteUser, Ran
  <1>19. CASE DeleteGroup
    BY <1>19 DEF DeleteGroup, Ran
  <1>20. CASE DropCheck
    BY <1>20 DEF DropCheck
  <1>21. CASE RemoveScratch
    BY <1>21 DEF RemoveScratch
  <1>22. CASE Finish
    BY <1>22 DEF Finish
  <1>23. CASE HelperStart
    BY <1>23 DEF HelperStart, Helper, launcher, control
  <1>24. CASE HelperReady
    BY <1>24 DEF HelperReady, Helper, launcher, control
  <1>25. CASE HelperReleased
    BY <1>25 DEF HelperReleased, Helper, launcher, control
  <1>26. CASE HelperCompleted
    BY <1>26 DEF HelperCompleted, Helper, launcher, control
  <1>27. CASE HelperTerm
    BY <1>27 DEF HelperTerm, Helper, launcher, control
  <1>28. CASE HelperDie
    BY <1>28 DEF HelperDie, Helper, launcher, control
  <1>29. CASE MasterExit
    BY <1>29 DEF MasterExit, launcher, control
  <1>30. CASE UNCHANGED vars
    BY <1>30 DEF vars
  <1> QED
    BY <1>1, <1>2, <1>3, <1>4, <1>5, <1>6, <1>7, <1>8, <1>9, <1>10, <1>11, <1>12,
       <1>13, <1>14, <1>15, <1>16, <1>17, <1>18, <1>19, <1>20, <1>21, <1>22, <1>23,
       <1>24, <1>25, <1>26, <1>27, <1>28, <1>29, <1>30
       DEF Next, Launcher, Sandbox

LEMMA SandboxTypeStep == TypeOK /\ [Next]_vars => SandboxType'
  <1> SUFFICES ASSUME TypeOK, [Next]_vars
               PROVE  SandboxType'
    OBVIOUS
  <1> USE TypeParts DEF SandboxType, LauncherType, Modes, runtime, control
  <1>1. CASE PrepareDirectories
    BY <1>1 DEF PrepareDirectories, Raise, Directories
  <1>2. CASE PrepareAdmit
    BY <1>2 DEF PrepareAdmit, Raise
  <1>3. CASE CreateGroup
    BY <1>3 DEF CreateGroup, Raise, Ran
  <1>4. CASE CreateUser
    BY <1>4 DEF CreateUser, Ran
  <1>5. CASE RollbackGroup
    BY <1>5 DEF RollbackGroup, Raise, Ran
  <1>6. CASE LookUpIdentity
    BY <1>6 DEF LookUpIdentity, Raise
  <1>7. ASSUME NEW id \in Delegation, AddDelegation(id)
        PROVE  SandboxType'
    BY <1>7 DEF AddDelegation, Ran
  <1>8. ASSUME NEW id \in Delegation, NEW undo \in BOOLEAN, DropDelegation(id, undo)
        PROVE  SandboxType'
    BY <1>8 DEF DropDelegation, DropStep, Ran
  <1>9. CASE PrepareCells
    BY <1>9 DEF PrepareCells, Raise
  <1>10. CASE Spawn
    BY <1>10 DEF Spawn
  <1>11. CASE WaitMode
    BY <1>11 DEF WaitMode, Raise
  <1>12. CASE HttpStatus
    BY <1>12 DEF HttpStatus, Raise
  <1>13. CASE MarkRequestComplete
    BY <1>13 DEF MarkRequestComplete
  <1>14. CASE WaitExit
    BY <1>14 DEF WaitExit, Raise
  <1>15. CASE Publish
    BY <1>15 DEF Publish, Raise
  <1>16. CASE Drain
    BY <1>16 DEF Drain
  <1>17. CASE CleanupIdentity
    BY <1>17 DEF CleanupIdentity
  <1>18. CASE DeleteUser
    BY <1>18 DEF DeleteUser, Ran
  <1>19. CASE DeleteGroup
    BY <1>19 DEF DeleteGroup, Ran
  <1>20. CASE DropCheck
    BY <1>20 DEF DropCheck
  <1>21. CASE RemoveScratch
    BY <1>21 DEF RemoveScratch
  <1>22. CASE Finish
    BY <1>22 DEF Finish
  <1>23. CASE HelperStart
    BY <1>23 DEF HelperStart, Helper, launcher, control
  <1>24. CASE HelperReady
    BY <1>24 DEF HelperReady, Helper, launcher, control
  <1>25. CASE HelperReleased
    BY <1>25 DEF HelperReleased, Helper, launcher, control
  <1>26. CASE HelperCompleted
    BY <1>26 DEF HelperCompleted, Helper, launcher, control
  <1>27. CASE HelperTerm
    BY <1>27 DEF HelperTerm, Helper, launcher, control
  <1>28. CASE HelperDie
    BY <1>28 DEF HelperDie, Helper, launcher, control
  <1>29. CASE MasterExit
    BY <1>29 DEF MasterExit, launcher, control
  <1>30. CASE UNCHANGED vars
    BY <1>30 DEF vars
  <1> QED
    BY <1>1, <1>2, <1>3, <1>4, <1>5, <1>6, <1>7, <1>8, <1>9, <1>10, <1>11, <1>12,
       <1>13, <1>14, <1>15, <1>16, <1>17, <1>18, <1>19, <1>20, <1>21, <1>22, <1>23,
       <1>24, <1>25, <1>26, <1>27, <1>28, <1>29, <1>30
       DEF Next, Launcher, Sandbox

-----------------------------------------------------------------------------
(* The runtime and the handshake *)

LEMMA RuntimeStep == LInv /\ [Next]_vars => RuntimeInv'
  <1> SUFFICES ASSUME LInv, [Next]_vars
               PROVE  RuntimeInv'
    OBVIOUS
  <1> USE DEF LInv, RuntimeInv, Setup, Releasing, Dropping, Delegation, runtime
  <1>1. CASE PrepareDirectories
    BY <1>1 DEF PrepareDirectories, Raise, Directories
  <1>2. CASE PrepareAdmit
    BY <1>2 DEF PrepareAdmit, Raise
  <1>3. CASE CreateGroup
    BY <1>3 DEF CreateGroup, Raise, Ran
  <1>4. CASE CreateUser
    BY <1>4 DEF CreateUser, Ran
  <1>5. CASE RollbackGroup
    BY <1>5 DEF RollbackGroup, Raise, Ran
  <1>6. CASE LookUpIdentity
    BY <1>6 DEF LookUpIdentity, Raise
  <1>7. ASSUME NEW id \in Delegation, AddDelegation(id)
        PROVE  RuntimeInv'
    BY <1>7 DEF AddDelegation, Ran
  <1>8. ASSUME NEW id \in Delegation, NEW undo \in BOOLEAN, DropDelegation(id, undo)
        PROVE  RuntimeInv'
    BY <1>8 DEF DropDelegation, DropStep, Ran
  <1>9. CASE PrepareCells
    BY <1>9 DEF PrepareCells, Raise
  <1>10. CASE Spawn
    BY <1>10 DEF Spawn
  <1>11. CASE WaitMode
    BY <1>11 DEF WaitMode, Raise
  <1>12. CASE HttpStatus
    BY <1>12 DEF HttpStatus, Raise
  <1>13. CASE MarkRequestComplete
    BY <1>13 DEF MarkRequestComplete
  <1>14. CASE WaitExit
    BY <1>14 DEF WaitExit, Raise
  <1>15. CASE Publish
    BY <1>15 DEF Publish, Raise
  <1>16. CASE Drain
    BY <1>16 DEF Drain
  <1>17. CASE CleanupIdentity
    BY <1>17 DEF CleanupIdentity
  <1>18. CASE DeleteUser
    BY <1>18 DEF DeleteUser, Ran
  <1>19. CASE DeleteGroup
    BY <1>19 DEF DeleteGroup, Ran
  <1>20. CASE DropCheck
    BY <1>20 DEF DropCheck
  <1>21. CASE RemoveScratch
    BY <1>21 DEF RemoveScratch
  <1>22. CASE Finish
    BY <1>22 DEF Finish
  <1>23. CASE HelperStart
    BY <1>23 DEF HelperStart, Helper, launcher, control
  <1>24. CASE HelperReady
    BY <1>24 DEF HelperReady, Helper, launcher, control
  <1>25. CASE HelperReleased
    BY <1>25 DEF HelperReleased, Helper, launcher, control
  <1>26. CASE HelperCompleted
    BY <1>26 DEF HelperCompleted, Helper, launcher, control
  <1>27. CASE HelperTerm
    BY <1>27 DEF HelperTerm, Helper, launcher, control
  <1>28. CASE HelperDie
    BY <1>28 DEF HelperDie, Helper, launcher, control
  <1>29. CASE MasterExit
    BY <1>29 DEF MasterExit, launcher, control
  <1>30. CASE UNCHANGED vars
    BY <1>30 DEF vars
  <1> QED
    BY <1>1, <1>2, <1>3, <1>4, <1>5, <1>6, <1>7, <1>8, <1>9, <1>10, <1>11, <1>12,
       <1>13, <1>14, <1>15, <1>16, <1>17, <1>18, <1>19, <1>20, <1>21, <1>22, <1>23,
       <1>24, <1>25, <1>26, <1>27, <1>28, <1>29, <1>30
       DEF Next, Launcher, Sandbox

LEMMA HandshakeStep == LInv /\ [Next]_vars => HandshakeInv' /\ EvidenceSound'
  <1> SUFFICES ASSUME LInv, [Next]_vars
               PROVE  HandshakeInv' /\ EvidenceSound'
    OBVIOUS
  <1>0. SandboxType /\ LauncherType
    BY TypeParts DEF LInv
  <1> USE <1>0 DEF LInv, RuntimeInv, HandshakeInv, EvidenceSound, StoppedAfterObservation,
             CompleteEvidence, Setup, Delegation, Modes, Records, SandboxType, LauncherType,
             runtime, control
  <1>1. CASE PrepareDirectories
    BY <1>1 DEF PrepareDirectories, Raise, Directories
  <1>2. CASE PrepareAdmit
    BY <1>2 DEF PrepareAdmit, Raise
  <1>3. CASE CreateGroup
    BY <1>3 DEF CreateGroup, Raise, Ran
  <1>4. CASE CreateUser
    BY <1>4 DEF CreateUser, Ran
  <1>5. CASE RollbackGroup
    BY <1>5 DEF RollbackGroup, Raise, Ran
  <1>6. CASE LookUpIdentity
    BY <1>6 DEF LookUpIdentity, Raise
  <1>7. ASSUME NEW id \in Delegation, AddDelegation(id)
        PROVE  HandshakeInv' /\ EvidenceSound'
    BY <1>7 DEF AddDelegation, Ran
  <1>8. ASSUME NEW id \in Delegation, NEW undo \in BOOLEAN, DropDelegation(id, undo)
        PROVE  HandshakeInv' /\ EvidenceSound'
    BY <1>8 DEF DropDelegation, DropStep, Ran
  <1>9. CASE PrepareCells
    BY <1>9 DEF PrepareCells, Raise
  <1>10. CASE Spawn
    BY <1>10 DEF Spawn
  <1>11. CASE WaitMode
    BY <1>11 DEF WaitMode, Raise
  <1>12. CASE HttpStatus
    BY <1>12 DEF HttpStatus, Raise
  <1>13. CASE MarkRequestComplete
    <2>1. /\ mode \in observed /\ observed' = observed /\ completed' = completed \cup {mode}
          /\ pc' = (IF mode = "on" THEN "wait_mode" ELSE "wait_exit")
          /\ UNCHANGED <<host, sup, hpc, hmode>>
      BY <1>13 DEF MarkRequestComplete
    <2>2. completed' \subseteq observed'
      BY <2>1
    <2>3. CASE mode = "on"
      BY <2>1, <2>2, <2>3
    <2>4. CASE mode = "off"
      <3>1. observed = {"on", "off"}
        BY <1>13, <2>1, <2>4 DEF MarkRequestComplete
      <3> QED
        BY <2>1, <2>2, <2>4, <3>1
    <2> QED
      BY <2>3, <2>4
  <1>14. CASE WaitExit
    BY <1>14 DEF WaitExit, Raise
  <1>15. CASE Publish
    BY <1>15 DEF Publish, Raise
  <1>16. CASE Drain
    BY <1>16 DEF Drain
  <1>17. CASE CleanupIdentity
    BY <1>17 DEF CleanupIdentity
  <1>18. CASE DeleteUser
    BY <1>18 DEF DeleteUser, Ran
  <1>19. CASE DeleteGroup
    BY <1>19 DEF DeleteGroup, Ran
  <1>20. CASE DropCheck
    BY <1>20 DEF DropCheck
  <1>21. CASE RemoveScratch
    BY <1>21 DEF RemoveScratch
  <1>22. CASE Finish
    BY <1>22 DEF Finish
  <1>23. CASE HelperStart
    BY <1>23 DEF HelperStart, Helper, launcher, control
  <1>24. CASE HelperReady
    BY <1>24 DEF HelperReady, Helper, launcher, control
  <1>25. CASE HelperReleased
    BY <1>25 DEF HelperReleased, Helper, launcher, control
  <1>26. CASE HelperCompleted
    BY <1>26 DEF HelperCompleted, Helper, launcher, control
  <1>27. CASE HelperTerm
    BY <1>27 DEF HelperTerm, Helper, launcher, control
  <1>28. CASE HelperDie
    BY <1>28 DEF HelperDie, Helper, launcher, control
  <1>29. CASE MasterExit
    BY <1>29 DEF MasterExit, launcher, control
  <1>30. CASE UNCHANGED vars
    BY <1>30 DEF vars
  <1> QED
    BY <1>1, <1>2, <1>3, <1>4, <1>5, <1>6, <1>7, <1>8, <1>9, <1>10, <1>11, <1>12,
       <1>13, <1>14, <1>15, <1>16, <1>17, <1>18, <1>19, <1>20, <1>21, <1>22, <1>23,
       <1>24, <1>25, <1>26, <1>27, <1>28, <1>29, <1>30
       DEF Next, Launcher, Sandbox

-----------------------------------------------------------------------------
(* What is known, released and reported *)

LEMMA KnownStep == LInv /\ [Next]_vars => KnownInv'
  <1> SUFFICES ASSUME LInv, [Next]_vars
               PROVE  KnownInv'
    OBVIOUS
  <1> USE DEF LInv, KnownInv, Setup, Running, Ending, Releasing, Dropping, Delegation, Account, Records
  <1>1. CASE PrepareDirectories
    BY <1>1 DEF PrepareDirectories, Raise, Directories
  <1>2. CASE PrepareAdmit
    BY <1>2 DEF PrepareAdmit, Raise
  <1>3. CASE CreateGroup
    BY <1>3 DEF CreateGroup, Raise, Ran
  <1>4. CASE CreateUser
    BY <1>4 DEF CreateUser, Ran
  <1>5. CASE RollbackGroup
    BY <1>5 DEF RollbackGroup, Raise, Ran
  <1>6. CASE LookUpIdentity
    BY <1>6 DEF LookUpIdentity, Raise
  <1>7. ASSUME NEW id \in Delegation, AddDelegation(id)
        PROVE  KnownInv'
    BY <1>7 DEF AddDelegation, Ran
  <1>8. ASSUME NEW id \in Delegation, NEW undo \in BOOLEAN, DropDelegation(id, undo)
        PROVE  KnownInv'
    BY <1>8 DEF DropDelegation, DropStep, Ran
  <1>9. CASE PrepareCells
    BY <1>9 DEF PrepareCells, Raise
  <1>10. CASE Spawn
    BY <1>10 DEF Spawn
  <1>11. CASE WaitMode
    BY <1>11 DEF WaitMode, Raise
  <1>12. CASE HttpStatus
    BY <1>12 DEF HttpStatus, Raise
  <1>13. CASE MarkRequestComplete
    BY <1>13 DEF MarkRequestComplete
  <1>14. CASE WaitExit
    BY <1>14 DEF WaitExit, Raise
  <1>15. CASE Publish
    BY <1>15 DEF Publish, Raise
  <1>16. CASE Drain
    BY <1>16 DEF Drain
  <1>17. CASE CleanupIdentity
    BY <1>17 DEF CleanupIdentity
  <1>18. CASE DeleteUser
    BY <1>18 DEF DeleteUser, Ran
  <1>19. CASE DeleteGroup
    BY <1>19 DEF DeleteGroup, Ran
  <1>20. CASE DropCheck
    BY <1>20 DEF DropCheck
  <1>21. CASE RemoveScratch
    BY <1>21 DEF RemoveScratch
  <1>22. CASE Finish
    BY <1>22 DEF Finish
  <1>23. CASE HelperStart
    BY <1>23 DEF HelperStart, Helper, launcher, control
  <1>24. CASE HelperReady
    BY <1>24 DEF HelperReady, Helper, launcher, control
  <1>25. CASE HelperReleased
    BY <1>25 DEF HelperReleased, Helper, launcher, control
  <1>26. CASE HelperCompleted
    BY <1>26 DEF HelperCompleted, Helper, launcher, control
  <1>27. CASE HelperTerm
    BY <1>27 DEF HelperTerm, Helper, launcher, control
  <1>28. CASE HelperDie
    BY <1>28 DEF HelperDie, Helper, launcher, control
  <1>29. CASE MasterExit
    BY <1>29 DEF MasterExit, launcher, control
  <1>30. CASE UNCHANGED vars
    BY <1>30 DEF vars
  <1> QED
    BY <1>1, <1>2, <1>3, <1>4, <1>5, <1>6, <1>7, <1>8, <1>9, <1>10, <1>11, <1>12,
       <1>13, <1>14, <1>15, <1>16, <1>17, <1>18, <1>19, <1>20, <1>21, <1>22, <1>23,
       <1>24, <1>25, <1>26, <1>27, <1>28, <1>29, <1>30
       DEF Next, Launcher, Sandbox

LEMMA CleanupStep == LInv /\ [Next]_vars => CleanupInv'
  <1> SUFFICES ASSUME LInv, [Next]_vars
               PROVE  CleanupInv'
    OBVIOUS
  <1> USE DEF LInv, KnownInv, CleanupInv, Ending, Releasing, Dropping, Delegation, Account, Records
  <1>1. CASE PrepareDirectories
    BY <1>1 DEF PrepareDirectories, Raise, Directories
  <1>2. CASE PrepareAdmit
    BY <1>2 DEF PrepareAdmit, Raise
  <1>3. CASE CreateGroup
    BY <1>3 DEF CreateGroup, Raise, Ran
  <1>4. CASE CreateUser
    BY <1>4 DEF CreateUser, Ran
  <1>5. CASE RollbackGroup
    BY <1>5 DEF RollbackGroup, Raise, Ran
  <1>6. CASE LookUpIdentity
    BY <1>6 DEF LookUpIdentity, Raise
  <1>7. ASSUME NEW id \in Delegation, AddDelegation(id)
        PROVE  CleanupInv'
    BY <1>7 DEF AddDelegation, Ran
  <1>8. ASSUME NEW id \in Delegation, NEW undo \in BOOLEAN, DropDelegation(id, undo)
        PROVE  CleanupInv'
    BY <1>8 DEF DropDelegation, DropStep, Ran
  <1>9. CASE PrepareCells
    BY <1>9 DEF PrepareCells, Raise
  <1>10. CASE Spawn
    BY <1>10 DEF Spawn
  <1>11. CASE WaitMode
    BY <1>11 DEF WaitMode, Raise
  <1>12. CASE HttpStatus
    BY <1>12 DEF HttpStatus, Raise
  <1>13. CASE MarkRequestComplete
    BY <1>13 DEF MarkRequestComplete
  <1>14. CASE WaitExit
    BY <1>14 DEF WaitExit, Raise
  <1>15. CASE Publish
    BY <1>15 DEF Publish, Raise
  <1>16. CASE Drain
    BY <1>16 DEF Drain
  <1>17. CASE CleanupIdentity
    BY <1>17 DEF CleanupIdentity
  <1>18. CASE DeleteUser
    BY <1>18 DEF DeleteUser, Ran
  <1>19. CASE DeleteGroup
    BY <1>19 DEF DeleteGroup, Ran
  <1>20. CASE DropCheck
    BY <1>20 DEF DropCheck
  <1>21. CASE RemoveScratch
    BY <1>21 DEF RemoveScratch
  <1>22. CASE Finish
    BY <1>22 DEF Finish
  <1>23. CASE HelperStart
    BY <1>23 DEF HelperStart, Helper, launcher, control
  <1>24. CASE HelperReady
    BY <1>24 DEF HelperReady, Helper, launcher, control
  <1>25. CASE HelperReleased
    BY <1>25 DEF HelperReleased, Helper, launcher, control
  <1>26. CASE HelperCompleted
    BY <1>26 DEF HelperCompleted, Helper, launcher, control
  <1>27. CASE HelperTerm
    BY <1>27 DEF HelperTerm, Helper, launcher, control
  <1>28. CASE HelperDie
    BY <1>28 DEF HelperDie, Helper, launcher, control
  <1>29. CASE MasterExit
    BY <1>29 DEF MasterExit, launcher, control
  <1>30. CASE UNCHANGED vars
    BY <1>30 DEF vars
  <1> QED
    BY <1>1, <1>2, <1>3, <1>4, <1>5, <1>6, <1>7, <1>8, <1>9, <1>10, <1>11, <1>12,
       <1>13, <1>14, <1>15, <1>16, <1>17, <1>18, <1>19, <1>20, <1>21, <1>22, <1>23,
       <1>24, <1>25, <1>26, <1>27, <1>28, <1>29, <1>30
       DEF Next, Launcher, Sandbox

-----------------------------------------------------------------------------
LEMMA InvInit == Init => LInv
  <1> SUFFICES ASSUME Init
               PROVE  LInv
    OBVIOUS
  <1> USE LauncherConstants DEF Init, Setup, Delegation
  <1>1. LauncherType /\ SetsType
    <2>1. pc = "dirs" /\ mode = "on" /\ rc \in 0 .. 2 /\ faults \in 0 .. MaxFaults
      OBVIOUS
    <2>2. primary \in BOOLEAN /\ SetsType
      BY DEF SetsType
    <2> HIDE DEF Init
    <2> QED
      BY <2>1, <2>2 DEF LauncherType, Modes
  <1>2. SandboxType
    BY DEF SandboxType, Modes
  <1>3. RuntimeInv /\ HandshakeInv /\ EvidenceSound
    BY DEF RuntimeInv, HandshakeInv, EvidenceSound, StoppedAfterObservation, CompleteEvidence,
           Releasing, Dropping
  <1>4. KnownInv /\ CleanupInv
    BY DEF KnownInv, CleanupInv, Running, Ending, Releasing, Dropping
  <1> QED
    BY <1>1, <1>2, <1>3, <1>4, TypeParts DEF LInv

LEMMA InvStep == LInv /\ [Next]_vars => LInv'
  <1> SUFFICES ASSUME LInv, [Next]_vars
               PROVE  LInv'
    OBVIOUS
  <1>1. TypeOK'
    <2>1. LauncherType' /\ SetsType' /\ SandboxType'
      BY LauncherTypeStep, SetsTypeStep, SandboxTypeStep DEF LInv
    <2> QED
      BY <2>1 DEF TypeOK, LauncherType, SetsType, SandboxType
  <1> QED
    BY <1>1, RuntimeStep, HandshakeStep, KnownStep, CleanupStep DEF LInv

LEMMA Invariant == Spec => []LInv
  BY InvInit, InvStep, PTL DEF Spec

(***************************************************************************)
(* An exit status of 0 means that account, mapping and scratch tree are    *)
(* gone and the evidence is whole; a mapping that survives is reported,    *)
(* whichever account commands fail, and however often (_cleanup_launcher). *)
(***************************************************************************)
THEOREM ReleaseTheorem == Spec => []ReleaseSound
  <1>1. LInv => ReleaseSound
    BY DEF LInv, ReleaseSound, ZeroMeansReleased, SurvivingMappingReported, KnownInv, CleanupInv,
           Ending, Account, Delegation
  <1> QED
    BY <1>1, Invariant, PTL

(***************************************************************************)
(* The helper stops a master only after its answer was seen, and evidence  *)
(* is complete only when both modes were observed and the helper ended in  *)
(* order, in every interleaving of launcher, helper and master.            *)
(***************************************************************************)
THEOREM HandshakeTheorem == Spec => []EvidenceSound
  <1>1. LInv => EvidenceSound
    BY DEF LInv
  <1> QED
    BY <1>1, Invariant, PTL

(***************************************************************************)
(* Account, mapping and scratch tree stay while the sandbox runs, also     *)
(* when the setup is rolled back or the drain has failed.                  *)
(***************************************************************************)
THEOREM ReleaseOrderTheorem == Spec => ReleasedAfterRuntime
  <1> DEFINE Kept == sup = "running" =>
        host \cap (Account \cup Delegation \cup {"scratch"}) \subseteq host'
  <1>1. LInv /\ [Next]_vars => [Kept]_vars
    <2> SUFFICES ASSUME LInv, Next, sup = "running"
                 PROVE  host \cap (Account \cup Delegation \cup {"scratch"}) \subseteq host'
      BY DEF vars
    <2>0. pc \notin Setup /\ pc \notin Releasing
      BY DEF LInv, RuntimeInv
    <2>1. CASE Sandbox
      BY <2>1 DEF Sandbox, HelperStart, HelperReady, HelperReleased, HelperCompleted, HelperTerm,
                  HelperDie, MasterExit, Helper, launcher
    <2>2. CASE Launcher
      <3>1. CASE Spawn \/ WaitMode \/ HttpStatus \/ MarkRequestComplete \/ WaitExit \/ Publish
                 \/ Drain \/ Finish
        BY <3>1 DEF Spawn, WaitMode, HttpStatus, MarkRequestComplete, WaitExit, Publish, Drain, Finish
      <3>2. CASE PrepareDirectories \/ PrepareAdmit \/ CreateGroup \/ CreateUser \/ RollbackGroup
                 \/ LookUpIdentity \/ PrepareCells
        BY <2>0, <3>2 DEF Setup, PrepareDirectories, PrepareAdmit, CreateGroup, CreateUser,
                          RollbackGroup, LookUpIdentity, PrepareCells
      <3>3. CASE CleanupIdentity \/ DeleteUser \/ DeleteGroup \/ DropCheck \/ RemoveScratch
        BY <2>0, <3>3 DEF Releasing, Dropping, CleanupIdentity, DeleteUser, DeleteGroup, DropCheck,
                          RemoveScratch
      <3>4. ASSUME NEW id \in Delegation, AddDelegation(id)
            PROVE  FALSE
        BY <2>0, <3>4 DEF Setup, AddDelegation
      <3>5. ASSUME NEW id \in Delegation, NEW undo \in BOOLEAN, DropDelegation(id, undo)
            PROVE  FALSE
        BY <2>0, <3>5 DEF Setup, Releasing, Dropping, DropDelegation, DropStep
      <3> QED
        BY <2>2, <3>1, <3>2, <3>3, <3>4, <3>5 DEF Launcher
    <2> QED
      BY <2>1, <2>2 DEF Next
  <1> QED
    BY <1>1, Invariant, PTL DEF Spec, ReleasedAfterRuntime
=============================================================================
