-------------------------- MODULE SourceCacheProofs --------------------------
(***************************************************************************)
(* Proofs about SourceCache, for any number of preparers, commits, moves   *)
(* of the refs, failing git commands and kills at any step.  What depends  *)
(* on the lock is proved for preparers that ask for one and the same ref,  *)
(* since the lock is one of the ref and the path is not; what depends on   *)
(* the guard directory alone, for any refs.                                *)
(*                                                                         *)
(* The last part is about BuildCache, the build that the same preparers    *)
(* make of such a source.                                                  *)
(***************************************************************************)
EXTENDS SourceCache, TLAPS

-----------------------------------------------------------------------------
(***************************************************************************)
(* The inductive invariant.  At most one preparer is between taking and    *)
(* releasing the lock, and its step tells what is at the published path.   *)
(***************************************************************************)

\* The preparers ask for one ref.
SameRef == \A p, q \in Procs : Want[p] = Want[q]

\* A preparer has no result before it has decided.
ResultInv == \A p \in Procs :
  pc[p] \in Steps \ {"cleanup", "save", "done"} => result[p] = "none"

\* From the clone to the rename the staging directory has the commit of the record.
StagedInv == \A p \in Procs :
  pc[p] \in {"again", "rmtree", "rmrest", "rmmark", "exists", "guard", "mark", "rename"}
    => staging[p] = head[p]

\* What is compared with the origin and the checkout is a record of its ref.
RecordInv == \A p \in Procs : pc[p] \in {"check", "submodules"} => HasRecord(p)

\* A preparer inside holds the lock of its ref.
LockInv == \A p \in Procs : pc[p] \in Inside => lock[Want[p]] = p

\* What a preparer inside has found or put in place.
PlaceInv(p) ==
  /\ pc[p] = "submodules" => Reusable(seen[p])
  /\ pc[p] \in {"rmtree", "rmrest"} => tree # NONE
  /\ pc[p] \in {"rmmark", "exists", "guard", "mark", "rename"} => tree = NONE
  /\ pc[p] \in {"rename", "unguard"} => marker = Id(p)
  /\ pc[p] = "unguard" => tree = Whole(head[p])
  /\ pc[p] = "cleanup" /\ result[p] = "present" =>
       /\ Reusable(Id(p))
       /\ tree.torn = "hidden" => fails > 0 \/ (kills > 0 /\ staging[p] # NONE)
  /\ pc[p] # "unguard_error"

\* Only a removal tears a tree: one that goes on, one that was killed or one that failed.
TornInv ==
  tree # NONE /\ tree.torn # "no" => fails > 0 \/ kills > 0 \/ \E p \in Procs : pc[p] = "rmrest"

TInv == TypeOK /\ ResultInv /\ StagedInv /\ RecordInv

SInv ==
  /\ TInv /\ LockInv /\ \A p \in Procs : PlaceInv(p)
  /\ TornInv /\ MarkerTellsCommit /\ NeverUnmanaged /\ GuardHasOwner

-----------------------------------------------------------------------------
(* Types and results, for any assignment of refs *)

\* TypeOK in four parts: what is shared, the tree, what each preparer has, the counters.
SharedType ==
  /\ remote \in [Refs -> Commits]
  /\ marker \in Ids \cup {NONE} /\ saved \in Ids \cup {NONE}
  /\ publock \in BOOLEAN
  /\ lock \in [Refs -> Procs \cup {NONE}]
Tears == {"no", "hidden", "shown"}
TreeType == tree \in [commit : Commits, torn : Tears] \cup {NONE}
OwnType ==
  /\ pc \in [Procs -> Steps]
  /\ seen \in [Procs -> Ids \cup {NONE}]
  /\ staging \in [Procs -> Commits \cup {NONE}] /\ head \in [Procs -> Commits]
  /\ result \in [Procs -> {"none", "present", "blocked", "killed"}]
  /\ had \in [Procs -> SUBSET Commits]
CounterType == runs \in [Procs -> Nat] /\ moves \in Nat /\ fails \in Nat /\ kills \in Nat

LEMMA TypeParts == TypeOK <=> SharedType /\ TreeType /\ OwnType /\ CounterType
  BY DEF TypeOK, SharedType, TreeType, OwnType, CounterType, Tears

\* An identity is neither NONE nor without a commit.
LEMMA IdFacts ==
  ASSUME OwnType, NEW p \in Procs
  PROVE  /\ Id(p) \in Ids /\ Id(p) # NONE /\ Id(p).commit = head[p] /\ Id(p).ref = Want[p]
         /\ Want[p] \in Refs /\ p # NONE
         /\ \A c \in Commits : /\ Whole(c) \in [commit : Commits, torn : Tears]
                               /\ Whole(c) # NONE /\ Whole(c).commit = c /\ c # NONE
  <1>1. Want[p] \in Refs /\ head[p] \in Commits /\ NONE \notin Procs
    BY SourceConstants DEF OwnType
  <1>2. Id(p) \in Ids /\ Id(p).commit = head[p] /\ Id(p).ref = Want[p]
    BY <1>1 DEF Id, Ids
  <1>3. NONE \notin Ids /\ NONE \notin Commits /\ NONE \notin [commit : Commits, torn : Tears]
    BY SourceConstants DEF Ids, Tears
  <1>4. \A c \in Commits : Whole(c) \in [commit : Commits, torn : Tears] /\ Whole(c).commit = c
    BY DEF Whole, Tears
  <1> QED
    BY <1>1, <1>2, <1>3, <1>4

LEMMA SharedStep == TypeOK /\ [Next]_vars => SharedType'
  <1> SUFFICES ASSUME TypeOK, [Next]_vars
               PROVE  SharedType'
    OBVIOUS
  <1>0. SharedType /\ OwnType
    BY TypeParts
  <1>a. \A p \in Procs : Id(p) \in Ids /\ Want[p] \in Refs
    BY <1>0, IdFacts
  <1> USE <1>0, <1>a DEF SharedType, shared
  <1>1. ASSUME NEW p \in Procs, ReadPrevious(p)
        PROVE  SharedType'
    BY <1>1 DEF ReadPrevious, Goto
  <1>2. ASSUME NEW p \in Procs, Acquire(p)
        PROVE  SharedType'
    BY <1>2 DEF Acquire, Goto
  <1>3. ASSUME NEW p \in Procs, LockTimeout(p)
        PROVE  SharedType'
    BY <1>3 DEF LockTimeout, Ends, Goto
  <1>4a. ASSUME NEW p \in Procs, LsRemote(p)
        PROVE  SharedType'
    BY <1>4a DEF LsRemote, Goto
  <1>4b. ASSUME NEW p \in Procs, CheckLocal(p)
        PROVE  SharedType'
    BY <1>4b DEF CheckLocal, Goto
  <1>4c. ASSUME NEW p \in Procs, SubmoduleLost(p)
        PROVE  SharedType'
    BY <1>4c DEF SubmoduleLost, Goto
  <1>4. ASSUME NEW p \in Procs, Reuse(p)
        PROVE  SharedType'
    BY <1>4 DEF Reuse, Ends, Goto
  <1>5. ASSUME NEW p \in Procs, CloneFresh(p)
        PROVE  SharedType'
    BY <1>5 DEF CloneFresh, Goto
  <1>6. ASSUME NEW p \in Procs, CloneFails(p)
        PROVE  SharedType'
    BY <1>6 DEF CloneFails, Blocked, Ends, Goto
  <1>7. ASSUME NEW p \in Procs, PresentAlready(p)
        PROVE  SharedType'
    BY <1>7 DEF PresentAlready, Ends, Goto
  <1>8. ASSUME NEW p \in Procs, RemovalBlocker(p)
        PROVE  SharedType'
    BY <1>8 DEF RemovalBlocker, Blocked, Ends, Goto
  <1>9. ASSUME NEW p \in Procs, RemoveTree(p)
        PROVE  SharedType'
    BY <1>9 DEF RemoveTree, Blocked, Ends, Goto
  <1>10. ASSUME NEW p \in Procs, RemoveRest(p)
        PROVE  SharedType'
    BY <1>10 DEF RemoveRest, Blocked, Ends, Goto
  <1>11. ASSUME NEW p \in Procs, RemoveMarker(p)
        PROVE  SharedType'
    BY <1>11 DEF RemoveMarker, Goto
  <1>12. ASSUME NEW p \in Procs, DestinationFree(p)
        PROVE  SharedType'
    BY <1>12 DEF DestinationFree, Blocked, Ends, Goto
  <1>13. ASSUME NEW p \in Procs, TakeGuard(p)
        PROVE  SharedType'
    BY <1>13 DEF TakeGuard, Blocked, Ends, Goto
  <1>14. ASSUME NEW p \in Procs, MarkFinal(p)
        PROVE  SharedType'
    BY <1>14 DEF MarkFinal, Goto
  <1>15. ASSUME NEW p \in Procs, Rename(p)
        PROVE  SharedType'
    BY <1>15 DEF Rename, Goto
  <1>16. ASSUME NEW p \in Procs, ReleaseGuard(p)
        PROVE  SharedType'
    BY <1>16 DEF ReleaseGuard, Ends, Goto
  <1>17. ASSUME NEW p \in Procs, Cleanup(p)
        PROVE  SharedType'
    BY <1>17 DEF Cleanup, Goto
  <1>18. ASSUME NEW p \in Procs, Save(p)
        PROVE  SharedType'
    BY <1>18 DEF Save, Goto
  <1>19. ASSUME NEW p \in Procs, Restart(p)
        PROVE  SharedType'
    BY <1>19 DEF Restart, Ends, Goto
  <1>20. ASSUME NEW p \in Procs, Kill(p)
        PROVE  SharedType'
    BY <1>20 DEF Kill, Ends, Goto
  <1>21. ASSUME NEW r \in Refs, NEW c \in Commits, RemoteMoves(r, c)
        PROVE  SharedType'
    BY <1>21 DEF RemoteMoves
  <1>22. CASE UNCHANGED vars
    BY <1>22 DEF vars
  <1> QED
    BY <1>1, <1>2, <1>3, <1>4, <1>4a, <1>4b, <1>4c, <1>5, <1>6, <1>7, <1>8,
       <1>9, <1>10, <1>11, <1>12, <1>13, <1>14, <1>15, <1>16, <1>17, <1>18, <1>19, <1>20, <1>21, <1>22
       DEF Next, Step

LEMMA TreeStep == TypeOK /\ StagedInv /\ [Next]_vars => TreeType'
  <1> SUFFICES ASSUME TypeOK, StagedInv, [Next]_vars
               PROVE  TreeType'
    OBVIOUS
  <1>0. TreeType /\ OwnType
    BY TypeParts
  <1> USE <1>0 DEF TreeType, shared
  <1>1. ASSUME NEW p \in Procs, ReadPrevious(p)
        PROVE  TreeType'
    BY <1>1 DEF ReadPrevious, Goto
  <1>2. ASSUME NEW p \in Procs, Acquire(p)
        PROVE  TreeType'
    BY <1>2 DEF Acquire, Goto
  <1>3. ASSUME NEW p \in Procs, LockTimeout(p)
        PROVE  TreeType'
    BY <1>3 DEF LockTimeout, Ends, Goto
  <1>4a. ASSUME NEW p \in Procs, LsRemote(p)
        PROVE  TreeType'
    BY <1>4a DEF LsRemote, Goto
  <1>4b. ASSUME NEW p \in Procs, CheckLocal(p)
        PROVE  TreeType'
    BY <1>4b DEF CheckLocal, Goto
  <1>4c. ASSUME NEW p \in Procs, SubmoduleLost(p)
        PROVE  TreeType'
    BY <1>4c DEF SubmoduleLost, Goto
  <1>4. ASSUME NEW p \in Procs, Reuse(p)
        PROVE  TreeType'
    BY <1>4 DEF Reuse, Ends, Goto
  <1>5. ASSUME NEW p \in Procs, CloneFresh(p)
        PROVE  TreeType'
    BY <1>5 DEF CloneFresh, Goto
  <1>6. ASSUME NEW p \in Procs, CloneFails(p)
        PROVE  TreeType'
    BY <1>6 DEF CloneFails, Blocked, Ends, Goto
  <1>7. ASSUME NEW p \in Procs, PresentAlready(p)
        PROVE  TreeType'
    BY <1>7 DEF PresentAlready, Ends, Goto
  <1>8. ASSUME NEW p \in Procs, RemovalBlocker(p)
        PROVE  TreeType'
    BY <1>8 DEF RemovalBlocker, Blocked, Ends, Goto
  <1>9. ASSUME NEW p \in Procs, RemoveTree(p)
        PROVE  TreeType'
    <2>1. tree' = tree \/ (tree # NONE /\ \E t \in Tears : tree' = [tree EXCEPT !.torn = t])
      BY <1>9 DEF RemoveTree, Tears
    <2> QED
      BY <2>1
  <1>10. ASSUME NEW p \in Procs, RemoveRest(p)
        PROVE  TreeType'
    BY <1>10 DEF RemoveRest, Blocked, Ends, Goto
  <1>11. ASSUME NEW p \in Procs, RemoveMarker(p)
        PROVE  TreeType'
    BY <1>11 DEF RemoveMarker, Goto
  <1>12. ASSUME NEW p \in Procs, DestinationFree(p)
        PROVE  TreeType'
    BY <1>12 DEF DestinationFree, Blocked, Ends, Goto
  <1>13. ASSUME NEW p \in Procs, TakeGuard(p)
        PROVE  TreeType'
    BY <1>13 DEF TakeGuard, Blocked, Ends, Goto
  <1>14. ASSUME NEW p \in Procs, MarkFinal(p)
        PROVE  TreeType'
    BY <1>14 DEF MarkFinal, Goto
  <1>15. ASSUME NEW p \in Procs, Rename(p)
        PROVE  TreeType'
    <2>1. pc[p] = "rename" /\ (tree' = tree \/ tree' = Whole(staging[p]))
      BY <1>15 DEF Rename
    <2>2. staging[p] \in Commits
      BY <1>15, <2>1 DEF StagedInv, OwnType
    <2> QED
      BY <2>1, <2>2, IdFacts
  <1>16. ASSUME NEW p \in Procs, ReleaseGuard(p)
        PROVE  TreeType'
    BY <1>16 DEF ReleaseGuard, Ends, Goto
  <1>17. ASSUME NEW p \in Procs, Cleanup(p)
        PROVE  TreeType'
    BY <1>17 DEF Cleanup, Goto
  <1>18. ASSUME NEW p \in Procs, Save(p)
        PROVE  TreeType'
    BY <1>18 DEF Save, Goto
  <1>19. ASSUME NEW p \in Procs, Restart(p)
        PROVE  TreeType'
    BY <1>19 DEF Restart, Ends, Goto
  <1>20. ASSUME NEW p \in Procs, Kill(p)
        PROVE  TreeType'
    BY <1>20 DEF Kill, Ends, Goto
  <1>21. ASSUME NEW r \in Refs, NEW c \in Commits, RemoteMoves(r, c)
        PROVE  TreeType'
    BY <1>21 DEF RemoteMoves
  <1>22. CASE UNCHANGED vars
    BY <1>22 DEF vars
  <1> QED
    BY <1>1, <1>2, <1>3, <1>4, <1>4a, <1>4b, <1>4c, <1>5, <1>6, <1>7, <1>8,
       <1>9, <1>10, <1>11, <1>12, <1>13, <1>14, <1>15, <1>16, <1>17, <1>18, <1>19, <1>20, <1>21, <1>22
       DEF Next, Step

LEMMA OwnStep == TypeOK /\ RecordInv /\ [Next]_vars => OwnType'
  <1> SUFFICES ASSUME TypeOK, RecordInv, [Next]_vars
               PROVE  OwnType'
    OBVIOUS
  <1>0. OwnType /\ SharedType
    BY TypeParts
  <1>a. \A p \in Procs : Want[p] \in Refs /\ remote[Want[p]] \in Commits
    BY <1>0, SourceConstants DEF SharedType
  <1>b. saved \in Ids \cup {NONE} /\ (CHOOSE c \in Commits : TRUE) \in Commits
    BY <1>0, SourceConstants DEF SharedType
  <1> USE <1>0, <1>a, <1>b DEF OwnType, Steps, own
  <1>1. ASSUME NEW p \in Procs, ReadPrevious(p)
        PROVE  OwnType'
    BY <1>1 DEF ReadPrevious, Goto
  <1>2. ASSUME NEW p \in Procs, Acquire(p)
        PROVE  OwnType'
    BY <1>2 DEF Acquire, Goto
  <1>3. ASSUME NEW p \in Procs, LockTimeout(p)
        PROVE  OwnType'
    BY <1>3 DEF LockTimeout, Ends, Goto
  <1>4a. ASSUME NEW p \in Procs, LsRemote(p)
        PROVE  OwnType'
    BY <1>4a DEF LsRemote, Goto
  <1>4b. ASSUME NEW p \in Procs, CheckLocal(p)
        PROVE  OwnType'
    BY <1>4b DEF CheckLocal, Goto
  <1>4c. ASSUME NEW p \in Procs, SubmoduleLost(p)
        PROVE  OwnType'
    BY <1>4c DEF SubmoduleLost, Goto
  <1>4. ASSUME NEW p \in Procs, Reuse(p)
        PROVE  OwnType'
    <2>1. seen[p] \in Ids
      BY <1>4 DEF Reuse, RecordInv, HasRecord
    <2>2. seen[p].commit \in Commits
      BY <2>1 DEF Ids
    <2> QED
      BY <1>4, <2>2 DEF Reuse, Ends, Goto
  <1>5. ASSUME NEW p \in Procs, CloneFresh(p)
        PROVE  OwnType'
    BY <1>5 DEF CloneFresh, Goto
  <1>6. ASSUME NEW p \in Procs, CloneFails(p)
        PROVE  OwnType'
    BY <1>6 DEF CloneFails, Blocked, Ends, Goto
  <1>7. ASSUME NEW p \in Procs, PresentAlready(p)
        PROVE  OwnType'
    BY <1>7 DEF PresentAlready, Ends, Goto
  <1>8. ASSUME NEW p \in Procs, RemovalBlocker(p)
        PROVE  OwnType'
    BY <1>8 DEF RemovalBlocker, Blocked, Ends, Goto
  <1>9. ASSUME NEW p \in Procs, RemoveTree(p)
        PROVE  OwnType'
    BY <1>9 DEF RemoveTree, Blocked, Ends, Goto
  <1>10. ASSUME NEW p \in Procs, RemoveRest(p)
        PROVE  OwnType'
    BY <1>10 DEF RemoveRest, Blocked, Ends, Goto
  <1>11. ASSUME NEW p \in Procs, RemoveMarker(p)
        PROVE  OwnType'
    BY <1>11 DEF RemoveMarker, Goto
  <1>12. ASSUME NEW p \in Procs, DestinationFree(p)
        PROVE  OwnType'
    BY <1>12 DEF DestinationFree, Blocked, Ends, Goto
  <1>13. ASSUME NEW p \in Procs, TakeGuard(p)
        PROVE  OwnType'
    BY <1>13 DEF TakeGuard, Blocked, Ends, Goto
  <1>14. ASSUME NEW p \in Procs, MarkFinal(p)
        PROVE  OwnType'
    BY <1>14 DEF MarkFinal, Goto
  <1>15. ASSUME NEW p \in Procs, Rename(p)
        PROVE  OwnType'
    BY <1>15 DEF Rename, Goto
  <1>16. ASSUME NEW p \in Procs, ReleaseGuard(p)
        PROVE  OwnType'
    BY <1>16 DEF ReleaseGuard, Ends, Goto
  <1>17. ASSUME NEW p \in Procs, Cleanup(p)
        PROVE  OwnType'
    BY <1>17 DEF Cleanup, Goto
  <1>18. ASSUME NEW p \in Procs, Save(p)
        PROVE  OwnType'
    BY <1>18 DEF Save, Goto
  <1>19. ASSUME NEW p \in Procs, Restart(p)
        PROVE  OwnType'
    BY <1>19 DEF Restart, Ends, Goto
  <1>20. ASSUME NEW p \in Procs, Kill(p)
        PROVE  OwnType'
    BY <1>20 DEF Kill, Ends, Goto
  <1>21. ASSUME NEW r \in Refs, NEW c \in Commits, RemoteMoves(r, c)
        PROVE  OwnType'
    BY <1>21 DEF RemoteMoves
  <1>22. CASE UNCHANGED vars
    BY <1>22 DEF vars
  <1> QED
    BY <1>1, <1>2, <1>3, <1>4, <1>4a, <1>4b, <1>4c, <1>5, <1>6, <1>7, <1>8,
       <1>9, <1>10, <1>11, <1>12, <1>13, <1>14, <1>15, <1>16, <1>17, <1>18, <1>19, <1>20, <1>21, <1>22
       DEF Next, Step

LEMMA CounterStep == TypeOK /\ [Next]_vars => CounterType'
  <1> SUFFICES ASSUME TypeOK, [Next]_vars
               PROVE  CounterType'
    OBVIOUS
  <1>0. CounterType
    BY TypeParts
  <1> USE <1>0 DEF CounterType, own, counters, CommandFails
  <1>1. ASSUME NEW p \in Procs, ReadPrevious(p)
        PROVE  CounterType'
    BY <1>1 DEF ReadPrevious, Goto
  <1>2. ASSUME NEW p \in Procs, Acquire(p)
        PROVE  CounterType'
    BY <1>2 DEF Acquire, Goto
  <1>3. ASSUME NEW p \in Procs, LockTimeout(p)
        PROVE  CounterType'
    BY <1>3 DEF LockTimeout, Ends, Goto
  <1>4a. ASSUME NEW p \in Procs, LsRemote(p)
        PROVE  CounterType'
    BY <1>4a DEF LsRemote, Goto
  <1>4b. ASSUME NEW p \in Procs, CheckLocal(p)
        PROVE  CounterType'
    BY <1>4b DEF CheckLocal, Goto
  <1>4c. ASSUME NEW p \in Procs, SubmoduleLost(p)
        PROVE  CounterType'
    BY <1>4c DEF SubmoduleLost, Goto
  <1>4. ASSUME NEW p \in Procs, Reuse(p)
        PROVE  CounterType'
    BY <1>4 DEF Reuse, Ends, Goto
  <1>5. ASSUME NEW p \in Procs, CloneFresh(p)
        PROVE  CounterType'
    BY <1>5 DEF CloneFresh, Goto
  <1>6. ASSUME NEW p \in Procs, CloneFails(p)
        PROVE  CounterType'
    BY <1>6 DEF CloneFails, Blocked, Ends, Goto
  <1>7. ASSUME NEW p \in Procs, PresentAlready(p)
        PROVE  CounterType'
    BY <1>7 DEF PresentAlready, Ends, Goto
  <1>8. ASSUME NEW p \in Procs, RemovalBlocker(p)
        PROVE  CounterType'
    BY <1>8 DEF RemovalBlocker, Blocked, Ends, Goto
  <1>9. ASSUME NEW p \in Procs, RemoveTree(p)
        PROVE  CounterType'
    BY <1>9 DEF RemoveTree, Blocked, Ends, Goto
  <1>10. ASSUME NEW p \in Procs, RemoveRest(p)
        PROVE  CounterType'
    BY <1>10 DEF RemoveRest, Blocked, Ends, Goto
  <1>11. ASSUME NEW p \in Procs, RemoveMarker(p)
        PROVE  CounterType'
    BY <1>11 DEF RemoveMarker, Goto
  <1>12. ASSUME NEW p \in Procs, DestinationFree(p)
        PROVE  CounterType'
    BY <1>12 DEF DestinationFree, Blocked, Ends, Goto
  <1>13. ASSUME NEW p \in Procs, TakeGuard(p)
        PROVE  CounterType'
    BY <1>13 DEF TakeGuard, Blocked, Ends, Goto
  <1>14. ASSUME NEW p \in Procs, MarkFinal(p)
        PROVE  CounterType'
    BY <1>14 DEF MarkFinal, Goto
  <1>15. ASSUME NEW p \in Procs, Rename(p)
        PROVE  CounterType'
    BY <1>15 DEF Rename, Goto
  <1>16. ASSUME NEW p \in Procs, ReleaseGuard(p)
        PROVE  CounterType'
    BY <1>16 DEF ReleaseGuard, Ends, Goto
  <1>17. ASSUME NEW p \in Procs, Cleanup(p)
        PROVE  CounterType'
    BY <1>17 DEF Cleanup, Goto
  <1>18. ASSUME NEW p \in Procs, Save(p)
        PROVE  CounterType'
    BY <1>18 DEF Save, Goto
  <1>19. ASSUME NEW p \in Procs, Restart(p)
        PROVE  CounterType'
    BY <1>19 DEF Restart, Ends, Goto
  <1>20. ASSUME NEW p \in Procs, Kill(p)
        PROVE  CounterType'
    BY <1>20 DEF Kill, Ends, Goto
  <1>21. ASSUME NEW r \in Refs, NEW c \in Commits, RemoteMoves(r, c)
        PROVE  CounterType'
    BY <1>21 DEF RemoteMoves
  <1>22. CASE UNCHANGED vars
    BY <1>22 DEF vars
  <1> QED
    BY <1>1, <1>2, <1>3, <1>4, <1>4a, <1>4b, <1>4c, <1>5, <1>6, <1>7, <1>8,
       <1>9, <1>10, <1>11, <1>12, <1>13, <1>14, <1>15, <1>16, <1>17, <1>18, <1>19, <1>20, <1>21, <1>22
       DEF Next, Step

LEMMA ResultStep == TypeOK /\ ResultInv /\ [Next]_vars => ResultInv'
  <1> SUFFICES ASSUME TypeOK, ResultInv, [Next]_vars
               PROVE  ResultInv'
    OBVIOUS
  <1>0. OwnType
    BY TypeParts
  <1> USE <1>0 DEF OwnType, ResultInv, Steps, own
  <1>1. ASSUME NEW p \in Procs, ReadPrevious(p)
        PROVE  ResultInv'
    BY <1>1 DEF ReadPrevious, Goto
  <1>2. ASSUME NEW p \in Procs, Acquire(p)
        PROVE  ResultInv'
    BY <1>2 DEF Acquire, Goto
  <1>3. ASSUME NEW p \in Procs, LockTimeout(p)
        PROVE  ResultInv'
    BY <1>3 DEF LockTimeout, Ends, Goto
  <1>4a. ASSUME NEW p \in Procs, LsRemote(p)
        PROVE  ResultInv'
    BY <1>4a DEF LsRemote, Goto
  <1>4b. ASSUME NEW p \in Procs, CheckLocal(p)
        PROVE  ResultInv'
    BY <1>4b DEF CheckLocal, Goto
  <1>4c. ASSUME NEW p \in Procs, SubmoduleLost(p)
        PROVE  ResultInv'
    BY <1>4c DEF SubmoduleLost, Goto
  <1>4. ASSUME NEW p \in Procs, Reuse(p)
        PROVE  ResultInv'
    BY <1>4 DEF Reuse, Ends, Goto
  <1>5. ASSUME NEW p \in Procs, CloneFresh(p)
        PROVE  ResultInv'
    BY <1>5 DEF CloneFresh, Goto
  <1>6. ASSUME NEW p \in Procs, CloneFails(p)
        PROVE  ResultInv'
    BY <1>6 DEF CloneFails, Blocked, Ends, Goto
  <1>7. ASSUME NEW p \in Procs, PresentAlready(p)
        PROVE  ResultInv'
    BY <1>7 DEF PresentAlready, Ends, Goto
  <1>8. ASSUME NEW p \in Procs, RemovalBlocker(p)
        PROVE  ResultInv'
    BY <1>8 DEF RemovalBlocker, Blocked, Ends, Goto
  <1>9. ASSUME NEW p \in Procs, RemoveTree(p)
        PROVE  ResultInv'
    BY <1>9 DEF RemoveTree, Blocked, Ends, Goto
  <1>10. ASSUME NEW p \in Procs, RemoveRest(p)
        PROVE  ResultInv'
    BY <1>10 DEF RemoveRest, Blocked, Ends, Goto
  <1>11. ASSUME NEW p \in Procs, RemoveMarker(p)
        PROVE  ResultInv'
    BY <1>11 DEF RemoveMarker, Goto
  <1>12. ASSUME NEW p \in Procs, DestinationFree(p)
        PROVE  ResultInv'
    BY <1>12 DEF DestinationFree, Blocked, Ends, Goto
  <1>13. ASSUME NEW p \in Procs, TakeGuard(p)
        PROVE  ResultInv'
    BY <1>13 DEF TakeGuard, Blocked, Ends, Goto
  <1>14. ASSUME NEW p \in Procs, MarkFinal(p)
        PROVE  ResultInv'
    BY <1>14 DEF MarkFinal, Goto
  <1>15. ASSUME NEW p \in Procs, Rename(p)
        PROVE  ResultInv'
    BY <1>15 DEF Rename, Goto
  <1>16. ASSUME NEW p \in Procs, ReleaseGuard(p)
        PROVE  ResultInv'
    BY <1>16 DEF ReleaseGuard, Ends, Goto
  <1>17. ASSUME NEW p \in Procs, Cleanup(p)
        PROVE  ResultInv'
    BY <1>17 DEF Cleanup, Goto
  <1>18. ASSUME NEW p \in Procs, Save(p)
        PROVE  ResultInv'
    BY <1>18 DEF Save, Goto
  <1>19. ASSUME NEW p \in Procs, Restart(p)
        PROVE  ResultInv'
    BY <1>19 DEF Restart, Ends, Goto
  <1>20. ASSUME NEW p \in Procs, Kill(p)
        PROVE  ResultInv'
    BY <1>20 DEF Kill, Ends, Goto
  <1>21. ASSUME NEW r \in Refs, NEW c \in Commits, RemoteMoves(r, c)
        PROVE  ResultInv'
    BY <1>21 DEF RemoteMoves
  <1>22. CASE UNCHANGED vars
    BY <1>22 DEF vars
  <1> QED
    BY <1>1, <1>2, <1>3, <1>4, <1>4a, <1>4b, <1>4c, <1>5, <1>6, <1>7, <1>8,
       <1>9, <1>10, <1>11, <1>12, <1>13, <1>14, <1>15, <1>16, <1>17, <1>18, <1>19, <1>20, <1>21, <1>22
       DEF Next, Step

LEMMA StagedStep == TypeOK /\ StagedInv /\ [Next]_vars => StagedInv'
  <1> SUFFICES ASSUME TypeOK, StagedInv, [Next]_vars
               PROVE  StagedInv'
    OBVIOUS
  <1>0. OwnType
    BY TypeParts
  <1> USE <1>0 DEF OwnType, StagedInv, own
  <1>1. ASSUME NEW p \in Procs, ReadPrevious(p)
        PROVE  StagedInv'
    BY <1>1 DEF ReadPrevious, Goto
  <1>2. ASSUME NEW p \in Procs, Acquire(p)
        PROVE  StagedInv'
    BY <1>2 DEF Acquire, Goto
  <1>3. ASSUME NEW p \in Procs, LockTimeout(p)
        PROVE  StagedInv'
    BY <1>3 DEF LockTimeout, Ends, Goto
  <1>4a. ASSUME NEW p \in Procs, LsRemote(p)
        PROVE  StagedInv'
    BY <1>4a DEF LsRemote, Goto
  <1>4b. ASSUME NEW p \in Procs, CheckLocal(p)
        PROVE  StagedInv'
    BY <1>4b DEF CheckLocal, Goto
  <1>4c. ASSUME NEW p \in Procs, SubmoduleLost(p)
        PROVE  StagedInv'
    BY <1>4c DEF SubmoduleLost, Goto
  <1>4. ASSUME NEW p \in Procs, Reuse(p)
        PROVE  StagedInv'
    BY <1>4 DEF Reuse, Ends, Goto
  <1>5. ASSUME NEW p \in Procs, CloneFresh(p)
        PROVE  StagedInv'
    BY <1>5 DEF CloneFresh, Goto
  <1>6. ASSUME NEW p \in Procs, CloneFails(p)
        PROVE  StagedInv'
    BY <1>6 DEF CloneFails, Blocked, Ends, Goto
  <1>7. ASSUME NEW p \in Procs, PresentAlready(p)
        PROVE  StagedInv'
    BY <1>7 DEF PresentAlready, Ends, Goto
  <1>8. ASSUME NEW p \in Procs, RemovalBlocker(p)
        PROVE  StagedInv'
    BY <1>8 DEF RemovalBlocker, Blocked, Ends, Goto
  <1>9. ASSUME NEW p \in Procs, RemoveTree(p)
        PROVE  StagedInv'
    BY <1>9 DEF RemoveTree, Blocked, Ends, Goto
  <1>10. ASSUME NEW p \in Procs, RemoveRest(p)
        PROVE  StagedInv'
    BY <1>10 DEF RemoveRest, Blocked, Ends, Goto
  <1>11. ASSUME NEW p \in Procs, RemoveMarker(p)
        PROVE  StagedInv'
    BY <1>11 DEF RemoveMarker, Goto
  <1>12. ASSUME NEW p \in Procs, DestinationFree(p)
        PROVE  StagedInv'
    BY <1>12 DEF DestinationFree, Blocked, Ends, Goto
  <1>13. ASSUME NEW p \in Procs, TakeGuard(p)
        PROVE  StagedInv'
    BY <1>13 DEF TakeGuard, Blocked, Ends, Goto
  <1>14. ASSUME NEW p \in Procs, MarkFinal(p)
        PROVE  StagedInv'
    BY <1>14 DEF MarkFinal, Goto
  <1>15. ASSUME NEW p \in Procs, Rename(p)
        PROVE  StagedInv'
    BY <1>15 DEF Rename, Goto
  <1>16. ASSUME NEW p \in Procs, ReleaseGuard(p)
        PROVE  StagedInv'
    BY <1>16 DEF ReleaseGuard, Ends, Goto
  <1>17. ASSUME NEW p \in Procs, Cleanup(p)
        PROVE  StagedInv'
    BY <1>17 DEF Cleanup, Goto
  <1>18. ASSUME NEW p \in Procs, Save(p)
        PROVE  StagedInv'
    BY <1>18 DEF Save, Goto
  <1>19. ASSUME NEW p \in Procs, Restart(p)
        PROVE  StagedInv'
    BY <1>19 DEF Restart, Ends, Goto
  <1>20. ASSUME NEW p \in Procs, Kill(p)
        PROVE  StagedInv'
    BY <1>20 DEF Kill, Ends, Goto
  <1>21. ASSUME NEW r \in Refs, NEW c \in Commits, RemoteMoves(r, c)
        PROVE  StagedInv'
    BY <1>21 DEF RemoteMoves
  <1>22. CASE UNCHANGED vars
    BY <1>22 DEF vars
  <1> QED
    BY <1>1, <1>2, <1>3, <1>4, <1>4a, <1>4b, <1>4c, <1>5, <1>6, <1>7, <1>8,
       <1>9, <1>10, <1>11, <1>12, <1>13, <1>14, <1>15, <1>16, <1>17, <1>18, <1>19, <1>20, <1>21, <1>22
       DEF Next, Step


LEMMA RecordStep == TypeOK /\ RecordInv /\ [Next]_vars => RecordInv'
  <1> SUFFICES ASSUME TypeOK, RecordInv, [Next]_vars
               PROVE  RecordInv'
    OBVIOUS
  <1>0. OwnType
    BY TypeParts
  <1> USE <1>0 DEF OwnType, RecordInv, HasRecord, own
  <1>1. ASSUME NEW p \in Procs, ReadPrevious(p)
        PROVE  RecordInv'
    BY <1>1 DEF ReadPrevious, Goto
  <1>2. ASSUME NEW p \in Procs, Acquire(p)
        PROVE  RecordInv'
    BY <1>2 DEF Acquire, Goto
  <1>3. ASSUME NEW p \in Procs, LockTimeout(p)
        PROVE  RecordInv'
    BY <1>3 DEF LockTimeout, Ends, Goto
  <1>4a. ASSUME NEW p \in Procs, LsRemote(p)
        PROVE  RecordInv'
    BY <1>4a DEF LsRemote, RecordCurrent, Goto
  <1>4b. ASSUME NEW p \in Procs, CheckLocal(p)
        PROVE  RecordInv'
    BY <1>4b DEF CheckLocal, Goto
  <1>4c. ASSUME NEW p \in Procs, SubmoduleLost(p)
        PROVE  RecordInv'
    BY <1>4c DEF SubmoduleLost, Goto
  <1>4. ASSUME NEW p \in Procs, Reuse(p)
        PROVE  RecordInv'
    BY <1>4 DEF Reuse, Ends, Goto
  <1>5. ASSUME NEW p \in Procs, CloneFresh(p)
        PROVE  RecordInv'
    BY <1>5 DEF CloneFresh, Goto
  <1>6. ASSUME NEW p \in Procs, CloneFails(p)
        PROVE  RecordInv'
    BY <1>6 DEF CloneFails, Blocked, Ends, Goto
  <1>7. ASSUME NEW p \in Procs, PresentAlready(p)
        PROVE  RecordInv'
    BY <1>7 DEF PresentAlready, Ends, Goto
  <1>8. ASSUME NEW p \in Procs, RemovalBlocker(p)
        PROVE  RecordInv'
    BY <1>8 DEF RemovalBlocker, Blocked, Ends, Goto
  <1>9. ASSUME NEW p \in Procs, RemoveTree(p)
        PROVE  RecordInv'
    BY <1>9 DEF RemoveTree, Blocked, Ends, Goto
  <1>10. ASSUME NEW p \in Procs, RemoveRest(p)
        PROVE  RecordInv'
    BY <1>10 DEF RemoveRest, Blocked, Ends, Goto
  <1>11. ASSUME NEW p \in Procs, RemoveMarker(p)
        PROVE  RecordInv'
    BY <1>11 DEF RemoveMarker, Goto
  <1>12. ASSUME NEW p \in Procs, DestinationFree(p)
        PROVE  RecordInv'
    BY <1>12 DEF DestinationFree, Blocked, Ends, Goto
  <1>13. ASSUME NEW p \in Procs, TakeGuard(p)
        PROVE  RecordInv'
    BY <1>13 DEF TakeGuard, Blocked, Ends, Goto
  <1>14. ASSUME NEW p \in Procs, MarkFinal(p)
        PROVE  RecordInv'
    BY <1>14 DEF MarkFinal, Goto
  <1>15. ASSUME NEW p \in Procs, Rename(p)
        PROVE  RecordInv'
    BY <1>15 DEF Rename, Goto
  <1>16. ASSUME NEW p \in Procs, ReleaseGuard(p)
        PROVE  RecordInv'
    BY <1>16 DEF ReleaseGuard, Ends, Goto
  <1>17. ASSUME NEW p \in Procs, Cleanup(p)
        PROVE  RecordInv'
    BY <1>17 DEF Cleanup, Goto
  <1>18. ASSUME NEW p \in Procs, Save(p)
        PROVE  RecordInv'
    BY <1>18 DEF Save, Goto
  <1>19. ASSUME NEW p \in Procs, Restart(p)
        PROVE  RecordInv'
    BY <1>19 DEF Restart, Ends, Goto
  <1>20. ASSUME NEW p \in Procs, Kill(p)
        PROVE  RecordInv'
    BY <1>20 DEF Kill, Ends, Goto
  <1>21. ASSUME NEW r \in Refs, NEW c \in Commits, RemoteMoves(r, c)
        PROVE  RecordInv'
    BY <1>21 DEF RemoteMoves
  <1>22. CASE UNCHANGED vars
    BY <1>22 DEF vars
  <1> QED
    BY <1>1, <1>2, <1>3, <1>4, <1>4a, <1>4b, <1>4c, <1>5, <1>6, <1>7, <1>8,
       <1>9, <1>10, <1>11, <1>12, <1>13, <1>14, <1>15, <1>16, <1>17, <1>18, <1>19, <1>20, <1>21, <1>22
       DEF Next, Step

LEMMA TypeInit == Init => TInv
  <1> SUFFICES ASSUME Init
               PROVE  TInv
    OBVIOUS
  <1>1. SharedType /\ TreeType
    BY DEF Init, SharedType, TreeType
  <1>2. (CHOOSE c \in Commits : TRUE) \in Commits
    BY SourceConstants
  <1>3. OwnType /\ CounterType
    BY <1>2 DEF Init, OwnType, CounterType, Steps
  <1> QED
    BY <1>1, <1>3, TypeParts DEF TInv, ResultInv, StagedInv, RecordInv, Init

LEMMA TypeStep == TInv /\ [Next]_vars => TInv'
  <1> SUFFICES ASSUME TInv, [Next]_vars
               PROVE  TInv'
    OBVIOUS
  <1>1. SharedType' /\ TreeType' /\ OwnType' /\ CounterType'
    BY SharedStep, TreeStep, OwnStep, CounterStep DEF TInv
  <1>2. TypeOK'
    BY <1>1 DEF TypeOK, SharedType, TreeType, OwnType, CounterType, Tears
  <1> QED
    BY <1>2, ResultStep, StagedStep, RecordStep DEF TInv

LEMMA TypeInvariant == Spec => []TInv
  BY TypeInit, TypeStep, PTL DEF Spec

(* How recent a reported commit is, for any assignment of refs *)

\* Where its ref is, what ls-remote has confirmed and what was cloned are commits
\* the ref has had since the preparer took the lock.
HadInv == \A p \in Procs :
  /\ pc[p] \in Inside => remote[Want[p]] \in had[p]
  /\ pc[p] \in {"check", "submodules"} => seen[p].commit \in had[p]
  /\ pc[p] \in Inside \ {"ask", "check", "submodules", "clone", "cleanup"} => head[p] \in had[p]
  /\ pc[p] = "cleanup" /\ result[p] = "present" => head[p] \in had[p]

LEMMA HadStep == TInv /\ HadInv /\ [Next]_vars => HadInv'
  <1> SUFFICES ASSUME TInv, HadInv, [Next]_vars
               PROVE  HadInv'
    OBVIOUS
  <1>0. OwnType /\ SharedType
    BY TypeParts DEF TInv
  <1> USE <1>0 DEF OwnType, HadInv, Inside, Steps, own, shared
  <1>1. ASSUME NEW p \in Procs, ReadPrevious(p)
        PROVE  HadInv'
    BY <1>1 DEF ReadPrevious, Goto
  <1>2. ASSUME NEW p \in Procs, Acquire(p)
        PROVE  HadInv'
    BY <1>2 DEF Acquire, Goto
  <1>3. ASSUME NEW p \in Procs, LockTimeout(p)
        PROVE  HadInv'
    BY <1>3 DEF LockTimeout, Ends, Goto
  <1>4a. ASSUME NEW p \in Procs, LsRemote(p)
        PROVE  HadInv'
    BY <1>4a DEF LsRemote, RecordCurrent, Goto
  <1>4b. ASSUME NEW p \in Procs, CheckLocal(p)
        PROVE  HadInv'
    BY <1>4b DEF CheckLocal, Goto
  <1>4c. ASSUME NEW p \in Procs, SubmoduleLost(p)
        PROVE  HadInv'
    BY <1>4c DEF SubmoduleLost, Goto
  <1>4. ASSUME NEW p \in Procs, Reuse(p)
        PROVE  HadInv'
    BY <1>4 DEF Reuse, Ends, Goto
  <1>5. ASSUME NEW p \in Procs, CloneFresh(p)
        PROVE  HadInv'
    BY <1>5 DEF CloneFresh, Goto
  <1>6. ASSUME NEW p \in Procs, CloneFails(p)
        PROVE  HadInv'
    BY <1>6 DEF CloneFails, Blocked, Ends, Goto
  <1>7. ASSUME NEW p \in Procs, PresentAlready(p)
        PROVE  HadInv'
    BY <1>7 DEF PresentAlready, Ends, Goto
  <1>8. ASSUME NEW p \in Procs, RemovalBlocker(p)
        PROVE  HadInv'
    BY <1>8 DEF RemovalBlocker, Blocked, Ends, Goto
  <1>9. ASSUME NEW p \in Procs, RemoveTree(p)
        PROVE  HadInv'
    BY <1>9 DEF RemoveTree, Blocked, Ends, Goto
  <1>10. ASSUME NEW p \in Procs, RemoveRest(p)
        PROVE  HadInv'
    BY <1>10 DEF RemoveRest, Blocked, Ends, Goto
  <1>11. ASSUME NEW p \in Procs, RemoveMarker(p)
        PROVE  HadInv'
    BY <1>11 DEF RemoveMarker, Goto
  <1>12. ASSUME NEW p \in Procs, DestinationFree(p)
        PROVE  HadInv'
    BY <1>12 DEF DestinationFree, Blocked, Ends, Goto
  <1>13. ASSUME NEW p \in Procs, TakeGuard(p)
        PROVE  HadInv'
    BY <1>13 DEF TakeGuard, Blocked, Ends, Goto
  <1>14. ASSUME NEW p \in Procs, MarkFinal(p)
        PROVE  HadInv'
    BY <1>14 DEF MarkFinal, Goto
  <1>15. ASSUME NEW p \in Procs, Rename(p)
        PROVE  HadInv'
    BY <1>15 DEF Rename, Goto
  <1>16. ASSUME NEW p \in Procs, ReleaseGuard(p)
        PROVE  HadInv'
    BY <1>16 DEF ReleaseGuard, Ends, Goto
  <1>17. ASSUME NEW p \in Procs, Cleanup(p)
        PROVE  HadInv'
    BY <1>17 DEF Cleanup, Goto
  <1>18. ASSUME NEW p \in Procs, Save(p)
        PROVE  HadInv'
    BY <1>18 DEF Save, Goto
  <1>19. ASSUME NEW p \in Procs, Restart(p)
        PROVE  HadInv'
    BY <1>19 DEF Restart, Ends, Goto
  <1>20. ASSUME NEW p \in Procs, Kill(p)
        PROVE  HadInv'
    BY <1>20 DEF Kill, Ends, Goto
  <1>21. ASSUME NEW r \in Refs, NEW c \in Commits, RemoteMoves(r, c)
        PROVE  HadInv'
    BY <1>21 DEF RemoteMoves, SharedType
  <1>22. CASE UNCHANGED vars
    BY <1>22 DEF vars
  <1> QED
    BY <1>1, <1>2, <1>3, <1>4, <1>4a, <1>4b, <1>4c, <1>5, <1>6, <1>7, <1>8,
       <1>9, <1>10, <1>11, <1>12, <1>13, <1>14, <1>15, <1>16, <1>17, <1>18, <1>19, <1>20, <1>21, <1>22
       DEF Next, Step

(***************************************************************************)
(* The commit a preparer reports as present is one its ref has had at the  *)
(* origin while it held the lock, whatever refs the preparers ask for,     *)
(* however often the refs move between the answer of ls-remote, the look   *)
(* at the checkout, the clone and the report, and whichever git commands   *)
(* fail (reusable_git_source_record, publish_fresh_git_checkout).          *)
(***************************************************************************)
THEOREM RecentTheorem == Spec => []PresentIsRecent
  <1>1. Init => HadInv
    BY DEF Init, HadInv, Inside
  <1>2. Spec => []HadInv
    BY <1>1, TypeInvariant, HadStep, PTL DEF Spec
  <1>3. HadInv => PresentIsRecent
    BY DEF HadInv, PresentIsRecent
  <1> QED
    BY <1>2, <1>3, PTL

-----------------------------------------------------------------------------
(* One step, for preparers of the same ref *)

\* What the step of one preparer leaves to the others.
Frame(p) ==
  /\ \A q \in Procs \ {p} : /\ pc'[q] = pc[q] /\ staging'[q] = staging[q]
                            /\ head'[q] = head[q] /\ result'[q] = result[q]
                            /\ seen'[q] = seen[q]
  /\ (fails > 0 => fails' > 0) /\ (kills > 0 => kills' > 0)
  /\ pc[p] \in Inside \/ UNCHANGED <<tree, marker>>

LEMMA FrameStep ==
  ASSUME OwnType, CounterType, NEW p \in Procs, Step(p) \/ Restart(p) \/ Kill(p)
  PROVE  Frame(p)
  <1> USE DEF OwnType, CounterType, Frame, Inside, Steps, shared, own, counters, CommandFails
  <1>1. CASE ReadPrevious(p)
    BY <1>1 DEF ReadPrevious, Goto
  <1>2. CASE Acquire(p)
    BY <1>2 DEF Acquire, Goto
  <1>3. CASE LockTimeout(p)
    BY <1>3 DEF LockTimeout, Ends, Goto
  <1>4a. CASE LsRemote(p)
    BY <1>4a DEF LsRemote, Goto
  <1>4b. CASE CheckLocal(p)
    BY <1>4b DEF CheckLocal, Goto
  <1>4c. CASE SubmoduleLost(p)
    BY <1>4c DEF SubmoduleLost, Goto
  <1>4. CASE Reuse(p)
    BY <1>4 DEF Reuse, Ends, Goto
  <1>5. CASE CloneFresh(p)
    BY <1>5 DEF CloneFresh, Goto
  <1>6. CASE CloneFails(p)
    BY <1>6 DEF CloneFails, Blocked, Ends, Goto
  <1>7. CASE PresentAlready(p)
    BY <1>7 DEF PresentAlready, Ends, Goto
  <1>8. CASE RemovalBlocker(p)
    BY <1>8 DEF RemovalBlocker, Blocked, Ends, Goto
  <1>9. CASE RemoveTree(p)
    BY <1>9 DEF RemoveTree, Blocked, Ends, Goto
  <1>10. CASE RemoveRest(p)
    BY <1>10 DEF RemoveRest, Blocked, Ends, Goto
  <1>11. CASE RemoveMarker(p)
    BY <1>11 DEF RemoveMarker, Goto
  <1>12. CASE DestinationFree(p)
    BY <1>12 DEF DestinationFree, Blocked, Ends, Goto
  <1>13. CASE TakeGuard(p)
    BY <1>13 DEF TakeGuard, Blocked, Ends, Goto
  <1>14. CASE MarkFinal(p)
    BY <1>14 DEF MarkFinal, Goto
  <1>15. CASE Rename(p)
    BY <1>15 DEF Rename, Goto
  <1>16. CASE ReleaseGuard(p)
    BY <1>16 DEF ReleaseGuard, Ends, Goto
  <1>17. CASE Cleanup(p)
    BY <1>17 DEF Cleanup, Goto
  <1>18. CASE Save(p)
    BY <1>18 DEF Save, Goto
  <1>19. CASE Restart(p)
    BY <1>19 DEF Restart, Ends, Goto
  <1>20. CASE Kill(p)
    BY <1>20 DEF Kill, Ends, Goto
  <1> QED
    BY <1>1, <1>2, <1>3, <1>4, <1>4a, <1>4b, <1>4c, <1>5, <1>6, <1>7, <1>8,
       <1>9, <1>10, <1>11, <1>12, <1>13, <1>14, <1>15, <1>16, <1>17, <1>18, <1>19, <1>20
       DEF Step

LEMMA LockStep ==
  ASSUME SInv, SameRef, NEW p \in Procs, Step(p) \/ Restart(p) \/ Kill(p)
  PROVE  LockInv'
  <1>0. OwnType /\ SharedType /\ LockInv
    BY TypeParts DEF SInv, TInv
  <1>a. \A q \in Procs : Want[q] \in Refs /\ Want[q] = Want[p] /\ q # NONE
    BY SourceConstants DEF SameRef
  <1> USE <1>0, <1>a DEF OwnType, SharedType, LockInv, Inside, Steps, shared, own
  <1>1. CASE ReadPrevious(p)
    BY <1>1 DEF ReadPrevious, Goto
  <1>2. CASE Acquire(p)
    BY <1>2 DEF Acquire, Goto
  <1>3. CASE LockTimeout(p)
    BY <1>3 DEF LockTimeout, Ends, Goto
  <1>4a. CASE LsRemote(p)
    BY <1>4a DEF LsRemote, Goto
  <1>4b. CASE CheckLocal(p)
    BY <1>4b DEF CheckLocal, Goto
  <1>4c. CASE SubmoduleLost(p)
    BY <1>4c DEF SubmoduleLost, Goto
  <1>4. CASE Reuse(p)
    BY <1>4 DEF Reuse, Ends, Goto
  <1>5. CASE CloneFresh(p)
    BY <1>5 DEF CloneFresh, Goto
  <1>6. CASE CloneFails(p)
    BY <1>6 DEF CloneFails, Blocked, Ends, Goto
  <1>7. CASE PresentAlready(p)
    BY <1>7 DEF PresentAlready, Ends, Goto
  <1>8. CASE RemovalBlocker(p)
    BY <1>8 DEF RemovalBlocker, Blocked, Ends, Goto
  <1>9. CASE RemoveTree(p)
    BY <1>9 DEF RemoveTree, Blocked, Ends, Goto
  <1>10. CASE RemoveRest(p)
    BY <1>10 DEF RemoveRest, Blocked, Ends, Goto
  <1>11. CASE RemoveMarker(p)
    BY <1>11 DEF RemoveMarker, Goto
  <1>12. CASE DestinationFree(p)
    BY <1>12 DEF DestinationFree, Blocked, Ends, Goto
  <1>13. CASE TakeGuard(p)
    BY <1>13 DEF TakeGuard, Blocked, Ends, Goto
  <1>14. CASE MarkFinal(p)
    BY <1>14 DEF MarkFinal, Goto
  <1>15. CASE Rename(p)
    BY <1>15 DEF Rename, Goto
  <1>16. CASE ReleaseGuard(p)
    BY <1>16 DEF ReleaseGuard, Ends, Goto
  <1>17. CASE Cleanup(p)
    BY <1>17 DEF Cleanup, Goto
  <1>18. CASE Save(p)
    BY <1>18 DEF Save, Goto
  <1>19. CASE Restart(p)
    BY <1>19 DEF Restart, Ends, Goto
  <1>20. CASE Kill(p)
    BY <1>20 DEF Kill, Ends, Goto
  <1> QED
    BY <1>1, <1>2, <1>3, <1>4, <1>4a, <1>4b, <1>4c, <1>5, <1>6, <1>7, <1>8,
       <1>9, <1>10, <1>11, <1>12, <1>13, <1>14, <1>15, <1>16, <1>17, <1>18, <1>19, <1>20
       DEF Step

\* What a preparer knows of the place stays true, or becomes true, by its own step.
LEMMA PlaceStep ==
  ASSUME SInv, SameRef, NEW p \in Procs, Step(p) \/ Restart(p) \/ Kill(p)
  PROVE  PlaceInv(p)'
  <1>0. /\ OwnType /\ TreeType /\ CounterType /\ PlaceInv(p) /\ StagedInv /\ RecordInv
        /\ NeverUnmanaged
    BY TypeParts DEF SInv, TInv
  <1>a. /\ Id(p) # NONE /\ Whole(head[p]) # NONE /\ head[p] # NONE
        /\ HasRecord(p) => seen[p] = [ref |-> Want[p], commit |-> seen[p].commit]
    BY <1>0, IdFacts DEF OwnType, Ids, HasRecord
  <1> USE <1>0, <1>a DEF OwnType, PlaceInv, StagedInv, NeverUnmanaged, Reusable, shared, own
  <1>1. CASE ReadPrevious(p)
    BY <1>1 DEF ReadPrevious, Goto
  <1>2. CASE Acquire(p)
    BY <1>2 DEF Acquire, Goto
  <1>3. CASE LockTimeout(p)
    BY <1>3 DEF LockTimeout, Ends, Goto
  <1>4a. CASE LsRemote(p)
    BY <1>4a DEF LsRemote, Goto
  <1>4b. CASE CheckLocal(p)
    BY <1>4b DEF CheckLocal, Goto
  <1>4c. CASE SubmoduleLost(p)
    BY <1>4c DEF SubmoduleLost, Goto
  <1>4. CASE Reuse(p)
    <2>1. HasRecord(p) /\ Reusable(seen[p])
      BY <1>4 DEF Reuse, RecordInv
    <2>2. /\ head'[p] = seen[p].commit /\ pc'[p] = "cleanup"
          /\ UNCHANGED <<tree, marker>>
          /\ tree.torn = "no" \/ fails' > 0
      BY <1>4 DEF Reuse, Ends, Goto, SubmodulesClean, CommandFails, CounterType
    <2>3. Id(p)' = seen[p]
      BY <2>1, <2>2 DEF Id
    <2> QED
      BY <2>1, <2>2, <2>3
  <1>5. CASE CloneFresh(p)
    BY <1>5 DEF CloneFresh, Goto
  <1>6. CASE CloneFails(p)
    BY <1>6 DEF CloneFails, Blocked, Ends, Goto
  <1>7. CASE PresentAlready(p)
    <2>1. Reusable(Id(p)) /\ pc[p] = "again" /\ staging[p] = head[p]
      BY <1>7 DEF PresentAlready
    <2>2. /\ pc'[p] = "cleanup" /\ head' = head
          /\ UNCHANGED <<tree, marker, staging, fails, kills>>
      BY <1>7 DEF PresentAlready, Ends, Goto, counters
    <2>3. tree.torn = "hidden" => fails > 0 \/ kills > 0
      <3>1. \A q \in Procs : pc[q] = "rmrest" => q = p
        BY <2>1 DEF SInv, LockInv, SameRef, Inside, Steps
      <3> QED
        BY <2>1, <3>1 DEF SInv, TornInv
    <2>4. Id(p)' = Id(p)
      BY <2>2 DEF Id
    <2> QED
      BY <2>1, <2>2, <2>3, <2>4
  <1>8. CASE RemovalBlocker(p)
    BY <1>8 DEF RemovalBlocker, Blocked, Ends, Goto
  <1>9. CASE RemoveTree(p)
    <2>1. tree # NONE /\ marker # NONE
      BY <1>9 DEF RemoveTree
    <2>2. /\ \E t \in Tears : tree' = [tree EXCEPT !.torn = t]
          /\ pc' = [pc EXCEPT ![p] = "rmrest"]
          /\ UNCHANGED <<marker, head, result>>
      BY <1>9, <2>1 DEF RemoveTree, Goto, Tears
    <2>3. tree' # NONE
      <3>1. tree' \in [commit : Commits, torn : Tears]
        BY <2>1, <2>2 DEF TreeType
      <3> QED
        BY <3>1, SourceConstants DEF Tears
    <2> QED
      BY <2>1, <2>2, <2>3
  <1>10. CASE RemoveRest(p)
    BY <1>10 DEF RemoveRest, Blocked, Ends, Goto
  <1>11. CASE RemoveMarker(p)
    BY <1>11 DEF RemoveMarker, Goto
  <1>12. CASE DestinationFree(p)
    BY <1>12 DEF DestinationFree, Blocked, Ends, Goto
  <1>13. CASE TakeGuard(p)
    BY <1>13 DEF TakeGuard, Blocked, Ends, Goto
  <1>14. CASE MarkFinal(p)
    BY <1>14 DEF MarkFinal, Goto, Id
  <1>15. CASE Rename(p)
    <2>1. tree = NONE /\ marker = Id(p) /\ staging[p] = head[p]
      BY <1>15 DEF Rename
    <2>2. /\ tree' = Whole(head[p]) /\ pc' = [pc EXCEPT ![p] = "unguard"]
          /\ UNCHANGED <<marker, head, result>>
      BY <1>15, <2>1 DEF Rename, Goto
    <2>3. Id(p)' = Id(p)
      BY <2>2 DEF Id
    <2> QED
      BY <2>1, <2>2, <2>3
  <1>16. CASE ReleaseGuard(p)
    BY <1>16, IdFacts DEF ReleaseGuard, Ends, Goto, Id, Whole
  <1>17. CASE Cleanup(p)
    BY <1>17 DEF Cleanup, Goto
  <1>18. CASE Save(p)
    BY <1>18 DEF Save, Goto
  <1>19. CASE Restart(p)
    BY <1>19 DEF Restart, Ends, Goto
  <1>20. CASE Kill(p)
    BY <1>20 DEF Kill, Ends, Goto
  <1> QED
    BY <1>1, <1>2, <1>3, <1>4, <1>4a, <1>4b, <1>4c, <1>5, <1>6, <1>7, <1>8,
       <1>9, <1>10, <1>11, <1>12, <1>13, <1>14, <1>15, <1>16, <1>17, <1>18, <1>19, <1>20
       DEF Step

LEMMA PlaceOthers ==
  ASSUME SInv, SameRef, NEW p \in Procs, Frame(p), NEW q \in Procs \ {p}
  PROVE  PlaceInv(q)'
  <1>1. CASE pc[p] \in Inside
    <2>1. pc[q] \notin Inside
      BY <1>1 DEF SInv, LockInv, SameRef
    <2> QED
      BY <2>1 DEF Frame, PlaceInv, Inside, Steps
  <1>2. CASE UNCHANGED <<tree, marker>>
    BY <1>2 DEF SInv, Frame, PlaceInv, Id, Reusable
  <1> QED
    BY <1>1, <1>2 DEF Frame

\* The tree and its marker.
LEMMA MarkerStep ==
  ASSUME SInv, NEW p \in Procs, Step(p) \/ Restart(p) \/ Kill(p)
  PROVE  MarkerTellsCommit' /\ NeverUnmanaged'
  <1> DEFINE G == MarkerTellsCommit' /\ NeverUnmanaged'
  <1>0. OwnType /\ TreeType /\ PlaceInv(p) /\ StagedInv /\ NeverUnmanaged /\ MarkerTellsCommit
    BY TypeParts DEF SInv, TInv
  <1>a. /\ Id(p) # NONE /\ Id(p).commit = head[p]
        /\ Whole(head[p]) # NONE /\ Whole(head[p]).commit = head[p]
    BY <1>0, IdFacts DEF OwnType
  <1> USE <1>0, <1>a DEF PlaceInv, StagedInv, NeverUnmanaged, MarkerTellsCommit, shared, own
  <1>1. CASE ReadPrevious(p)
    BY <1>1 DEF ReadPrevious, Goto
  <1>2. CASE Acquire(p)
    BY <1>2 DEF Acquire, Goto
  <1>3. CASE LockTimeout(p)
    BY <1>3 DEF LockTimeout, Ends, Goto
  <1>4a. CASE LsRemote(p)
    BY <1>4a DEF LsRemote, Goto
  <1>4b. CASE CheckLocal(p)
    BY <1>4b DEF CheckLocal, Goto
  <1>4c. CASE SubmoduleLost(p)
    BY <1>4c DEF SubmoduleLost, Goto
  <1>4. CASE Reuse(p)
    BY <1>4 DEF Reuse, Ends, Goto
  <1>5. CASE CloneFresh(p)
    BY <1>5 DEF CloneFresh, Goto
  <1>6. CASE CloneFails(p)
    BY <1>6 DEF CloneFails, Blocked, Ends, Goto
  <1>7. CASE PresentAlready(p)
    BY <1>7 DEF PresentAlready, Ends, Goto
  <1>8. CASE RemovalBlocker(p)
    BY <1>8 DEF RemovalBlocker, Blocked, Ends, Goto
  <1>9. CASE RemoveTree(p)
    <2>1. tree # NONE /\ marker # NONE
      BY <1>9 DEF RemoveTree
    <2>2. /\ \E t \in Tears : tree' = [tree EXCEPT !.torn = t]
          /\ UNCHANGED <<marker, head, result>>
      BY <1>9, <2>1 DEF RemoveTree, Tears
    <2>3. tree' # NONE /\ tree'.commit = tree.commit
      <3>1. tree' \in [commit : Commits, torn : Tears] /\ tree'.commit = tree.commit
        BY <2>1, <2>2 DEF TreeType
      <3> QED
        BY <3>1, SourceConstants DEF Tears
    <2> QED
      BY <2>1, <2>2, <2>3
  <1>10. CASE RemoveRest(p)
    BY <1>10 DEF RemoveRest, Blocked, Ends, Goto
  <1>11. CASE RemoveMarker(p)
    BY <1>11 DEF RemoveMarker, Goto
  <1>12. CASE DestinationFree(p)
    BY <1>12 DEF DestinationFree, Blocked, Ends, Goto
  <1>13. CASE TakeGuard(p)
    BY <1>13 DEF TakeGuard, Blocked, Ends, Goto
  <1>14. CASE MarkFinal(p)
    BY <1>14 DEF MarkFinal, Goto
  <1>15. CASE Rename(p)
    <2>1. tree = NONE /\ marker = Id(p) /\ staging[p] = head[p]
      BY <1>15 DEF Rename
    <2>2. /\ tree' = Whole(head[p]) /\ pc' = [pc EXCEPT ![p] = "unguard"]
          /\ UNCHANGED <<marker, head, result>>
      BY <1>15, <2>1 DEF Rename, Goto
    <2> QED
      BY <2>1, <2>2
  <1>16. CASE ReleaseGuard(p)
    BY <1>16 DEF ReleaseGuard, Ends, Goto
  <1>17. CASE Cleanup(p)
    BY <1>17 DEF Cleanup, Goto
  <1>18. CASE Save(p)
    BY <1>18 DEF Save, Goto
  <1>19. CASE Restart(p)
    BY <1>19 DEF Restart, Ends, Goto
  <1>20. CASE Kill(p)
    BY <1>20 DEF Kill, Ends, Goto
  <1> QED
    BY <1>1, <1>2, <1>3, <1>4, <1>4a, <1>4b, <1>4c, <1>5, <1>6, <1>7, <1>8,
       <1>9, <1>10, <1>11, <1>12, <1>13, <1>14, <1>15, <1>16, <1>17, <1>18, <1>19, <1>20
       DEF Step

\* A removal that leaves a torn tree behind was killed or has failed.
LEMMA TornStep ==
  ASSUME SInv, NEW p \in Procs, Step(p) \/ Restart(p) \/ Kill(p)
  PROVE  TornInv'
  <1>0. OwnType /\ CounterType /\ PlaceInv(p) /\ TornInv /\ StagedInv
    BY TypeParts DEF SInv, TInv
  <1> USE <1>0 DEF OwnType, CounterType, TornInv, shared, own, counters, CommandFails
  <1>1. CASE ReadPrevious(p)
    BY <1>1 DEF ReadPrevious, Goto
  <1>2. CASE Acquire(p)
    BY <1>2 DEF Acquire, Goto
  <1>3. CASE LockTimeout(p)
    BY <1>3 DEF LockTimeout, Ends, Goto
  <1>4a. CASE LsRemote(p)
    BY <1>4a DEF LsRemote, Goto
  <1>4b. CASE CheckLocal(p)
    BY <1>4b DEF CheckLocal, Goto
  <1>4c. CASE SubmoduleLost(p)
    BY <1>4c DEF SubmoduleLost, Goto
  <1>4. CASE Reuse(p)
    BY <1>4 DEF Reuse, Ends, Goto
  <1>5. CASE CloneFresh(p)
    BY <1>5 DEF CloneFresh, Goto
  <1>6. CASE CloneFails(p)
    BY <1>6 DEF CloneFails, Blocked, Ends, Goto
  <1>7. CASE PresentAlready(p)
    BY <1>7 DEF PresentAlready, Ends, Goto
  <1>8. CASE RemovalBlocker(p)
    BY <1>8 DEF RemovalBlocker, Blocked, Ends, Goto
  <1>9. CASE RemoveTree(p)
    <2>1. tree' = tree \/ pc'[p] = "rmrest"
      BY <1>9 DEF RemoveTree, Goto
    <2>2. pc[p] = "rmtree" /\ UNCHANGED <<fails, kills>> /\ \A q \in Procs \ {p} : pc'[q] = pc[q]
      BY <1>9 DEF RemoveTree, Blocked, Ends, Goto
    <2> QED
      BY <2>1, <2>2
  <1>10. CASE RemoveRest(p)
    BY <1>10 DEF RemoveRest, Blocked, Ends, Goto
  <1>11. CASE RemoveMarker(p)
    BY <1>11 DEF RemoveMarker, Goto
  <1>12. CASE DestinationFree(p)
    BY <1>12 DEF DestinationFree, Blocked, Ends, Goto
  <1>13. CASE TakeGuard(p)
    BY <1>13 DEF TakeGuard, Blocked, Ends, Goto
  <1>14. CASE MarkFinal(p)
    BY <1>14 DEF MarkFinal, Goto
  <1>15. CASE Rename(p)
    BY <1>15 DEF Rename, Goto, Whole
  <1>16. CASE ReleaseGuard(p)
    BY <1>16 DEF ReleaseGuard, Ends, Goto
  <1>17. CASE Cleanup(p)
    BY <1>17 DEF Cleanup, Goto
  <1>18. CASE Save(p)
    BY <1>18 DEF Save, Goto
  <1>19. CASE Restart(p)
    BY <1>19 DEF Restart, Ends, Goto
  <1>20. CASE Kill(p)
    BY <1>20 DEF Kill, Ends, Goto
  <1> QED
    BY <1>1, <1>2, <1>3, <1>4, <1>4a, <1>4b, <1>4c, <1>5, <1>6, <1>7, <1>8,
       <1>9, <1>10, <1>11, <1>12, <1>13, <1>14, <1>15, <1>16, <1>17, <1>18, <1>19, <1>20
       DEF Step

LEMMA GuardStep ==
  ASSUME TypeOK, GuardHasOwner, NEW p \in Procs, Step(p) \/ Restart(p) \/ Kill(p)
  PROVE  GuardHasOwner'
  <1>0. OwnType /\ GuardHasOwner /\ CounterType
    BY TypeParts
  <1> USE <1>0 DEF OwnType, GuardHasOwner, Guarded, CounterType, shared, counters
  <1>1. CASE ReadPrevious(p)
    BY <1>1 DEF ReadPrevious, Goto
  <1>2. CASE Acquire(p)
    BY <1>2 DEF Acquire, Goto
  <1>3. CASE LockTimeout(p)
    BY <1>3 DEF LockTimeout, Ends, Goto
  <1>4a. CASE LsRemote(p)
    BY <1>4a DEF LsRemote, Goto
  <1>4b. CASE CheckLocal(p)
    BY <1>4b DEF CheckLocal, Goto
  <1>4c. CASE SubmoduleLost(p)
    BY <1>4c DEF SubmoduleLost, Goto
  <1>4. CASE Reuse(p)
    BY <1>4 DEF Reuse, Ends, Goto
  <1>5. CASE CloneFresh(p)
    BY <1>5 DEF CloneFresh, Goto
  <1>6. CASE CloneFails(p)
    BY <1>6 DEF CloneFails, Blocked, Ends, Goto
  <1>7. CASE PresentAlready(p)
    BY <1>7 DEF PresentAlready, Ends, Goto
  <1>8. CASE RemovalBlocker(p)
    BY <1>8 DEF RemovalBlocker, Blocked, Ends, Goto
  <1>9. CASE RemoveTree(p)
    BY <1>9 DEF RemoveTree, Blocked, Ends, Goto
  <1>10. CASE RemoveRest(p)
    BY <1>10 DEF RemoveRest, Blocked, Ends, Goto
  <1>11. CASE RemoveMarker(p)
    BY <1>11 DEF RemoveMarker, Goto
  <1>12. CASE DestinationFree(p)
    BY <1>12 DEF DestinationFree, Blocked, Ends, Goto
  <1>13. CASE TakeGuard(p)
    BY <1>13 DEF TakeGuard, Blocked, Ends, Goto
  <1>14. CASE MarkFinal(p)
    BY <1>14 DEF MarkFinal, Goto
  <1>15. CASE Rename(p)
    BY <1>15 DEF Rename, Goto
  <1>16. CASE ReleaseGuard(p)
    BY <1>16 DEF ReleaseGuard, Ends, Goto
  <1>17. CASE Cleanup(p)
    BY <1>17 DEF Cleanup, Goto
  <1>18. CASE Save(p)
    BY <1>18 DEF Save, Goto
  <1>19. CASE Restart(p)
    BY <1>19 DEF Restart, Ends, Goto
  <1>20. CASE Kill(p)
    BY <1>20 DEF Kill, Ends, Goto
  <1> QED
    BY <1>1, <1>2, <1>3, <1>4, <1>4a, <1>4b, <1>4c, <1>5, <1>6, <1>7, <1>8,
       <1>9, <1>10, <1>11, <1>12, <1>13, <1>14, <1>15, <1>16, <1>17, <1>18, <1>19, <1>20
       DEF Step

-----------------------------------------------------------------------------
LEMMA InvInit == Init => SInv
  <1> SUFFICES ASSUME Init
               PROVE  SInv
    OBVIOUS
  <1>1. TInv
    BY TypeInit
  <1>2. LockInv /\ \A p \in Procs : PlaceInv(p)
    BY DEF Init, LockInv, PlaceInv, Inside
  <1>3. TornInv /\ MarkerTellsCommit /\ NeverUnmanaged /\ GuardHasOwner
    BY DEF Init, TornInv, MarkerTellsCommit, NeverUnmanaged, GuardHasOwner
  <1> QED
    BY <1>1, <1>2, <1>3 DEF SInv

LEMMA InvStep ==
  ASSUME SameRef
  PROVE  SInv /\ [Next]_vars => SInv'
  <1> SUFFICES ASSUME SInv, [Next]_vars
               PROVE  SInv'
    OBVIOUS
  <1>0. TInv'
    BY TypeStep DEF SInv
  <1>1. ASSUME NEW p \in Procs, Step(p) \/ Restart(p) \/ Kill(p)
        PROVE  SInv'
    <2>1. Frame(p)
      BY <1>1, FrameStep, TypeParts DEF SInv, TInv
    <2>2. \A q \in Procs : PlaceInv(q)'
      BY <1>1, <2>1, PlaceStep, PlaceOthers
    <2> QED
      BY <1>0, <1>1, <2>2, LockStep, TornStep, MarkerStep, GuardStep DEF SInv, TInv
  <1>2. CASE UNCHANGED <<tree, marker, publock, lock, pc, seen, staging, head, result,
                      fails, kills>>
    BY <1>0, <1>2
       DEF SInv, LockInv, PlaceInv, Id, Reusable, TornInv, MarkerTellsCommit, NeverUnmanaged,
           GuardHasOwner
  <1>3. ASSUME NEW r \in Refs, NEW c \in Commits, RemoteMoves(r, c)
        PROVE  SInv'
    BY <1>2, <1>3 DEF RemoteMoves, own
  <1>4. CASE UNCHANGED vars
    BY <1>2, <1>4 DEF vars
  <1> QED
    BY <1>1, <1>3, <1>4 DEF Next

(***************************************************************************)
(* Preparers of one ref never hand on a checkout of another commit or one  *)
(* torn where its status shows it; what they have published or reused is   *)
(* whole unless a command has failed, and the torn submodule that a        *)
(* preparer with a fresh clone can hand on comes from a killed or failed   *)
(* removal.  Tree and marker always agree, no checkout is left without the *)
(* marker that allows its removal, and the guard of the rename has an      *)
(* owner unless one was killed, at whatever steps preparers are killed     *)
(* (publish_fresh_git_checkout, atomic_publish_dir).                       *)
(***************************************************************************)
THEOREM CacheTheorem ==
  ASSUME SameRef
  PROVE  Spec => []CacheSound
  <1>1. SInv => CacheSound
    BY DEF SInv, TInv, CacheSound, PlaceInv, PresentIsWhole
  <1>2. Spec => []SInv
    BY InvInit, InvStep, PTL DEF Spec
  <1> QED
    BY <1>1, <1>2, PTL

-----------------------------------------------------------------------------
(***************************************************************************)
(* Preparers of different refs.  Their locks differ, so several are inside *)
(* at the same time; the guard directory is all that keeps them apart, and *)
(* it does so from the writing of the marker to the end of the rename.     *)
(***************************************************************************)

\* One preparer is behind the guard, and until the rename nobody writes another marker
\* than its own, which may have been removed.
GuardInv == \A p \in Procs : pc[p] \in Guarded =>
  /\ publock = TRUE
  /\ \A q \in Procs \ {p} : pc[q] \notin Guarded
  /\ pc[p] = "rename" => marker \in {Id(p), NONE}

GInv == TInv /\ GuardInv /\ MarkerTellsCommit /\ GuardHasOwner

\* What a step does to the guard, to the marker and to the tree.
GuardPassage(p) ==
  \/ pc[p] \notin Guarded /\ pc'[p] \notin Guarded /\ publock' = publock
  \/ pc[p] = "guard" /\ pc'[p] = "mark" /\ publock # TRUE /\ publock' = TRUE
  \/ pc[p] \in Guarded /\ pc'[p] \in Guarded /\ publock' = publock
  \/ pc[p] \in Guarded /\ pc'[p] \notin Guarded
MarkerPassage(p) ==
  /\ \/ marker' \in {marker, NONE}
     \/ pc[p] = "mark" /\ marker' = Id(p) /\ tree = NONE
  /\ pc'[p] = "rename" => pc[p] = "mark" /\ marker' = Id(p)
  /\ pc'[p] \in Guarded => head'[p] = head[p]
TreePassage(p) ==
  \/ tree' \in {tree, NONE}
  \/ tree'.commit = tree.commit /\ tree # NONE
  \/ pc[p] = "rename" /\ tree' = Whole(staging[p]) /\ marker' = marker
Passage(p) == GuardPassage(p) /\ MarkerPassage(p) /\ TreePassage(p)

LEMMA GuardPassageStep ==
  ASSUME OwnType, TreeType, NEW p \in Procs, Step(p) \/ Restart(p) \/ Kill(p)
  PROVE  GuardPassage(p)
  <1> USE DEF OwnType, GuardPassage, Guarded, shared, own
  <1>1. CASE ReadPrevious(p)
    BY <1>1 DEF ReadPrevious, Goto
  <1>2. CASE Acquire(p)
    BY <1>2 DEF Acquire, Goto
  <1>3. CASE LockTimeout(p)
    BY <1>3 DEF LockTimeout, Ends, Goto
  <1>4a. CASE LsRemote(p)
    BY <1>4a DEF LsRemote, Goto
  <1>4b. CASE CheckLocal(p)
    BY <1>4b DEF CheckLocal, Goto
  <1>4c. CASE SubmoduleLost(p)
    BY <1>4c DEF SubmoduleLost, Goto
  <1>4. CASE Reuse(p)
    BY <1>4 DEF Reuse, Ends, Goto
  <1>5. CASE CloneFresh(p)
    BY <1>5 DEF CloneFresh, Goto
  <1>6. CASE CloneFails(p)
    BY <1>6 DEF CloneFails, Blocked, Ends, Goto
  <1>7. CASE PresentAlready(p)
    BY <1>7 DEF PresentAlready, Ends, Goto
  <1>8. CASE RemovalBlocker(p)
    BY <1>8 DEF RemovalBlocker, Blocked, Ends, Goto
  <1>9. CASE RemoveTree(p)
    BY <1>9 DEF RemoveTree, Blocked, Ends, Goto
  <1>10. CASE RemoveRest(p)
    BY <1>10 DEF RemoveRest, Blocked, Ends, Goto
  <1>11. CASE RemoveMarker(p)
    BY <1>11 DEF RemoveMarker, Goto
  <1>12. CASE DestinationFree(p)
    BY <1>12 DEF DestinationFree, Blocked, Ends, Goto
  <1>13. CASE TakeGuard(p)
    BY <1>13 DEF TakeGuard, Blocked, Ends, Goto
  <1>14. CASE MarkFinal(p)
    BY <1>14 DEF MarkFinal, Goto
  <1>15. CASE Rename(p)
    BY <1>15 DEF Rename, Goto
  <1>16. CASE ReleaseGuard(p)
    BY <1>16 DEF ReleaseGuard, Ends, Goto
  <1>17. CASE Cleanup(p)
    BY <1>17 DEF Cleanup, Goto
  <1>18. CASE Save(p)
    BY <1>18 DEF Save, Goto
  <1>19. CASE Restart(p)
    BY <1>19 DEF Restart, Ends, Goto
  <1>20. CASE Kill(p)
    BY <1>20 DEF Kill, Ends, Goto
  <1> QED
    BY <1>1, <1>2, <1>3, <1>4, <1>4a, <1>4b, <1>4c, <1>5, <1>6, <1>7, <1>8,
       <1>9, <1>10, <1>11, <1>12, <1>13, <1>14, <1>15, <1>16, <1>17, <1>18, <1>19, <1>20
       DEF Step

LEMMA MarkerPassageStep ==
  ASSUME OwnType, TreeType, NEW p \in Procs, Step(p) \/ Restart(p) \/ Kill(p)
  PROVE  MarkerPassage(p)
  <1> USE DEF OwnType, MarkerPassage, Guarded, shared, own
  <1>1. CASE ReadPrevious(p)
    BY <1>1 DEF ReadPrevious, Goto
  <1>2. CASE Acquire(p)
    BY <1>2 DEF Acquire, Goto
  <1>3. CASE LockTimeout(p)
    BY <1>3 DEF LockTimeout, Ends, Goto
  <1>4a. CASE LsRemote(p)
    BY <1>4a DEF LsRemote, Goto
  <1>4b. CASE CheckLocal(p)
    BY <1>4b DEF CheckLocal, Goto
  <1>4c. CASE SubmoduleLost(p)
    BY <1>4c DEF SubmoduleLost, Goto
  <1>4. CASE Reuse(p)
    BY <1>4 DEF Reuse, Ends, Goto
  <1>5. CASE CloneFresh(p)
    BY <1>5 DEF CloneFresh, Goto
  <1>6. CASE CloneFails(p)
    BY <1>6 DEF CloneFails, Blocked, Ends, Goto
  <1>7. CASE PresentAlready(p)
    BY <1>7 DEF PresentAlready, Ends, Goto
  <1>8. CASE RemovalBlocker(p)
    BY <1>8 DEF RemovalBlocker, Blocked, Ends, Goto
  <1>9. CASE RemoveTree(p)
    BY <1>9 DEF RemoveTree, Blocked, Ends, Goto
  <1>10. CASE RemoveRest(p)
    BY <1>10 DEF RemoveRest, Blocked, Ends, Goto
  <1>11. CASE RemoveMarker(p)
    BY <1>11 DEF RemoveMarker, Goto
  <1>12. CASE DestinationFree(p)
    BY <1>12 DEF DestinationFree, Blocked, Ends, Goto
  <1>13. CASE TakeGuard(p)
    BY <1>13 DEF TakeGuard, Blocked, Ends, Goto
  <1>14. CASE MarkFinal(p)
    BY <1>14 DEF MarkFinal, Goto
  <1>15. CASE Rename(p)
    BY <1>15 DEF Rename, Goto
  <1>16. CASE ReleaseGuard(p)
    BY <1>16 DEF ReleaseGuard, Ends, Goto
  <1>17. CASE Cleanup(p)
    BY <1>17 DEF Cleanup, Goto
  <1>18. CASE Save(p)
    BY <1>18 DEF Save, Goto
  <1>19. CASE Restart(p)
    BY <1>19 DEF Restart, Ends, Goto
  <1>20. CASE Kill(p)
    BY <1>20 DEF Kill, Ends, Goto
  <1> QED
    BY <1>1, <1>2, <1>3, <1>4, <1>4a, <1>4b, <1>4c, <1>5, <1>6, <1>7, <1>8,
       <1>9, <1>10, <1>11, <1>12, <1>13, <1>14, <1>15, <1>16, <1>17, <1>18, <1>19, <1>20
       DEF Step

LEMMA TreePassageStep ==
  ASSUME OwnType, TreeType, NEW p \in Procs, Step(p) \/ Restart(p) \/ Kill(p)
  PROVE  TreePassage(p)
  <1> USE DEF OwnType, TreePassage, shared, own
  <1>1. CASE ReadPrevious(p)
    BY <1>1 DEF ReadPrevious, Goto
  <1>2. CASE Acquire(p)
    BY <1>2 DEF Acquire, Goto
  <1>3. CASE LockTimeout(p)
    BY <1>3 DEF LockTimeout, Ends, Goto
  <1>4a. CASE LsRemote(p)
    BY <1>4a DEF LsRemote, Goto
  <1>4b. CASE CheckLocal(p)
    BY <1>4b DEF CheckLocal, Goto
  <1>4c. CASE SubmoduleLost(p)
    BY <1>4c DEF SubmoduleLost, Goto
  <1>4. CASE Reuse(p)
    BY <1>4 DEF Reuse, Ends, Goto
  <1>5. CASE CloneFresh(p)
    BY <1>5 DEF CloneFresh, Goto
  <1>6. CASE CloneFails(p)
    BY <1>6 DEF CloneFails, Blocked, Ends, Goto
  <1>7. CASE PresentAlready(p)
    BY <1>7 DEF PresentAlready, Ends, Goto
  <1>8. CASE RemovalBlocker(p)
    BY <1>8 DEF RemovalBlocker, Blocked, Ends, Goto
  <1>9. CASE RemoveTree(p)
    <2>1. CASE tree # NONE /\ marker # NONE
      <3>1. \E t \in Tears : tree' = [tree EXCEPT !.torn = t]
        BY <1>9, <2>1 DEF RemoveTree, Tears
      <3>2. tree'.commit = tree.commit
        BY <2>1, <3>1 DEF TreeType
      <3> QED
        BY <2>1, <3>2
    <2>2. CASE ~(tree # NONE /\ marker # NONE)
      <3>1. tree' = tree
        BY <1>9, <2>2 DEF RemoveTree
      <3> QED
        BY <3>1
    <2> QED
      BY <2>1, <2>2
  <1>10. CASE RemoveRest(p)
    BY <1>10 DEF RemoveRest, Blocked, Ends, Goto
  <1>11. CASE RemoveMarker(p)
    BY <1>11 DEF RemoveMarker, Goto
  <1>12. CASE DestinationFree(p)
    BY <1>12 DEF DestinationFree, Blocked, Ends, Goto
  <1>13. CASE TakeGuard(p)
    BY <1>13 DEF TakeGuard, Blocked, Ends, Goto
  <1>14. CASE MarkFinal(p)
    BY <1>14 DEF MarkFinal, Goto
  <1>15. CASE Rename(p)
    BY <1>15 DEF Rename, Goto
  <1>16. CASE ReleaseGuard(p)
    BY <1>16 DEF ReleaseGuard, Ends, Goto
  <1>17. CASE Cleanup(p)
    BY <1>17 DEF Cleanup, Goto
  <1>18. CASE Save(p)
    BY <1>18 DEF Save, Goto
  <1>19. CASE Restart(p)
    BY <1>19 DEF Restart, Ends, Goto
  <1>20. CASE Kill(p)
    BY <1>20 DEF Kill, Ends, Goto
  <1> QED
    BY <1>1, <1>2, <1>3, <1>4, <1>4a, <1>4b, <1>4c, <1>5, <1>6, <1>7, <1>8,
       <1>9, <1>10, <1>11, <1>12, <1>13, <1>14, <1>15, <1>16, <1>17, <1>18, <1>19, <1>20
       DEF Step

LEMMA PassageInv ==
  ASSUME GInv, NEW p \in Procs, Frame(p), Passage(p)
  PROVE  GuardInv' /\ MarkerTellsCommit'
  <1>0. OwnType /\ GuardInv /\ MarkerTellsCommit /\ StagedInv
    BY TypeParts DEF GInv, TInv
  <1>1. \A q \in Procs \ {p} : /\ pc'[q] = pc[q] /\ Id(q)' = Id(q)
                               /\ pc[q] \in Guarded => publock = TRUE
    BY <1>0 DEF Frame, Id, GuardInv
  <1>2. ASSUME NEW q \in Procs \ {p}, pc[q] \in Guarded
        PROVE  publock' = TRUE /\ pc'[p] \notin Guarded
    <2>1. pc[p] \notin Guarded /\ publock = TRUE
      BY <1>0, <1>2 DEF GuardInv
    <2> QED
      BY <2>1 DEF Passage, GuardPassage
  <1>3. ASSUME NEW q \in Procs \ {p}, pc[q] = "rename"
        PROVE  marker' \in {Id(q), NONE}
    <2>1. pc[p] # "mark" /\ marker \in {Id(q), NONE}
      BY <1>0, <1>3 DEF GuardInv, Guarded
    <2> QED
      BY <2>1 DEF Passage, MarkerPassage
  <1>4. GuardInv'
    <2>1. ASSUME NEW q \in Procs \ {p}, pc'[q] \in Guarded
          PROVE  /\ publock' = TRUE /\ pc'[p] \notin Guarded
                 /\ \A o \in Procs \ {q} : pc'[o] \notin Guarded
                 /\ pc'[q] = "rename" => marker' \in {Id(q)', NONE}
      <3>1. pc[q] \in Guarded /\ publock' = TRUE /\ pc'[p] \notin Guarded
        BY <1>1, <1>2, <2>1
      <3>2. \A o \in Procs \ {q} : o # p => pc'[o] \notin Guarded
        BY <1>0, <1>1, <3>1 DEF GuardInv
      <3>3. pc'[q] = "rename" => marker' \in {Id(q)', NONE}
        BY <1>1, <1>3
      <3> QED
        BY <3>1, <3>2, <3>3
    <2>2. ASSUME pc'[p] \in Guarded
          PROVE  /\ publock' = TRUE
                 /\ \A o \in Procs \ {p} : pc'[o] \notin Guarded
                 /\ pc'[p] = "rename" => marker' \in {Id(p)', NONE}
      <3>1. publock' = TRUE
        BY <1>0, <2>2 DEF Passage, GuardPassage, GuardInv
      <3>2. \A o \in Procs \ {p} : pc'[o] \notin Guarded
        BY <1>1, <1>2, <2>2
      <3>3. pc'[p] = "rename" => marker' = Id(p) /\ Id(p)' = Id(p)
        BY <2>2 DEF Passage, MarkerPassage, Id
      <3> QED
        BY <3>1, <3>2, <3>3
    <2> QED
      BY <2>1, <2>2 DEF GuardInv
  <1>5. MarkerTellsCommit'
    <2> SUFFICES ASSUME tree' # NONE, marker' # NONE
                 PROVE  marker'.commit = tree'.commit
      BY DEF MarkerTellsCommit
    <2>1. CASE pc[p] = "rename" /\ tree' = Whole(staging[p]) /\ marker' = marker
      <3>1. marker = Id(p) /\ staging[p] = head[p]
        BY <1>0, <2>1 DEF GuardInv, Guarded, StagedInv
      <3>2. Id(p).commit = head[p] /\ Whole(head[p]).commit = head[p]
        BY <1>0, IdFacts DEF OwnType
      <3> QED
        BY <2>1, <3>1, <3>2
    <2>2. CASE tree' \in {tree, NONE} \/ (tree'.commit = tree.commit /\ tree # NONE)
      <3>1. tree # NONE /\ tree'.commit = tree.commit
        BY <2>2
      <3>2. marker' = marker
        BY <3>1 DEF Passage, MarkerPassage
      <3> QED
        BY <1>0, <3>1, <3>2 DEF MarkerTellsCommit
    <2> QED
      BY <2>1, <2>2 DEF Passage, TreePassage
  <1> QED
    BY <1>4, <1>5

(***************************************************************************)
(* Whatever refs the preparers ask for, and wherever they are killed, a    *)
(* marker never speaks for a tree of another commit, and the guard of the  *)
(* rename has an owner unless one was killed.  What is lost with several   *)
(* refs is that a tree has a marker, and that nobody removes a checkout    *)
(* that was just reported (atomic_publish_dir).                            *)
(***************************************************************************)
THEOREM MarkerTheorem == Spec => [](MarkerTellsCommit /\ GuardHasOwner)
  <1>1. Init => GInv
    BY TypeInit DEF Init, GInv, GuardInv, Guarded, MarkerTellsCommit, GuardHasOwner
  <1>2. ASSUME GInv, [Next]_vars
        PROVE  GInv'
    <2>1. TInv'
      BY <1>2, TypeStep DEF GInv
    <2>2. ASSUME NEW p \in Procs, Step(p) \/ Restart(p) \/ Kill(p)
          PROVE  GInv'
      <3>1. Frame(p) /\ Passage(p)
        BY <1>2, <2>2, FrameStep, GuardPassageStep, MarkerPassageStep, TreePassageStep, TypeParts
           DEF GInv, TInv, Passage
      <3>2. GuardInv' /\ MarkerTellsCommit'
        BY <1>2, <3>1, PassageInv
      <3>3. GuardHasOwner'
        BY <1>2, <2>2, GuardStep DEF GInv, TInv
      <3> QED
        BY <2>1, <3>2, <3>3 DEF GInv
    <2>3. CASE UNCHANGED <<tree, marker, publock, pc, head, kills>>
      BY <1>2, <2>1, <2>3 DEF GInv, GuardInv, Id, MarkerTellsCommit, GuardHasOwner
    <2>4. ASSUME NEW r \in Refs, NEW c \in Commits, RemoteMoves(r, c)
          PROVE  GInv'
      BY <2>3, <2>4 DEF RemoteMoves, own
    <2>5. CASE UNCHANGED vars
      BY <2>3, <2>5 DEF vars
    <2> QED
      BY <1>2, <2>2, <2>4, <2>5 DEF Next
  <1>3. GInv => MarkerTellsCommit /\ GuardHasOwner
    BY DEF GInv
  <1> QED
    BY <1>1, <1>2, <1>3, PTL DEF Spec

-----------------------------------------------------------------------------
(***************************************************************************)
(* The shared ModSecurity build, which the same preparers make: BuildCache, *)
(* with the preparers, their steps and results, the counters and the lock   *)
(* of this module.  The other variables are declared here.  Nothing is      *)
(* assumed of the lost markers or of the bounds.                            *)
(***************************************************************************)
CONSTANT Lost
VARIABLES mark, manifest, guard, at, staged

Shared == INSTANCE BuildCache

\* The steps of build_shared_modsecurity_cache under the build lock.
Locked == {"ready", "remove", "removed", "unmark", "stage", "exists", "guard", "mark",
           "rename", "unguard", "publish", "raise", "unlock"}
Removing == {"remove", "removed", "unmark"}
Publishing == {"exists", "guard", "mark", "rename", "unguard"}

\* The lock excludes: the handler that writes the manifest has left it.
LockHeld == \A p \in Procs : pc[p] \in Locked => lock = p

\* No manifest without a build root: removal of the root takes it along.
ManifestHasRoot == manifest # "none" => tree["build"] # "none"

\* A half removed prefix is never spoken for by both its marker and the
\* manifest.  The one whose marker is lost goes first, the other after the
\* build root and with it the manifest.
TornUnspoken == tree["prefix"] = "torn" => mark["prefix"] = "none" \/ manifest # "complete"

\* What the holder of the lock has removed, or put in place.
BuildPlace(p) ==
  /\ pc[p] \in Removing /\ at[p] = "prefix" => manifest # "complete"
  /\ pc[p] \in Removing /\ at[p] = "orphan" => mark["prefix"] = "none"
  /\ pc[p] = "unmark" /\ at[p] = "build" => manifest # "complete"
  /\ pc[p] \in Publishing => at[p] # "orphan"
  /\ pc[p] \in Publishing /\ at[p] = "build" => tree["prefix"] = "whole"
  /\ pc[p] \in {"unguard", "publish"} => tree["prefix"] = "whole"
  /\ pc[p] = "unlock" /\ result[p] \in {"reused", "built"} => tree["prefix"] = "whole"

BInv ==
  /\ Shared!TypeOK /\ LockHeld /\ ManifestHasRoot /\ TornUnspoken
  /\ \A p \in Procs : BuildPlace(p)

\* The types are kept.  Only the guard needs more: no guard is taken for an
\* orphan, which is not published.
LEMMA BuildTypeStep ==
  ASSUME NEW p \in Procs, Shared!TypeOK, BuildPlace(p),
         Shared!Step(p) \/ Shared!Restart(p) \/ Shared!Kill(p)
  PROVE  Shared!TypeOK'
  <1> USE SourceConstants DEF SourceConstants, Shared!TypeOK, Shared!Steps, Shared!Entries
  <1>1. CASE Shared!CheckRoot(p)
    BY <1>1 DEF Shared!CheckRoot, Shared!Goto, Shared!Record, Shared!entries, Shared!own
  <1>2. CASE Shared!ClearRoot(p)
    BY <1>2 DEF Shared!ClearRoot, Shared!Goto, Shared!Record, Shared!Unowned
  <1>3. CASE Shared!ClearedRoot(p)
    BY <1>3 DEF Shared!ClearedRoot, Shared!Goto, Shared!own
  <1>4. CASE Shared!ClaimRoot(p)
    BY <1>4 DEF Shared!ClaimRoot, Shared!Goto, Shared!Record, Shared!entries, Shared!own
  <1>5. CASE Shared!OpenMarker(p)
    BY <1>5 DEF Shared!OpenMarker, Shared!Goto, Shared!own
  <1>6. CASE Shared!SourceReady(p)
    BY <1>6 DEF Shared!SourceReady, Shared!Goto, Shared!own, Shared!entries
  <1>7. CASE Shared!SourceMissing(p)
    BY <1>7 DEF Shared!SourceMissing, Shared!Goto, Shared!Record, Shared!Fails,
      Shared!WriteManifest
  <1>8. CASE Shared!Acquire(p)
    BY <1>8 DEF Shared!Acquire, Shared!Goto, Shared!own, Shared!entries
  <1>9. CASE Shared!LockTimeout(p)
    BY <1>9 DEF Shared!LockTimeout, Shared!Goto, Shared!Record, Shared!Fails,
      Shared!WriteManifest
  <1>10. CASE Shared!CacheHit(p)
    BY <1>10 DEF Shared!CacheHit, Shared!Goto, Shared!Record, Shared!Ready,
      Shared!entries, Shared!own
  <1>11. CASE Shared!MissingDependency(p)
    BY <1>11 DEF Shared!MissingDependency, Shared!Goto, Shared!Record, Shared!Fails,
      Shared!WriteManifest, Shared!Ready
  <1>12. CASE Shared!Discard(p)
    BY <1>12 DEF Shared!Discard, Shared!Goto, Shared!Record, Shared!Unowned,
      Shared!Ready, Shared!entries, Shared!own
  <1>13. CASE Shared!RemoveTree(p)
    BY <1>13 DEF Shared!RemoveTree, Shared!Goto, Shared!Unowned, Shared!Entry,
      Shared!Removed
  <1>14. CASE Shared!RemoveRest(p)
    BY <1>14 DEF Shared!RemoveRest, Shared!Goto, Shared!Entry, Shared!own
  <1>15. CASE Shared!RemoveMarker(p)
    BY <1>15 DEF Shared!RemoveMarker, Shared!Entry, Shared!Removed, Shared!Goto
  <1>16. CASE Shared!Build(p)
    BY <1>16 DEF Shared!Build, Shared!Goto, Shared!Record, Shared!Fails, Shared!entries,
      Shared!own
  <1>17. CASE Shared!DestinationFree(p)
    BY <1>17 DEF Shared!DestinationFree, Shared!Goto, Shared!own, Shared!entries
  <1>18. CASE Shared!TakeGuard(p)
    <2>1. at[p] \in Shared!Entries
      BY <1>18 DEF Shared!TakeGuard, BuildPlace, Publishing
    <2>2. guard' \in {guard, guard \cup {at[p]}, guard \ {at[p]}}
      BY <1>18 DEF Shared!TakeGuard
    <2>3. guard' \subseteq Shared!Entries
      BY <2>1, <2>2
    <2> QED BY <1>18, <2>1, <2>3 DEF Shared!TakeGuard, Shared!Goto, Shared!own,
        Shared!entries
  <1>19. CASE Shared!MarkFinal(p)
    <2>1. at[p] \in Shared!Entries
      BY <1>19 DEF Shared!MarkFinal, BuildPlace, Publishing
    <2>2. guard' \in {guard, guard \cup {at[p]}, guard \ {at[p]}}
      BY <1>19 DEF Shared!MarkFinal
    <2>3. guard' \subseteq Shared!Entries
      BY <2>1, <2>2
    <2> QED BY <1>19, <2>1, <2>3 DEF Shared!MarkFinal, Shared!Goto, Shared!own
  <1>20. CASE Shared!Rename(p)
    <2>1. at[p] \in Shared!Entries
      BY <1>20 DEF Shared!Rename, BuildPlace, Publishing
    <2>2. guard' \in {guard, guard \cup {at[p]}, guard \ {at[p]}}
      BY <1>20 DEF Shared!Rename
    <2>3. guard' \subseteq Shared!Entries
      BY <2>1, <2>2
    <2> QED BY <1>20, <2>1, <2>3 DEF Shared!Rename, Shared!Goto
  <1>21. CASE Shared!ReleaseGuard(p)
    BY <1>21 DEF Shared!ReleaseGuard, Shared!Goto, Shared!Record, Shared!entries,
      Shared!own
  <1>22. CASE Shared!FinalManifest(p)
    BY <1>22 DEF Shared!FinalManifest, Shared!Goto, Shared!WriteManifest, Shared!own
  <1>23. CASE Shared!Raise(p)
    BY <1>23 DEF Shared!Raise, Shared!Goto, Shared!Record, Shared!entries, Shared!own
  <1>24. CASE Shared!Report(p)
    BY <1>24 DEF Shared!Report, Shared!Goto, Shared!WriteManifest
  <1>25. CASE Shared!Unlock(p)
    BY <1>25 DEF Shared!Unlock, Shared!Goto, Shared!entries, Shared!own
  <1>26. CASE Shared!Restart(p)
    BY <1>26 DEF Shared!Restart, Shared!Goto, Shared!Record, Shared!entries, Shared!own
  <1>27. CASE Shared!Kill(p)
    BY <1>27 DEF Shared!Kill, Shared!Goto, Shared!Record, Shared!entries, Shared!own
  <1> QED BY <1>1, <1>2, <1>3, <1>4, <1>5, <1>6, <1>7, <1>8, <1>9, <1>10, <1>11, <1>12,
    <1>13, <1>14, <1>15, <1>16, <1>17, <1>18, <1>19, <1>20, <1>21, <1>22, <1>23, <1>24,
    <1>25, <1>26, <1>27
    DEF Shared!Step

\* Every step keeps the rest of the invariant: q is any preparer, p the one
\* that moves.
LEMMA BuildInvStep ==
  ASSUME BInv, NEW p \in Procs, NEW q \in Procs,
         Shared!Step(p) \/ Shared!Restart(p) \/ Shared!Kill(p)
  PROVE  /\ pc'[q] \in Locked => lock' = q
         /\ ManifestHasRoot' /\ TornUnspoken' /\ BuildPlace(q)'
  <1>0. Shared!TypeOK /\ LockHeld /\ ManifestHasRoot /\ TornUnspoken /\ BuildPlace(p) /\ BuildPlace(q)
    BY DEF BInv
  <1> USE <1>0, SourceConstants
      DEF SourceConstants, LockHeld, Locked, Removing, Publishing, ManifestHasRoot, TornUnspoken,
          BuildPlace, Shared!TypeOK, Shared!Entries
  <1>1. CASE Shared!CheckRoot(p)
    BY <1>1 DEF Shared!CheckRoot, Shared!Goto, Shared!Record, Shared!entries, Shared!own
  <1>2. CASE Shared!ClearRoot(p)
    BY <1>2 DEF Shared!ClearRoot, Shared!Goto, Shared!Record, Shared!Unowned
  <1>3. CASE Shared!ClearedRoot(p)
    BY <1>3 DEF Shared!ClearedRoot, Shared!Goto, Shared!own
  <1>4. CASE Shared!ClaimRoot(p)
    BY <1>4 DEF Shared!ClaimRoot, Shared!Goto, Shared!Record, Shared!entries, Shared!own
  <1>5. CASE Shared!OpenMarker(p)
    BY <1>5 DEF Shared!OpenMarker, Shared!Goto, Shared!own
  <1>6. CASE Shared!SourceReady(p)
    BY <1>6 DEF Shared!SourceReady, Shared!Goto, Shared!own, Shared!entries
  <1>7. CASE Shared!SourceMissing(p)
    BY <1>7 DEF Shared!SourceMissing, Shared!Goto, Shared!Record, Shared!Fails,
      Shared!WriteManifest
  <1>8. CASE Shared!Acquire(p)
    BY <1>8 DEF Shared!Acquire, Shared!Goto, Shared!own, Shared!entries
  <1>9. CASE Shared!LockTimeout(p)
    BY <1>9 DEF Shared!LockTimeout, Shared!Goto, Shared!Record, Shared!Fails,
      Shared!WriteManifest
  <1>10. CASE Shared!CacheHit(p)
    BY <1>10 DEF Shared!CacheHit, Shared!Goto, Shared!Record, Shared!Ready,
      Shared!entries, Shared!own
  <1>11. CASE Shared!MissingDependency(p)
    BY <1>11 DEF Shared!MissingDependency, Shared!Goto, Shared!Record, Shared!Fails,
      Shared!WriteManifest, Shared!Ready
  <1>12. CASE Shared!Discard(p)
    BY <1>12 DEF Shared!Discard, Shared!Goto, Shared!Record, Shared!Unowned,
      Shared!Ready, Shared!entries, Shared!own
  <1>13. CASE Shared!RemoveTree(p)
    BY <1>13 DEF Shared!RemoveTree, Shared!Goto, Shared!Unowned, Shared!Entry,
      Shared!Removed
  <1>14. CASE Shared!RemoveRest(p)
    BY <1>14 DEF Shared!RemoveRest, Shared!Goto, Shared!Entry, Shared!own
  <1>15. CASE Shared!RemoveMarker(p)
    BY <1>15 DEF Shared!RemoveMarker, Shared!Entry, Shared!Removed, Shared!Goto
  <1>16. CASE Shared!Build(p)
    BY <1>16 DEF Shared!Build, Shared!Goto, Shared!Record, Shared!Fails, Shared!entries,
      Shared!own
  <1>17. CASE Shared!DestinationFree(p)
    BY <1>17 DEF Shared!DestinationFree, Shared!Goto, Shared!own, Shared!entries
  <1>18. CASE Shared!TakeGuard(p)
    BY <1>18 DEF Shared!TakeGuard, Shared!Goto, Shared!own, Shared!entries
  <1>19. CASE Shared!MarkFinal(p)
    BY <1>19 DEF Shared!MarkFinal, Shared!Goto, Shared!own
  <1>20. CASE Shared!Rename(p)
    BY <1>20 DEF Shared!Rename, Shared!Goto
  <1>21. CASE Shared!ReleaseGuard(p)
    BY <1>21 DEF Shared!ReleaseGuard, Shared!Goto, Shared!Record, Shared!entries,
      Shared!own
  <1>22. CASE Shared!FinalManifest(p)
    BY <1>22 DEF Shared!FinalManifest, Shared!Goto, Shared!WriteManifest, Shared!own
  <1>23. CASE Shared!Raise(p)
    BY <1>23 DEF Shared!Raise, Shared!Goto, Shared!Record, Shared!entries, Shared!own
  <1>24. CASE Shared!Report(p)
    BY <1>24 DEF Shared!Report, Shared!Goto, Shared!WriteManifest
  <1>25. CASE Shared!Unlock(p)
    BY <1>25 DEF Shared!Unlock, Shared!Goto, Shared!entries, Shared!own
  <1>26. CASE Shared!Restart(p)
    BY <1>26 DEF Shared!Restart, Shared!Goto, Shared!Record, Shared!entries, Shared!own
  <1>27. CASE Shared!Kill(p)
    BY <1>27 DEF Shared!Kill, Shared!Goto, Shared!Record, Shared!entries, Shared!own
  <1> QED BY <1>1, <1>2, <1>3, <1>4, <1>5, <1>6, <1>7, <1>8, <1>9, <1>10, <1>11, <1>12,
    <1>13, <1>14, <1>15, <1>16, <1>17, <1>18, <1>19, <1>20, <1>21, <1>22, <1>23, <1>24,
    <1>25, <1>26, <1>27
    DEF Shared!Step

\* Initially the cache is empty or holds a whole pair, and nobody is inside.
LEMMA BuildInit == Shared!Init => BInv
  BY SourceConstants
  DEF SourceConstants, Shared!Init, BInv, Shared!TypeOK, Shared!Steps, Shared!Entries, LockHeld,
      Locked, Removing, Publishing, ManifestHasRoot, TornUnspoken, BuildPlace

LEMMA BuildStep == BInv /\ [Shared!Next]_(Shared!vars) => BInv'
  <1> SUFFICES ASSUME BInv, [Shared!Next]_(Shared!vars) PROVE BInv'
    OBVIOUS
  <1>1. CASE Shared!Next
    <2>1. PICK p \in Procs : Shared!Step(p) \/ Shared!Restart(p) \/ Shared!Kill(p)
      BY <1>1 DEF Shared!Next
    <2>2. Shared!TypeOK'
      BY <2>1, BuildTypeStep DEF BInv
    <2>3. \A q \in Procs : /\ pc'[q] \in Locked => lock' = q
                           /\ ManifestHasRoot' /\ TornUnspoken' /\ BuildPlace(q)'
      BY <2>1, BuildInvStep
    <2> QED BY <2>1, <2>2, <2>3 DEF BInv, LockHeld
  <1>2. CASE UNCHANGED Shared!vars
    BY <1>2 DEF BInv, Shared!vars, Shared!TypeOK, LockHeld, ManifestHasRoot, TornUnspoken, BuildPlace
  <1> QED BY <1>1, <1>2

\* Whatever peers write without the lock, and wherever a preparer fails or is
\* killed, the prefix that build_shared_modsecurity_cache hands on as reused or
\* as built is whole when the preparer leaves the lock.
THEOREM BuildTheorem == Shared!Spec => []Shared!BuildSound
  <1>1. BInv => Shared!BuildSound
    BY DEF BInv, BuildPlace, Shared!BuildSound, Shared!ServedPrefixWhole
  <1> QED BY <1>1, BuildInit, BuildStep, PTL DEF Shared!Spec
=============================================================================
