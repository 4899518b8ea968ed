------------------------ MODULE MaintenanceApplyProofs ------------------------
(***************************************************************************)
(* Proofs about MaintenanceApply, for every set of pins and files, every   *)
(* order and dependency of the generated files, both allowlists, and any   *)
(* number of runs, failures and commits by others.                         *)
(***************************************************************************)
EXTENDS MaintenanceApply, WellFoundedInduction, TLAPS

-----------------------------------------------------------------------------
(***************************************************************************)
(* The inductive invariant.  That a rollback restores follows from what    *)
(* the snapshot has; that what is published is whole depends on the two    *)
(* jobs making the same files out of the same commit, so a derivation, the *)
(* sequence of worktrees from common.sh to the last view, is carried from  *)
(* the validation of the candidate into the job that publishes.            *)
(***************************************************************************)

Applied == {"applied", "create", "published"}
Complete == Applied \cup {"diff"}
Transaction == {"write", "sync", "diff", "rollback", "restore"}

\* A plan that is being applied has no blocked component.
PlanInv == pc \notin {"idle", "failed", "dirty", "rejected"} =>
  /\ plan.source \subseteq Pins /\ plan.update \subseteq Pins
  /\ \A c \in Pins : plan.status[c] # "blocked"

\* A commit of the default branch has one content.
ClockInv == on <= tip /\ (on = tip => head = base)

\* What the steps of the transaction have done to the worktree.
TreeInv ==
  /\ pc \in {"begin", "write", "failed"} => tree = head
  /\ pc \in {"begin", "write"} => at = 1 /\ blocked = FALSE
  /\ pc \in Transaction => snap = [p \in Allowed |-> head[p]]
  /\ pc = "write" => tree[Common] = plan.source
  /\ pc \in {"sync"} \cup Complete => tree[Common] = plan.source \cup plan.update
  /\ pc \in Complete => Current(tree)
  /\ pc \in Applied => Changed \subseteq Allowed
  /\ pc = "restore" => /\ todo \subseteq Allowed
                       /\ \A p \in Paths \ todo : tree[p] = head[p]

\* An open PR has a branch.
BranchInv == pr => branch \in [on : Nat, tree : Trees]

Traces == [0 .. Len(Order) -> Trees]

\* The first n generated files are derived from the checkout h and the pins u.
Derived(S, h, u, n) ==
  /\ S[0] = [h EXCEPT ![Common] = @ \cup u]
  /\ \A i \in 1 .. n : S[i] = [S[i - 1] EXCEPT ![Order[i]] = Rendered(S[i - 1], Order[i])]

\* A derivation that changes no other path than the published ones.
Publishable(S, h, u) ==
  Derived(S, h, u, Len(Order)) /\ {p \in Paths : S[Len(Order)][p] # h[p]} \subseteq Published

\* Where the worktree is in a derivation.
Follows(S) ==
  /\ pc = "sync" /\ ~blocked => tree = S[at - 1]
  /\ pc \in Complete => tree = S[Len(Order)]

CandidateInv == job = "candidate" =>
  /\ pc \notin {"create", "published"}
  /\ pc = "sync" /\ ~blocked =>
       \E S \in Traces : Derived(S, head, plan.update, at - 1) /\ Follows(S)
  /\ pc \in Complete =>
       \E S \in Traces : Derived(S, head, plan.update, Len(Order)) /\ Follows(S)

PublishInv == job = "publish" =>
  /\ pc = "ready" => /\ validated = on
                     /\ \E S \in Traces : Publishable(S, head, plan.update)
  /\ pc \in {"begin", "write", "sync"} \cup Complete /\ on = validated =>
       \E S \in Traces : Publishable(S, head, plan.update) /\ Follows(S)
  /\ pc = "published" /\ branch # NONE /\ on = validated => branch.tree = tree

AInv ==
  /\ TypeOK /\ PlanInv /\ ClockInv /\ TreeInv /\ BranchInv /\ CandidateInv /\ PublishInv

-----------------------------------------------------------------------------
(* Operators *)

Statuses == [Pins -> {"current", "outdated", "manual", "blocked"}]

LEMMA OrderFacts ==
  /\ Len(Order) \in Nat /\ Common \in Paths
  /\ \A i \in 1 .. Len(Order) : Order[i] \in Paths /\ Order[i] # Common
  /\ \A p \in Files : p \in Paths /\ p # Common
  BY MaintenanceConstants DEF Files

LEMMA RenderedType ==
  ASSUME NEW t \in Trees, NEW p \in Paths \ {Common}
  PROVE  Rendered(t, p) \in SUBSET Pins
  <1>1. Shows[p] \subseteq Pins /\ Reads[p] \subseteq Paths
    BY MaintenanceConstants
  <1>2. \A q \in Reads[p] : t[q] \subseteq Pins
    BY <1>1 DEF Trees
  <1> QED
    BY <1>1, <1>2 DEF Rendered

\* A plan is safe only if nothing that was looked up is blocked.
LEMMA SafeOutcome ==
  ASSUME NEW found, NEW update, Outcome(found, update) \in Safe
  PROVE  "blocked" \notin found
  BY DEF Outcome, Safe

LEMMA Least ==
  ASSUME NEW T \in SUBSET Nat, T # {}
  PROVE  \E n \in T : \A m \in T : n <= m
  <1> DEFINE R == OpToRel(<, Nat)
  <1>1. IsWellFoundedOn(R, Nat)
    BY NatLessThanWellFounded
  <1>2. \A x, y \in Nat : x < y => <<x, y>> \in R
    BY DEF OpToRel
  <1> HIDE DEF R
  <1>3. PICK n \in T : \A y \in T : ~ (<<y, n>> \in R)
    BY <1>1, WFMin
  <1>4. \A m \in T : ~(m < n)
    BY <1>2, <1>3
  <1>5. \A m \in T : n <= m
    BY <1>4
  <1> QED
    BY <1>5

\* There is a next generator, or the end of the order.
LEMMA NextType ==
  ASSUME at \in 1 .. Len(Order)
  PROVE  NextGenerator \in 1 .. Len(Order) + 1
  <1> DEFINE End(i) == i = Len(Order) + 1 \/ Generator[Order[i]] # Generator[Order[at]]
             T == {i \in at .. Len(Order) + 1 : End(i)}
  <1>0. Len(Order) \in Nat /\ at \in Nat
    BY OrderFacts
  <1>1. Len(Order) + 1 \in at .. Len(Order) + 1 /\ End(Len(Order) + 1)
    BY <1>0
  <1>2. T \in SUBSET Nat /\ T # {}
    <2>1. at .. Len(Order) + 1 \subseteq Nat
      BY <1>0
    <2> QED
      BY <1>1, <2>1
  <1>3. PICK n \in T : \A m \in T : n <= m
    <2> HIDE DEF T
    <2> QED
      BY <1>2, Least
  <1>4. n \in at .. Len(Order) + 1 /\ End(n)
    BY <1>3
  <1>5. \A j \in at .. n - 1 : Generator[Order[j]] = Generator[Order[at]]
    <2> SUFFICES ASSUME NEW j \in at .. n - 1
                 PROVE  Generator[Order[j]] = Generator[Order[at]]
      OBVIOUS
    <2>1. j \in at .. Len(Order) + 1 /\ ~(n <= j)
      BY <1>0, <1>4
    <2>2. j \notin T
      BY <1>3, <2>1
    <2> QED
      BY <2>1, <2>2
  <1>6. NextGenerator \in at .. Len(Order) + 1
    BY <1>4, <1>5 DEF NextGenerator
  <1> QED
    BY <1>0, <1>6

-----------------------------------------------------------------------------
(* Types *)

TreesType == base \in Trees /\ head \in Trees /\ tree \in Trees
RemoteType ==
  /\ tip \in Nat /\ pr \in BOOLEAN
  /\ branch = NONE \/ branch \in [on : Nat, tree : Trees]
JobType ==
  /\ on \in Nat /\ job \in {"candidate", "publish"} /\ validated \in Nat \cup {NONE}
  /\ pc \in Ended \cup {"ready", "begin", "write", "sync", "diff", "rollback", "restore",
                        "applied", "create"}
TransactionType ==
  /\ snap = NONE \/ snap \in [Allowed -> SUBSET Pins]
  /\ at \in 1 .. Len(Order) + 1 /\ todo \subseteq Paths
FlagType == blocked \in BOOLEAN

LEMMA TypeParts == TypeOK <=> TreesType /\ RemoteType /\ JobType /\ TransactionType /\ FlagType
  BY DEF TypeOK, TreesType, RemoteType, JobType, TransactionType, FlagType

LEMMA TreesStep == AInv /\ [Next]_vars => TreesType'
  <1> SUFFICES ASSUME AInv, [Next]_vars
               PROVE  TreesType'
    OBVIOUS
  <1>0. TreesType /\ TransactionType /\ PlanInv /\ TreeInv /\ BranchInv
    BY TypeParts DEF AInv
  <1> USE <1>0 DEF TreesType, TransactionType, Remote, Job
  <1>1. ASSUME NEW status \in Statuses, Resolve(status)
        PROVE  TreesType'
    BY <1>1 DEF Resolve
  <1>2. CASE Checkout
    BY <1>2 DEF Checkout
  <1>3. CASE Begin
    BY <1>3 DEF Begin
  <1>4. CASE WriteCommon
    <2>1. plan.update \subseteq Pins /\ tree[Common] \subseteq Pins
      BY <1>4, MaintenanceConstants DEF WriteCommon, PlanInv, Trees
    <2>2. tree' = [tree EXCEPT ![Common] = @ \cup plan.update] \/ tree' = tree
      BY <1>4 DEF WriteCommon
    <2>3. [tree EXCEPT ![Common] = @ \cup plan.update] \in Trees
      BY <2>1 DEF Trees
    <2> QED
      BY <1>4, <2>2, <2>3 DEF WriteCommon, Remote, Job
  <1>5. CASE SyncPath
    <2>1. at \in 1 .. Len(Order)
      BY <1>5 DEF SyncPath
    <2>2. Order[at] \in Paths /\ Rendered(tree, Order[at]) \in SUBSET Pins
      BY <2>1, OrderFacts, RenderedType DEF Trees
    <2>3. tree' = [tree EXCEPT ![Order[at]] = Rendered(tree, Order[at])] \/ tree' = tree
      BY <1>5 DEF SyncPath
    <2>4. [tree EXCEPT ![Order[at]] = Rendered(tree, Order[at])] \in Trees
      BY <2>2 DEF Trees
    <2> QED
      BY <1>5, <2>3, <2>4 DEF SyncPath, Remote, Job
  <1>6. CASE Synced
    BY <1>6 DEF Synced, Fault
  <1>7. CASE Diff
    BY <1>7 DEF Diff
  <1>8. CASE Rollback
    BY <1>8 DEF Rollback
  <1>9. ASSUME NEW p \in Paths, Restore(p)
        PROVE  TreesType'
    <2>1. snap = [q \in Allowed |-> head[q]] /\ todo \subseteq Allowed /\ p \in todo
      BY <1>9 DEF Restore, TreeInv, Transaction
    <2>2. snap[p] \in SUBSET Pins
      BY <2>1, MaintenanceConstants DEF Trees
    <2>3. tree' = [tree EXCEPT ![p] = snap[p]] \/ tree' = tree
      BY <1>9 DEF Restore
    <2>4. [tree EXCEPT ![p] = snap[p]] \in Trees
      BY <2>2 DEF Trees
    <2> QED
      BY <1>9, <2>3, <2>4 DEF Restore, Remote, Job
  <1>10. CASE Restored
    BY <1>10 DEF Restored
  <1>11. CASE Validate
    BY <1>11 DEF Validate, Fault
  <1>12. CASE Inspect
    BY <1>12 DEF Inspect
  <1>13. CASE Create
    BY <1>13 DEF Create
  <1>14. CASE JobEnds
    BY <1>14 DEF JobEnds, Fault
  <1>15. ASSUME NEW p \in Paths, NEW s \in SUBSET Pins, Push(p, s)
        PROVE  TreesType'
    <2>1. [base EXCEPT ![p] = s] \in Trees
      BY <1>15 DEF Trees
    <2> QED
      BY <1>15, <2>1 DEF Push, Job
  <1>16. ASSUME NEW keep \in BOOLEAN, Merge(keep)
        PROVE  TreesType'
    <2>1. branch.tree \in Trees
      BY <1>16 DEF Merge, BranchInv
    <2> QED
      BY <1>16, <2>1 DEF Merge, Job
  <1>17. CASE UNCHANGED vars
    BY <1>17 DEF vars
  <1> QED
    BY <1>1, <1>2, <1>3, <1>4, <1>5, <1>6, <1>7, <1>8, <1>9, <1>10, <1>11, <1>12,
       <1>13, <1>14, <1>15, <1>16, <1>17
       DEF Next, Step, Statuses

LEMMA RemoteStep == AInv /\ [Next]_vars => RemoteType' /\ BranchInv'
  <1> SUFFICES ASSUME AInv, [Next]_vars
               PROVE  RemoteType' /\ BranchInv'
    OBVIOUS
  <1>0. TreesType /\ RemoteType /\ JobType /\ BranchInv
    BY TypeParts DEF AInv
  <1> USE <1>0 DEF TreesType, RemoteType, JobType, BranchInv, Remote
  <1>1. ASSUME NEW status \in Statuses, Resolve(status)
        PROVE  RemoteType' /\ BranchInv'
    BY <1>1 DEF Resolve
  <1>2. CASE Checkout
    BY <1>2 DEF Checkout
  <1>3. CASE Begin
    BY <1>3 DEF Begin
  <1>4. CASE WriteCommon
    BY <1>4 DEF WriteCommon, Fault
  <1>5. CASE SyncPath
    BY <1>5 DEF SyncPath, Fault
  <1>6. CASE Synced
    BY <1>6 DEF Synced, Fault
  <1>7. CASE Diff
    BY <1>7 DEF Diff
  <1>8. CASE Rollback
    BY <1>8 DEF Rollback
  <1>9. ASSUME NEW p \in Paths, Restore(p)
        PROVE  RemoteType' /\ BranchInv'
    BY <1>9 DEF Restore, Fault
  <1>10. CASE Restored
    BY <1>10 DEF Restored
  <1>11. CASE Validate
    BY <1>11 DEF Validate, Fault
  <1>12. CASE Inspect
    BY <1>12 DEF Inspect
  <1>13. CASE Create
    <2>1. [p \in Paths |-> IF p \in Published THEN tree[p] ELSE head[p]] \in Trees
      BY DEF Trees
    <2>2. branch' = [on |-> on, tree |-> [p \in Paths |-> IF p \in Published THEN tree[p] ELSE head[p]]]
      BY <1>13 DEF Create
    <2>3. branch' \in [on : Nat, tree : Trees]
      BY <2>1, <2>2
    <2> QED
      BY <1>13, <2>3 DEF Create
  <1>14. CASE JobEnds
    BY <1>14 DEF JobEnds, Fault
  <1>15. ASSUME NEW p \in Paths, NEW s \in SUBSET Pins, Push(p, s)
        PROVE  RemoteType' /\ BranchInv'
    BY <1>15 DEF Push
  <1>16. ASSUME NEW keep \in BOOLEAN, Merge(keep)
        PROVE  RemoteType' /\ BranchInv'
    <2>1. pr' = FALSE
      BY <1>16 DEF Merge
    <2>2. tip' \in Nat
      BY <1>16 DEF Merge
    <2>3. branch' = branch \/ branch' = NONE
      BY <1>16 DEF Merge
    <2>4. branch' = NONE \/ branch' \in [on : Nat, tree : Trees]
      BY <2>3
    <2> QED
      BY <2>1, <2>2, <2>4
  <1>17. CASE UNCHANGED vars
    BY <1>17 DEF vars
  <1> QED
    BY <1>1, <1>2, <1>3, <1>4, <1>5, <1>6, <1>7, <1>8, <1>9, <1>10, <1>11, <1>12,
       <1>13, <1>14, <1>15, <1>16, <1>17
       DEF Next, Step, Statuses

LEMMA JobStep == AInv /\ [Next]_vars => JobType'
  <1> SUFFICES ASSUME AInv, [Next]_vars
               PROVE  JobType'
    OBVIOUS
  <1>0. JobType /\ RemoteType
    BY TypeParts DEF AInv
  <1> USE <1>0 DEF JobType, RemoteType, Ended, Job
  <1>1. ASSUME NEW status \in Statuses, Resolve(status)
        PROVE  JobType'
    BY <1>1 DEF Resolve
  <1>2. CASE Checkout
    BY <1>2 DEF Checkout
  <1>3. CASE Begin
    BY <1>3 DEF Begin
  <1>4. CASE WriteCommon
    BY <1>4 DEF WriteCommon, Fault
  <1>5. CASE SyncPath
    BY <1>5 DEF SyncPath, Fault
  <1>6. CASE Synced
    BY <1>6 DEF Synced, Fault
  <1>7. CASE Diff
    BY <1>7 DEF Diff
  <1>8. CASE Rollback
    BY <1>8 DEF Rollback
  <1>9. ASSUME NEW p \in Paths, Restore(p)
        PROVE  JobType'
    BY <1>9 DEF Restore, Fault
  <1>10. CASE Restored
    BY <1>10 DEF Restored
  <1>11. CASE Validate
    BY <1>11 DEF Validate, Fault
  <1>12. CASE Inspect
    BY <1>12 DEF Inspect
  <1>13. CASE Create
    BY <1>13 DEF Create
  <1>14. CASE JobEnds
    BY <1>14 DEF JobEnds, Fault
  <1>15. ASSUME NEW p \in Paths, NEW s \in SUBSET Pins, Push(p, s)
        PROVE  JobType'
    BY <1>15 DEF Push
  <1>16. ASSUME NEW keep \in BOOLEAN, Merge(keep)
        PROVE  JobType'
    BY <1>16 DEF Merge
  <1>17. CASE UNCHANGED vars
    BY <1>17 DEF vars
  <1> QED
    BY <1>1, <1>2, <1>3, <1>4, <1>5, <1>6, <1>7, <1>8, <1>9, <1>10, <1>11, <1>12,
       <1>13, <1>14, <1>15, <1>16, <1>17
       DEF Next, Step, Statuses

LEMMA TransactionStep == AInv /\ [Next]_vars => TransactionType'
  <1> SUFFICES ASSUME AInv, [Next]_vars
               PROVE  TransactionType'
    OBVIOUS
  <1>0. TransactionType /\ TreesType /\ Len(Order) \in Nat
    BY TypeParts, OrderFacts DEF AInv
  <1> USE <1>0 DEF TransactionType, TreesType, Changed
  <1>1. ASSUME NEW status \in Statuses, Resolve(status)
        PROVE  TransactionType'
    BY <1>1 DEF Resolve
  <1>2. CASE Checkout
    BY <1>2 DEF Checkout
  <1>3. CASE Begin
    <2>1. [p \in Allowed |-> tree[p]] \in [Allowed -> SUBSET Pins]
      BY MaintenanceConstants DEF Trees
    <2> QED
      BY <1>3, <2>1 DEF Begin
  <1>4. CASE WriteCommon
    BY <1>4 DEF WriteCommon, Fault
  <1>5. CASE SyncPath
    <2>1. at \in 1 .. Len(Order)
      BY <1>5 DEF SyncPath
    <2>2. at + 1 \in 1 .. Len(Order) + 1
      BY <2>1
    <2> QED
      BY <1>5, <2>1, <2>2, NextType DEF SyncPath
  <1>6. CASE Synced
    BY <1>6 DEF Synced, Fault
  <1>7. CASE Diff
    BY <1>7 DEF Diff
  <1>8. CASE Rollback
    BY <1>8 DEF Rollback
  <1>9. ASSUME NEW p \in Paths, Restore(p)
        PROVE  TransactionType'
    <2>1. todo \ {p} \subseteq Paths
      OBVIOUS
    <2> QED
      BY <1>9, <2>1 DEF Restore
  <1>10. CASE Restored
    BY <1>10 DEF Restored
  <1>11. CASE Validate
    BY <1>11 DEF Validate, Fault
  <1>12. CASE Inspect
    BY <1>12 DEF Inspect
  <1>13. CASE Create
    BY <1>13 DEF Create
  <1>14. CASE JobEnds
    BY <1>14 DEF JobEnds, Fault
  <1>15. ASSUME NEW p \in Paths, NEW s \in SUBSET Pins, Push(p, s)
        PROVE  TransactionType'
    BY <1>15 DEF Push
  <1>16. ASSUME NEW keep \in BOOLEAN, Merge(keep)
        PROVE  TransactionType'
    BY <1>16 DEF Merge
  <1>17. CASE UNCHANGED vars
    BY <1>17 DEF vars
  <1> QED
    BY <1>1, <1>2, <1>3, <1>4, <1>5, <1>6, <1>7, <1>8, <1>9, <1>10, <1>11, <1>12,
       <1>13, <1>14, <1>15, <1>16, <1>17
       DEF Next, Step, Statuses

LEMMA FlagStep == AInv /\ [Next]_vars => FlagType'
  <1> SUFFICES ASSUME AInv, [Next]_vars
               PROVE  FlagType'
    OBVIOUS
  <1>0. FlagType
    BY TypeParts DEF AInv
  <1> USE <1>0 DEF FlagType
  <1>1. ASSUME NEW status \in Statuses, Resolve(status)
        PROVE  FlagType'
    BY <1>1 DEF Resolve
  <1>2. CASE Checkout
    BY <1>2 DEF Checkout
  <1>3. CASE Begin
    BY <1>3 DEF Begin
  <1>4. CASE WriteCommon
    BY <1>4 DEF WriteCommon, Fault
  <1>5. CASE SyncPath
    BY <1>5 DEF SyncPath, Fault
  <1>6. CASE Synced
    BY <1>6 DEF Synced, Fault
  <1>7. CASE Diff
    BY <1>7 DEF Diff
  <1>8. CASE Rollback
    BY <1>8 DEF Rollback
  <1>9. ASSUME NEW p \in Paths, Restore(p)
        PROVE  FlagType'
    BY <1>9 DEF Restore, Fault
  <1>10. CASE Restored
    BY <1>10 DEF Restored
  <1>11. CASE Validate
    BY <1>11 DEF Validate, Fault
  <1>12. CASE Inspect
    BY <1>12 DEF Inspect
  <1>13. CASE Create
    BY <1>13 DEF Create
  <1>14. CASE JobEnds
    BY <1>14 DEF JobEnds, Fault
  <1>15. ASSUME NEW p \in Paths, NEW s \in SUBSET Pins, Push(p, s)
        PROVE  FlagType'
    BY <1>15 DEF Push
  <1>16. ASSUME NEW keep \in BOOLEAN, Merge(keep)
        PROVE  FlagType'
    BY <1>16 DEF Merge
  <1>17. CASE UNCHANGED vars
    BY <1>17 DEF vars
  <1> QED
    BY <1>1, <1>2, <1>3, <1>4, <1>5, <1>6, <1>7, <1>8, <1>9, <1>10, <1>11, <1>12,
       <1>13, <1>14, <1>15, <1>16, <1>17
       DEF Next, Step, Statuses

-----------------------------------------------------------------------------
(* The plan and the commits *)

LEMMA PlanStep == AInv /\ [Next]_vars => PlanInv'
  <1> SUFFICES ASSUME AInv, [Next]_vars
               PROVE  PlanInv'
    OBVIOUS
  <1>0. PlanInv /\ TreesType
    BY TypeParts DEF AInv
  <1> USE <1>0 DEF PlanInv, Job, Ended
  <1>1. ASSUME NEW status \in Statuses, Resolve(status)
        PROVE  PlanInv'
    <2> DEFINE found == {status[c] : c \in Pins} \cup (IF Current(base) THEN {} ELSE {"blocked"})
               update == {c \in Pins : status[c] = "outdated"}
    <2>1. /\ plan' = [source |-> base[Common], update |-> update, status |-> status,
                      outcome |-> Outcome(found, update)]
          /\ pc' = IF Outcome(found, update) \in Safe THEN "ready" ELSE "idle"
      BY <1>1 DEF Resolve
    <2>2. CASE Outcome(found, update) \in Safe
      <3>1. "blocked" \notin found
        BY <2>2, SafeOutcome
      <3>2. \A c \in Pins : status[c] # "blocked"
        BY <3>1
      <3>3. base[Common] \subseteq Pins /\ update \subseteq Pins
        BY OrderFacts DEF TreesType, Trees
      <3> HIDE DEF found, update
      <3> QED
        BY <2>1, <3>2, <3>3
    <2>3. CASE ~(Outcome(found, update) \in Safe)
      BY <2>1, <2>3
    <2> QED
      BY <2>2, <2>3
  <1>2. CASE Checkout
    BY <1>2 DEF Checkout
  <1>3. CASE Begin
    BY <1>3 DEF Begin
  <1>4. CASE WriteCommon
    BY <1>4 DEF WriteCommon, Fault
  <1>5. CASE SyncPath
    BY <1>5 DEF SyncPath, Fault
  <1>6. CASE Synced
    BY <1>6 DEF Synced, Fault
  <1>7. CASE Diff
    BY <1>7 DEF Diff
  <1>8. CASE Rollback
    BY <1>8 DEF Rollback
  <1>9. ASSUME NEW p \in Paths, Restore(p)
        PROVE  PlanInv'
    BY <1>9 DEF Restore, Fault
  <1>10. CASE Restored
    BY <1>10 DEF Restored
  <1>11. CASE Validate
    BY <1>11 DEF Validate, Fault
  <1>12. CASE Inspect
    BY <1>12 DEF Inspect
  <1>13. CASE Create
    BY <1>13 DEF Create
  <1>14. CASE JobEnds
    BY <1>14 DEF JobEnds, Fault
  <1>15. ASSUME NEW p \in Paths, NEW s \in SUBSET Pins, Push(p, s)
        PROVE  PlanInv'
    BY <1>15 DEF Push
  <1>16. ASSUME NEW keep \in BOOLEAN, Merge(keep)
        PROVE  PlanInv'
    BY <1>16 DEF Merge
  <1>17. CASE UNCHANGED vars
    BY <1>17 DEF vars
  <1> QED
    BY <1>1, <1>2, <1>3, <1>4, <1>5, <1>6, <1>7, <1>8, <1>9, <1>10, <1>11, <1>12,
       <1>13, <1>14, <1>15, <1>16, <1>17
       DEF Next, Step, Statuses

LEMMA ClockStep == AInv /\ [Next]_vars => ClockInv'
  <1> SUFFICES ASSUME AInv, [Next]_vars
               PROVE  ClockInv'
    OBVIOUS
  <1>0. ClockInv /\ RemoteType /\ JobType
    BY TypeParts DEF AInv
  <1> USE <1>0 DEF ClockInv, RemoteType, JobType, Remote, Job
  <1>1. ASSUME NEW status \in Statuses, Resolve(status)
        PROVE  ClockInv'
    BY <1>1 DEF Resolve
  <1>2. CASE Checkout
    BY <1>2 DEF Checkout
  <1>3. CASE Begin
    BY <1>3 DEF Begin
  <1>4. CASE WriteCommon
    BY <1>4 DEF WriteCommon, Fault
  <1>5. CASE SyncPath
    BY <1>5 DEF SyncPath, Fault
  <1>6. CASE Synced
    BY <1>6 DEF Synced, Fault
  <1>7. CASE Diff
    BY <1>7 DEF Diff
  <1>8. CASE Rollback
    BY <1>8 DEF Rollback
  <1>9. ASSUME NEW p \in Paths, Restore(p)
        PROVE  ClockInv'
    BY <1>9 DEF Restore, Fault
  <1>10. CASE Restored
    BY <1>10 DEF Restored
  <1>11. CASE Validate
    BY <1>11 DEF Validate, Fault
  <1>12. CASE Inspect
    BY <1>12 DEF Inspect
  <1>13. CASE Create
    BY <1>13 DEF Create
  <1>14. CASE JobEnds
    BY <1>14 DEF JobEnds, Fault
  <1>15. ASSUME NEW p \in Paths, NEW s \in SUBSET Pins, Push(p, s)
        PROVE  ClockInv'
    BY <1>15 DEF Push
  <1>16. ASSUME NEW keep \in BOOLEAN, Merge(keep)
        PROVE  ClockInv'
    BY <1>16 DEF Merge
  <1>17. CASE UNCHANGED vars
    BY <1>17 DEF vars
  <1> QED
    BY <1>1, <1>2, <1>3, <1>4, <1>5, <1>6, <1>7, <1>8, <1>9, <1>10, <1>11, <1>12,
       <1>13, <1>14, <1>15, <1>16, <1>17
       DEF Next, Step, Statuses

-----------------------------------------------------------------------------
(* The transaction *)

LEMMA TreeStep == AInv /\ [Next]_vars => TreeInv'
  <1> SUFFICES ASSUME AInv, [Next]_vars
               PROVE  TreeInv'
    OBVIOUS
  <1>0. TreeInv /\ TreesType /\ TransactionType
    BY TypeParts DEF AInv
  <1> USE <1>0 DEF TreeInv, TreesType, Transaction, Complete, Applied
  <1>1. ASSUME NEW status \in Statuses, Resolve(status)
        PROVE  TreeInv'
    <2>1. pc' \in {"ready", "idle", "rejected"}
      BY <1>1 DEF Resolve
    <2> QED
      BY <2>1
  <1>2. CASE Checkout
    BY <1>2 DEF Checkout
  <1>3. CASE Begin
    <2>1. pc = "begin" /\ tree' = tree /\ head' = head /\ plan' = plan /\ UNCHANGED <<at, blocked>>
          /\ snap' = [p \in Allowed |-> tree[p]] /\ pc' \in {"write", "rollback"}
          /\ (pc' = "write" => tree[Common] = plan.source)
      BY <1>3 DEF Begin, Job
    <2> QED
      BY <2>1
  <1>4. CASE WriteCommon
    <2>1. /\ pc = "write" /\ pc' \in {"sync", "rollback"} /\ UNCHANGED <<plan, head, snap>>
          /\ pc' = "sync" => tree' = [tree EXCEPT ![Common] = @ \cup plan.update]
      BY <1>4 DEF WriteCommon, Job
    <2>2. pc' = "sync" => tree'[Common] = plan.source \cup plan.update
      BY <2>1, OrderFacts DEF Trees
    <2> QED
      BY <2>1, <2>2
  <1>5. CASE SyncPath
    <2>1. at \in 1 .. Len(Order) /\ Order[at] # Common /\ Order[at] \in Paths
      BY <1>5, OrderFacts DEF SyncPath, TransactionType
    <2>2. tree'[Common] = tree[Common]
      BY <1>5, <2>1, OrderFacts DEF SyncPath, Trees
    <2>3. pc = "sync" /\ UNCHANGED <<pc, plan, head, snap>>
      BY <1>5 DEF SyncPath, Job
    <2> QED
      BY <2>2, <2>3
  <1>6. CASE Synced
    <2>1. pc = "sync" /\ pc' \in {"diff", "rollback"} /\ UNCHANGED <<plan, head, tree, snap>>
          /\ (pc' = "diff" => Current(tree))
      BY <1>6 DEF Synced, Job
    <2>2. Current(tree)' <=> Current(tree)
      BY <2>1 DEF Current, Rendered
    <2> QED
      BY <2>1, <2>2
  <1>7. CASE Diff
    <2>1. pc = "diff" /\ pc' \in {"applied", "rollback"} /\ UNCHANGED <<plan, head, tree, snap>>
          /\ (pc' = "applied" => Changed \subseteq Allowed)
      BY <1>7 DEF Diff, Job
    <2>2. (Current(tree)' <=> Current(tree)) /\ Changed' = Changed
      BY <2>1 DEF Current, Rendered, Changed
    <2> QED
      BY <2>1, <2>2
  <1>8. CASE Rollback
    <2>1. pc = "rollback" /\ UNCHANGED <<head, tree, snap>> /\ todo' = Changed
          /\ pc' \in {"restore", "dirty"} /\ (pc' = "restore" => Changed \subseteq Allowed)
      BY <1>8 DEF Rollback, Job
    <2>2. \A p \in Paths \ Changed : tree[p] = head[p]
      BY DEF Changed
    <2> QED
      BY <2>1, <2>2
  <1>9. ASSUME NEW p \in Paths, Restore(p)
        PROVE  TreeInv'
    <2>1. pc = "restore" /\ UNCHANGED <<head, snap>> /\ p \in todo
          /\ \/ tree' = [tree EXCEPT ![p] = snap[p]] /\ todo' = todo \ {p} /\ pc' = pc
             \/ pc' = "dirty"
      BY <1>9 DEF Restore, Job
    <2>2. CASE tree' = [tree EXCEPT ![p] = snap[p]] /\ todo' = todo \ {p} /\ pc' = pc
      <3>1. snap[p] = head[p]
        BY <2>1
      <3>2. \A q \in Paths \ todo' : tree'[q] = head[q]
        BY <2>1, <2>2, <3>1 DEF Trees
      <3> QED
        BY <2>1, <2>2, <3>2
    <2>3. CASE pc' = "dirty"
      BY <2>3
    <2> QED
      BY <2>1, <2>2, <2>3
  <1>10. CASE Restored
    <2>1. pc = "restore" /\ pc' = "failed" /\ todo = {} /\ UNCHANGED <<head, tree>>
      BY <1>10 DEF Restored, Job
    <2>2. \A q \in Paths : tree[q] = head[q]
      BY <2>1
    <2>3. tree = head
      BY <2>2 DEF Trees
    <2> QED
      BY <2>1, <2>3
  <1>11. CASE Validate
    <2>1. pc' \in {"ready", "idle", "rejected"}
      BY <1>11 DEF Validate, Fault
    <2> QED
      BY <2>1
  <1>12. CASE Inspect
    <2>1. UNCHANGED <<plan, head, tree>> /\ (pc' \in Applied => pc \in Applied) /\ pc' \notin Transaction
          /\ pc' \notin {"begin", "failed", "diff"}
      BY <1>12 DEF Inspect, Job, Applied, Transaction
    <2>2. (Current(tree)' <=> Current(tree)) /\ Changed' = Changed
      BY <2>1 DEF Current, Rendered, Changed
    <2> QED
      BY <2>1, <2>2
  <1>13. CASE Create
    <2>1. UNCHANGED <<plan, head, tree>> /\ (pc' \in Applied => pc \in Applied) /\ pc' \notin Transaction
          /\ pc' \notin {"begin", "failed", "diff"}
      BY <1>13 DEF Create, Job, Applied, Transaction
    <2>2. (Current(tree)' <=> Current(tree)) /\ Changed' = Changed
      BY <2>1 DEF Current, Rendered, Changed
    <2> QED
      BY <2>1, <2>2
  <1>14. CASE JobEnds
    <2>1. pc' \in {"ready", "idle", "rejected"}
      BY <1>14 DEF JobEnds, Fault
    <2> QED
      BY <2>1
  <1>15. ASSUME NEW p \in Paths, NEW s \in SUBSET Pins, Push(p, s)
        PROVE  TreeInv'
    <2>1. UNCHANGED <<plan, head, tree, pc, snap, todo, at, blocked>>
      BY <1>15 DEF Push, Job
    <2>2. (Current(tree)' <=> Current(tree)) /\ Changed' = Changed
      BY <2>1 DEF Current, Rendered, Changed
    <2> QED
      BY <2>1, <2>2
  <1>16. ASSUME NEW keep \in BOOLEAN, Merge(keep)
        PROVE  TreeInv'
    <2>1. UNCHANGED <<plan, head, tree, pc, snap, todo, at, blocked>>
      BY <1>16 DEF Merge, Job
    <2>2. (Current(tree)' <=> Current(tree)) /\ Changed' = Changed
      BY <2>1 DEF Current, Rendered, Changed
    <2> QED
      BY <2>1, <2>2
  <1>17. CASE UNCHANGED vars
    <2>1. UNCHANGED <<plan, head, tree, pc, snap, todo, at, blocked>>
      BY <1>17 DEF vars, Job
    <2>2. (Current(tree)' <=> Current(tree)) /\ Changed' = Changed
      BY <2>1 DEF Current, Rendered, Changed
    <2> QED
      BY <2>1, <2>2
  <1> QED
    BY <1>1, <1>2, <1>3, <1>4, <1>5, <1>6, <1>7, <1>8, <1>9, <1>10, <1>11, <1>12,
       <1>13, <1>14, <1>15, <1>16, <1>17
       DEF Next, Step, Statuses

-----------------------------------------------------------------------------
(* The derivation, in the candidate job and in the publisher *)

LEMMA CandidateStep == AInv /\ [Next]_vars => CandidateInv'
  <1> SUFFICES ASSUME AInv, [Next]_vars
               PROVE  CandidateInv'
    OBVIOUS
  <1>0. TreeInv /\ TreesType /\ CandidateInv /\ JobType /\ TransactionType
    BY TypeParts DEF AInv
  <1> USE <1>0 DEF CandidateInv, TransactionType
  <1>1. ASSUME NEW status \in Statuses, Resolve(status)
        PROVE  CandidateInv'
    <2>1. pc' \notin {"create", "published", "sync"} \cup Complete
      BY <1>1 DEF Resolve, Complete, Applied
    <2> QED
      BY <2>1
  <1>2. CASE Checkout
    <2>1. pc' \notin {"create", "published", "sync"} \cup Complete
      BY <1>2 DEF Checkout, Complete, Applied
    <2> QED
      BY <2>1
  <1>3. CASE Begin
    <2>1. pc' \notin {"create", "published", "sync"} \cup Complete
      BY <1>3 DEF Begin, Complete, Applied
    <2> QED
      BY <2>1
  <1>4. CASE WriteCommon
    <2> SUFFICES ASSUME job' = "candidate", pc' = "sync"
                 PROVE  \E S \in Traces : Derived(S, head', plan'.update, at' - 1) /\ Follows(S)'
      BY <1>4 DEF WriteCommon, Complete, Applied
    <2>1. /\ tree' = [tree EXCEPT ![Common] = @ \cup plan.update] /\ tree = head /\ at = 1
          /\ UNCHANGED <<head, plan, at>>
      BY <1>4 DEF WriteCommon, Job, TreeInv
    <2>2. PICK S \in Traces : S[0] = tree'
      <3>1. [i \in 0 .. Len(Order) |-> tree'] \in Traces
        BY TreesStep DEF TreesType, Traces
      <3> QED
        BY <3>1, OrderFacts
    <2>3. at' - 1 = 0
      BY <2>1
    <2>4. Derived(S, head', plan'.update, 0)
      BY <2>1, <2>2 DEF Derived
    <2>5. Follows(S)'
      BY <2>2, <2>3 DEF Follows, Complete, Applied
    <2> QED
      BY <2>2, <2>3, <2>4, <2>5
  <1>5. CASE SyncPath
    <2>1. /\ pc = "sync" /\ at \in 1 .. Len(Order) /\ UNCHANGED <<pc, job, head, plan>>
          /\ \/ /\ tree' = [tree EXCEPT ![Order[at]] = Rendered(tree, Order[at])]
                /\ at' = at + 1 /\ blocked' = blocked
             \/ blocked' = TRUE
      BY <1>5 DEF SyncPath, Job
    <2> SUFFICES ASSUME job' = "candidate", ~blocked'
                 PROVE  \E S \in Traces : Derived(S, head', plan'.update, at' - 1) /\ Follows(S)'
      BY <2>1 DEF Complete, Applied
    <2>2. PICK S \in Traces : Derived(S, head, plan.update, at - 1) /\ tree = S[at - 1]
      BY <2>1 DEF Follows
    <2>3. PICK T \in Traces : T[at] = tree' /\ \A i \in 0 .. Len(Order) : i # at => T[i] = S[i]
      <3> DEFINE U == [S EXCEPT ![at] = tree']
      <3>1. U \in Traces /\ U[at] = tree' /\ \A i \in 0 .. Len(Order) : i # at => U[i] = S[i]
        BY <2>1, TreesStep, OrderFacts DEF TreesType, Traces
      <3> QED
        BY <3>1
    <2>4. Derived(T, head', plan'.update, at' - 1)
      <3>1. T[0] = [head EXCEPT ![Common] = @ \cup plan.update]
        BY <2>1, <2>2, <2>3, OrderFacts DEF Derived
      <3>2. ASSUME NEW i \in 1 .. at
            PROVE  T[i] = [T[i - 1] EXCEPT ![Order[i]] = Rendered(T[i - 1], Order[i])]
        <4>1. i - 1 \in 0 .. Len(Order) /\ i - 1 # at /\ T[i - 1] = S[i - 1]
          BY <2>1, <2>3, OrderFacts
        <4>2. CASE i = at
          BY <2>1, <2>2, <2>3, <4>1, <4>2
        <4>3. CASE i # at
          <5>1. i \in 1 .. at - 1 /\ i \in 0 .. Len(Order)
            BY <2>1, <4>3, OrderFacts
          <5>2. S[i] = [S[i - 1] EXCEPT ![Order[i]] = Rendered(S[i - 1], Order[i])]
            BY <2>2, <5>1 DEF Derived
          <5> QED
            BY <2>3, <4>1, <4>3, <5>1, <5>2
        <4> QED
          BY <4>2, <4>3
      <3>3. head' = head /\ plan' = plan /\ at' - 1 = at
        BY <2>1
      <3> QED
        BY <3>1, <3>2, <3>3 DEF Derived
    <2>5. Follows(T)'
      <3>1. at' - 1 = at /\ pc' = "sync"
        BY <2>1
      <3> QED
        BY <2>3, <3>1 DEF Follows, Complete, Applied
    <2> QED
      BY <2>3, <2>4, <2>5
  <1>6. CASE Synced
    <2>1. /\ pc = "sync" /\ at = Len(Order) + 1 /\ UNCHANGED <<job, head, plan, tree>>
          /\ pc' \in {"diff", "rollback"} /\ (pc' = "diff" => ~blocked)
      BY <1>6, OrderFacts DEF Synced, Job
    <2> SUFFICES ASSUME job' = "candidate", pc' = "diff"
                 PROVE  \E S \in Traces : Derived(S, head', plan'.update, Len(Order)) /\ Follows(S)'
      BY <2>1 DEF Complete, Applied
    <2>2. PICK S \in Traces : Derived(S, head, plan.update, at - 1) /\ tree = S[at - 1]
      BY <2>1 DEF Follows
    <2>3. at - 1 = Len(Order)
      BY <2>1, OrderFacts
    <2>4. Derived(S, head', plan'.update, Len(Order))
      BY <2>1, <2>2, <2>3
    <2>5. Follows(S)'
      BY <2>1, <2>2, <2>3 DEF Follows
    <2> QED
      BY <2>4, <2>5
  <1>7. CASE Diff
    <2>1. /\ pc = "diff" /\ UNCHANGED <<job, head, plan, tree>> /\ pc' \in {"applied", "rollback"}
      BY <1>7 DEF Diff, Job
    <2> SUFFICES ASSUME job' = "candidate", pc' = "applied"
                 PROVE  \E S \in Traces : Derived(S, head', plan'.update, Len(Order)) /\ Follows(S)'
      BY <2>1 DEF Complete, Applied
    <2>2. PICK S \in Traces : Derived(S, head, plan.update, Len(Order)) /\ tree = S[Len(Order)]
      BY <2>1 DEF Follows, Complete
    <2>3. Derived(S, head', plan'.update, Len(Order)) /\ Follows(S)'
      BY <2>1, <2>2 DEF Follows
    <2> QED
      BY <2>3
  <1>8. CASE Rollback
    <2>1. pc' \notin {"create", "published", "sync"} \cup Complete
      BY <1>8 DEF Rollback, Complete, Applied
    <2> QED
      BY <2>1
  <1>9. ASSUME NEW p \in Paths, Restore(p)
        PROVE  CandidateInv'
    <2>1. pc' \notin {"create", "published", "sync"} \cup Complete
      BY <1>9 DEF Restore, Fault, Complete, Applied
    <2> QED
      BY <2>1
  <1>10. CASE Restored
    <2>1. pc' \notin {"create", "published", "sync"} \cup Complete
      BY <1>10 DEF Restored, Complete, Applied
    <2> QED
      BY <2>1
  <1>11. CASE Validate
    <2>1. job' = "publish" \/ pc' = "rejected"
      BY <1>11 DEF Validate
    <2> QED
      BY <2>1 DEF Complete, Applied
  <1>12. CASE Inspect
    <2>1. job = "publish" /\ job' = job
      BY <1>12 DEF Inspect, Job, JobType
    <2> QED
      BY <2>1
  <1>13. CASE Create
    <2>1. pc = "create" /\ job' = job
      BY <1>13 DEF Create, Job
    <2>2. job = "publish"
      BY <2>1 DEF JobType
    <2> QED
      BY <2>1, <2>2
  <1>14. CASE JobEnds
    <2>1. pc' \notin {"create", "published", "sync"} \cup Complete
      BY <1>14 DEF JobEnds, Fault, Complete, Applied
    <2> QED
      BY <2>1
  <1>15. ASSUME NEW p \in Paths, NEW s \in SUBSET Pins, Push(p, s)
        PROVE  CandidateInv'
    <2>1. UNCHANGED <<pc, job, head, plan, tree, at, blocked>>
      BY <1>15 DEF Push, Job
    <2> QED
      BY <2>1 DEF Derived, Follows, Rendered
  <1>16. ASSUME NEW keep \in BOOLEAN, Merge(keep)
        PROVE  CandidateInv'
    <2>1. UNCHANGED <<pc, job, head, plan, tree, at, blocked>>
      BY <1>16 DEF Merge, Job
    <2> QED
      BY <2>1 DEF Derived, Follows, Rendered
  <1>17. CASE UNCHANGED vars
    <2>1. UNCHANGED <<pc, job, head, plan, tree, at, blocked>>
      BY <1>17 DEF vars, Job
    <2> QED
      BY <2>1 DEF Derived, Follows, Rendered
  <1> QED
    BY <1>1, <1>2, <1>3, <1>4, <1>5, <1>6, <1>7, <1>8, <1>9, <1>10, <1>11, <1>12,
       <1>13, <1>14, <1>15, <1>16, <1>17
       DEF Next, Step, Statuses

LEMMA PublishStep == AInv /\ [Next]_vars => PublishInv'
  <1> SUFFICES ASSUME AInv, [Next]_vars
               PROVE  PublishInv'
    OBVIOUS
  <1>0. TreeInv /\ TreesType /\ CandidateInv /\ PublishInv /\ JobType /\ TransactionType /\ ClockInv
    BY TypeParts DEF AInv
  <1> USE <1>0 DEF PublishInv, TransactionType, TreesType
  <1>1. ASSUME NEW status \in Statuses, Resolve(status)
        PROVE  PublishInv'
    <2>1. pc' \notin {"ready", "begin", "write", "sync"} \cup Complete \/ job' = "candidate"
      BY <1>1 DEF Resolve, Complete, Applied
    <2> QED
      BY <2>1 DEF Complete, Applied
  <1>2. CASE Checkout
    <2>1. pc = "ready" /\ pc' = "begin" /\ head' = base /\ on' = tip /\ UNCHANGED <<plan, job, validated>>
      BY <1>2 DEF Checkout
    <2> SUFFICES ASSUME job = "publish", on' = validated
                 PROVE  \E S \in Traces : Publishable(S, head', plan'.update) /\ Follows(S)'
      BY <2>1 DEF Complete, Applied
    <2>2. PICK S \in Traces : Publishable(S, head, plan.update)
      BY <2>1
    <2>3. head' = head
      BY <2>1 DEF ClockInv
    <2>4. Publishable(S, head', plan'.update) /\ Follows(S)'
      BY <2>1, <2>2, <2>3 DEF Follows, Complete, Applied
    <2> QED
      BY <2>4
  <1>3. CASE Begin
    <2>1. /\ UNCHANGED <<job, head, plan, on, validated>> /\ pc' \notin {"ready", "published"}
          /\ pc' \in {"begin", "write", "sync"} \cup Complete => pc \in {"begin", "write", "sync"} \cup Complete
      BY <1>3 DEF Begin, Job, Complete, Applied
    <2> SUFFICES ASSUME job = "publish", on = validated, pc \in {"begin", "write", "sync"} \cup Complete,
                        NEW S \in Traces, Publishable(S, head, plan.update), Follows(S)
                 PROVE  Follows(S)'
      BY <2>1
    <2>2. Derived(S, head, plan.update, Len(Order))
      BY DEF Publishable
    <2>3. pc' \in {"begin", "write", "rollback", "restore"} \/ UNCHANGED <<pc, tree, at, blocked>>
      BY <1>3 DEF Begin
    <2> QED
      BY <2>3 DEF Follows, Complete, Applied
  <1>4. CASE WriteCommon
    <2>1. /\ UNCHANGED <<job, head, plan, on, validated>> /\ pc' \notin {"ready", "published"}
          /\ pc' \in {"begin", "write", "sync"} \cup Complete => pc \in {"begin", "write", "sync"} \cup Complete
      BY <1>4 DEF WriteCommon, Fault, Job, Complete, Applied
    <2> SUFFICES ASSUME job = "publish", on = validated, pc \in {"begin", "write", "sync"} \cup Complete,
                        NEW S \in Traces, Publishable(S, head, plan.update), Follows(S)
                 PROVE  Follows(S)'
      BY <2>1
    <2>2. Derived(S, head, plan.update, Len(Order))
      BY DEF Publishable
    <2>3. pc' = "sync" => tree' = [tree EXCEPT ![Common] = @ \cup plan.update] /\ tree = head /\ at' = 1
      BY <1>4 DEF WriteCommon, TreeInv
    <2>4. pc' \in {"sync", "rollback"}
      BY <1>4 DEF WriteCommon
    <2>5. ASSUME pc' = "sync"
          PROVE  tree' = S[at' - 1]
      <3>1. at' - 1 = 0
        BY <2>3, <2>5
      <3>2. S[0] = [head EXCEPT ![Common] = @ \cup plan.update]
        BY <2>2 DEF Derived
      <3> QED
        BY <2>3, <2>5, <3>1, <3>2
    <2> QED
      BY <2>4, <2>5 DEF Follows, Complete, Applied
  <1>5. CASE SyncPath
    <2>1. /\ UNCHANGED <<job, head, plan, on, validated>> /\ pc' \notin {"ready", "published"}
          /\ pc' \in {"begin", "write", "sync"} \cup Complete => pc \in {"begin", "write", "sync"} \cup Complete
      BY <1>5 DEF SyncPath, Fault, Job, Complete, Applied
    <2> SUFFICES ASSUME job = "publish", on = validated, pc \in {"begin", "write", "sync"} \cup Complete,
                        NEW S \in Traces, Publishable(S, head, plan.update), Follows(S)
                 PROVE  Follows(S)'
      BY <2>1
    <2>2. Derived(S, head, plan.update, Len(Order))
      BY DEF Publishable
    <2>3. /\ pc = "sync" /\ at \in 1 .. Len(Order) /\ pc' = pc
          /\ \/ /\ tree' = [tree EXCEPT ![Order[at]] = Rendered(tree, Order[at])]
                /\ at' = at + 1 /\ blocked' = blocked
             \/ blocked' = TRUE
      BY <1>5 DEF SyncPath
    <2> SUFFICES ASSUME ~blocked'
                 PROVE  tree' = S[at' - 1]
      BY <2>3 DEF Follows, Complete, Applied
    <2>4. tree = S[at - 1] /\ at' - 1 = at
      BY <2>3 DEF Follows
    <2>5. S[at] = [S[at - 1] EXCEPT ![Order[at]] = Rendered(S[at - 1], Order[at])]
      BY <2>2, <2>3 DEF Derived
    <2> QED
      BY <2>3, <2>4, <2>5
  <1>6. CASE Synced
    <2>1. /\ UNCHANGED <<job, head, plan, on, validated>> /\ pc' \notin {"ready", "published"}
          /\ pc' \in {"begin", "write", "sync"} \cup Complete => pc \in {"begin", "write", "sync"} \cup Complete
      BY <1>6 DEF Synced, Fault, Job, Complete, Applied
    <2> SUFFICES ASSUME job = "publish", on = validated, pc \in {"begin", "write", "sync"} \cup Complete,
                        NEW S \in Traces, Publishable(S, head, plan.update), Follows(S)
                 PROVE  Follows(S)'
      BY <2>1
    <2>2. Derived(S, head, plan.update, Len(Order))
      BY DEF Publishable
    <2>3. /\ pc = "sync" /\ at - 1 = Len(Order) /\ tree' = tree
          /\ pc' \in {"diff", "rollback"} /\ (pc' = "diff" => ~blocked)
      BY <1>6, OrderFacts DEF Synced
    <2> QED
      BY <2>3 DEF Follows, Complete, Applied
  <1>7. CASE Diff
    <2>1. /\ UNCHANGED <<job, head, plan, on, validated>> /\ pc' \notin {"ready", "published"}
          /\ pc' \in {"begin", "write", "sync"} \cup Complete => pc \in {"begin", "write", "sync"} \cup Complete
      BY <1>7 DEF Diff, Job, Complete, Applied
    <2> SUFFICES ASSUME job = "publish", on = validated, pc \in {"begin", "write", "sync"} \cup Complete,
                        NEW S \in Traces, Publishable(S, head, plan.update), Follows(S)
                 PROVE  Follows(S)'
      BY <2>1
    <2>2. Derived(S, head, plan.update, Len(Order))
      BY DEF Publishable
    <2>3. pc \in Complete /\ tree' = tree /\ pc' # "sync"
      BY <1>7 DEF Diff, Complete, Applied
    <2> QED
      BY <2>3 DEF Follows
  <1>8. CASE Rollback
    <2>1. pc' \notin {"ready", "begin", "write", "sync"} \cup Complete \/ job' = "candidate"
      BY <1>8 DEF Rollback, Complete, Applied
    <2> QED
      BY <2>1 DEF Complete, Applied
  <1>9. ASSUME NEW p \in Paths, Restore(p)
        PROVE  PublishInv'
    <2>1. pc' \notin {"ready", "begin", "write", "sync"} \cup Complete \/ job' = "candidate"
      BY <1>9 DEF Restore, Fault, Complete, Applied
    <2> QED
      BY <2>1 DEF Complete, Applied
  <1>10. CASE Restored
    <2>1. pc' \notin {"ready", "begin", "write", "sync"} \cup Complete \/ job' = "candidate"
      BY <1>10 DEF Restored, Complete, Applied
    <2> QED
      BY <2>1 DEF Complete, Applied
  <1>11. CASE Validate
    <2>1. /\ pc = "applied" /\ job = "candidate" /\ UNCHANGED <<head, plan, on, tree>>
          /\ \/ Changed \subseteq Published /\ pc' = "ready" /\ job' = "publish" /\ validated' = on
             \/ pc' = "rejected"
      BY <1>11 DEF Validate
    <2> SUFFICES ASSUME Changed \subseteq Published, pc' = "ready", validated' = on
                 PROVE  \E S \in Traces : Publishable(S, head, plan.update)
      BY <2>1 DEF Complete, Applied
    <2>2. PICK S \in Traces : Derived(S, head, plan.update, Len(Order)) /\ tree = S[Len(Order)]
      BY <2>1, <1>0 DEF CandidateInv, Follows, Complete, Applied
    <2>3. Publishable(S, head, plan.update)
      BY <2>2 DEF Publishable, Changed
    <2> QED
      BY <2>3
  <1>12. CASE Inspect
    <2>1. /\ UNCHANGED <<job, head, plan, on, validated>> /\ pc' \notin {"ready", "published"}
          /\ pc' \in {"begin", "write", "sync"} \cup Complete => pc \in {"begin", "write", "sync"} \cup Complete
      BY <1>12 DEF Inspect, Job, Complete, Applied
    <2> SUFFICES ASSUME job = "publish", on = validated, pc \in {"begin", "write", "sync"} \cup Complete,
                        NEW S \in Traces, Publishable(S, head, plan.update), Follows(S)
                 PROVE  Follows(S)'
      BY <2>1
    <2>2. Derived(S, head, plan.update, Len(Order))
      BY DEF Publishable
    <2>3. pc \in Complete /\ tree' = tree /\ pc' # "sync"
      BY <1>12 DEF Inspect, Complete, Applied
    <2> QED
      BY <2>3 DEF Follows
  <1>13. CASE Create
    <2>1. /\ pc = "create" /\ pc' = "published" /\ UNCHANGED <<job, head, plan, on, validated, tree>>
          /\ branch' = [on |-> on, tree |-> [p \in Paths |-> IF p \in Published THEN tree[p] ELSE head[p]]]
      BY <1>13 DEF Create, Job
    <2> SUFFICES ASSUME job = "publish", on = validated
                 PROVE  /\ \E S \in Traces : Publishable(S, head, plan.update) /\ Follows(S)'
                        /\ branch'.tree = tree
      BY <2>1
    <2>2. PICK S \in Traces : Publishable(S, head, plan.update) /\ tree = S[Len(Order)]
      BY <2>1 DEF Follows, Complete, Applied
    <2>3. Follows(S)'
      BY <2>1, <2>2 DEF Follows
    <2>4. \A p \in Paths \ Published : tree[p] = head[p]
      BY <2>2 DEF Publishable
    <2>5. branch'.tree = tree
      <3>1. branch'.tree = [p \in Paths |-> IF p \in Published THEN tree[p] ELSE head[p]]
        BY <2>1
      <3>2. \A p \in Paths : branch'.tree[p] = tree[p]
        BY <2>4, <3>1
      <3> QED
        BY <3>1, <3>2 DEF Trees
    <2> QED
      BY <2>2, <2>3, <2>5
  <1>14. CASE JobEnds
    <2>1. pc' \notin {"ready", "begin", "write", "sync"} \cup Complete \/ job' = "candidate"
      BY <1>14 DEF JobEnds, Fault, Complete, Applied
    <2> QED
      BY <2>1 DEF Complete, Applied
  <1>15. ASSUME NEW p \in Paths, NEW s \in SUBSET Pins, Push(p, s)
        PROVE  PublishInv'
    <2>1. UNCHANGED <<pc, job, head, plan, tree, at, blocked, on, validated>>
      BY <1>15 DEF Push, Job
    <2>2. branch' = branch \/ branch' = NONE
      BY <1>15 DEF Push
    <2>3. \A S \in Traces : Follows(S) => Follows(S)'
      BY <2>1 DEF Follows
    <2> QED
      BY <2>1, <2>2, <2>3
  <1>16. ASSUME NEW keep \in BOOLEAN, Merge(keep)
        PROVE  PublishInv'
    <2>1. UNCHANGED <<pc, job, head, plan, tree, at, blocked, on, validated>>
      BY <1>16 DEF Merge, Job
    <2>2. branch' = branch \/ branch' = NONE
      BY <1>16 DEF Merge
    <2>3. \A S \in Traces : Follows(S) => Follows(S)'
      BY <2>1 DEF Follows
    <2> QED
      BY <2>1, <2>2, <2>3
  <1>17. CASE UNCHANGED vars
    <2>1. UNCHANGED <<pc, job, head, plan, tree, at, blocked, on, validated>>
      BY <1>17 DEF vars, Job
    <2>2. branch' = branch \/ branch' = NONE
      BY <1>17 DEF vars
    <2>3. \A S \in Traces : Follows(S) => Follows(S)'
      BY <2>1 DEF Follows
    <2> QED
      BY <2>1, <2>2, <2>3
  <1> QED
    BY <1>1, <1>2, <1>3, <1>4, <1>5, <1>6, <1>7, <1>8, <1>9, <1>10, <1>11, <1>12,
       <1>13, <1>14, <1>15, <1>16, <1>17
       DEF Next, Step, Statuses

-----------------------------------------------------------------------------
LEMMA InvInit == Init => AInv
  <1> SUFFICES ASSUME Init
               PROVE  AInv
    OBVIOUS
  <1> USE OrderFacts DEF Init, Ended
  <1>1. [p \in Paths |-> {}] \in Trees
    BY DEF Trees
  <1>2. TreesType /\ RemoteType
    BY <1>1 DEF TreesType, RemoteType
  <1>3. JobType /\ TransactionType
    BY DEF JobType, TransactionType
  <1>4. FlagType
    BY DEF FlagType
  <1>5. PlanInv /\ ClockInv /\ BranchInv
    BY DEF PlanInv, ClockInv, BranchInv
  <1>6. TreeInv /\ CandidateInv /\ PublishInv
    BY DEF TreeInv, CandidateInv, PublishInv, Transaction, Complete, Applied
  <1> QED
    BY <1>2, <1>3, <1>4, <1>5, <1>6, TypeParts DEF AInv

LEMMA InvStep == AInv /\ [Next]_vars => AInv'
  <1> SUFFICES ASSUME AInv, [Next]_vars
               PROVE  AInv'
    OBVIOUS
  <1>1. TreesType' /\ RemoteType' /\ JobType' /\ TransactionType' /\ FlagType'
    BY TreesStep, RemoteStep, JobStep, TransactionStep, FlagStep
  <1>2. TypeOK'
    BY <1>1 DEF TypeOK, TreesType, RemoteType, JobType, TransactionType, FlagType
  <1> QED
    BY <1>2, RemoteStep, PlanStep, ClockStep, TreeStep, CandidateStep, PublishStep DEF AInv

LEMMA Invariant == Spec => []AInv
  BY InvInit, InvStep, PTL DEF Spec

(***************************************************************************)
(* apply_safe_updates is all or nothing: what it has applied is the plan,  *)
(* in files that are all current and inside the allowlist, and a failure   *)
(* that is not reported as a failed rollback has restored every file,      *)
(* whichever generators and restores fail.                                 *)
(***************************************************************************)
THEOREM ApplyTheorem == Spec => []ApplySound
  <1>1. AInv => ApplySound
    BY DEF AInv, ApplySound, FailedMeansRestored, AppliedIsThePlan, TreeInv, PlanInv, Complete, Applied
  <1> QED
    BY <1>1, Invariant, PTL

(***************************************************************************)
(* The branch that is published is whole when the default branch has not   *)
(* moved since the candidate was validated, although the publisher makes   *)
(* the files again and commits only the paths of its own list.             *)
(***************************************************************************)
THEOREM PublishTheorem == Spec => []PublishedIsWhole
  <1>1. AInv => PublishedIsWhole
    <2> SUFFICES ASSUME AInv, pc = "published", branch # NONE, on = validated
                 PROVE  Current(branch.tree)
      BY DEF PublishedIsWhole
    <2>1. job = "publish"
      BY TypeParts DEF AInv, CandidateInv, JobType
    <2>2. branch.tree = tree /\ Current(tree)
      BY <2>1 DEF AInv, PublishInv, TreeInv, Complete, Applied
    <2> QED
      BY <2>2
  <1> QED
    BY <1>1, Invariant, PTL
===============================================================================
