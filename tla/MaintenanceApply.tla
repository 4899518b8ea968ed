--------------------------- MODULE MaintenanceApply ---------------------------
(***************************************************************************)
(* Canonical maintenance (ci/tools/canonical_maintenance.py) inside its    *)
(* workflow (check-common-versions.yml): a plan of safe updates is resolved*)
(* once, then applied in a checkout of its own by the candidate job and    *)
(* again by the publisher, which opens or updates one Draft PR.  Applying  *)
(* is a transaction: common.sh is written, six generators bring the views  *)
(* in line one file after the other, and any failure rolls the checkout    *)
(* back.  The default branch may move between the jobs.                    *)
(*                                                                         *)
(* A file's content is the set of updated pins it reflects.                *)
(***************************************************************************)
EXTENDS Naturals, Sequences

CONSTANTS Pins, Paths, Common, NONE,
          Order,     \* generated files in the order in which they are written
          Generator, \* the generator of each
          Shows,     \* pins of common.sh that a generated file shows
          Reads,     \* generated files that it is computed from
          Allowed,   \* ALLOWED_AUTOMATIC_PATHS
          Published, \* paths of the workflow's own allowlist and of the PR
          MaxRuns, MaxPushes, MaxFaults

Trees == [Paths -> SUBSET Pins]

ASSUME MaintenanceConstants ==
  /\ Common \in Allowed /\ Allowed \subseteq Paths /\ Published \subseteq Paths
  /\ Order \in Seq(Paths \ {Common})
  /\ Shows \in [Paths \ {Common} -> SUBSET Pins]
  /\ Reads \in [Paths \ {Common} -> SUBSET (Paths \ {Common})]
  /\ MaxRuns \in Nat /\ MaxPushes \in Nat /\ MaxFaults \in Nat

VARIABLES
  base, tip,   \* the default branch: its files, its commit
  pr, branch,  \* the Draft PR is open; its branch [on, tree], or NONE
  plan,        \* [source, update, outcome] of this run
  job,         \* "candidate" or "publish"
  pc,
  head, on,    \* files and commit that the job has checked out
  tree, snap,  \* its worktree, the snapshot of the allowed files
  at, blocked, \* next file to generate; a generator has failed
  todo,        \* files to restore
  validated,   \* the commit that the candidate job has validated
  runs, pushes, faults

vars == <<base, tip, pr, branch, plan, job, pc, head, on, tree, snap, at, blocked, todo, validated, runs, pushes, faults>>
Remote == <<base, tip, pr, branch, pushes>>
Job == <<plan, job, head, on, validated, runs>>

Files == {Order[i] : i \in 1 .. Len(Order)}

\* What the generator of p makes of the worktree t.
Rendered(t, p) == (t[Common] \cap Shows[p]) \cup UNION {t[q] : q \in Reads[p]}
Current(t) == \A p \in Files : t[p] = Rendered(t, p)

Changed == {p \in Paths : tree[p] # head[p]}
Ended == {"idle", "failed", "dirty", "rejected", "published"}
Fault == faults < MaxFaults /\ faults' = faults + 1

-----------------------------------------------------------------------------
(* The plan. *)

Outcome(found, update) ==
  CASE "blocked" \in found -> "fatal"
    [] "blocked" \notin found /\ update # {} ->
         IF "manual" \in found THEN "safe_updates_with_manual_review" ELSE "safe_updates"
    [] OTHER -> IF "manual" \in found THEN "manual_review_only" ELSE "no_updates"

Safe == {"safe_updates", "safe_updates_with_manual_review"}

\* Every component is looked up; views that have drifted block the plan.
Resolve(status) ==
  /\ pc \in Ended /\ runs < MaxRuns /\ runs' = runs + 1
  /\ \A c \in Pins : status[c] = "outdated" => c \notin base[Common]
  /\ LET found == {status[c] : c \in Pins} \cup (IF Current(base) THEN {} ELSE {"blocked"})
         update == {c \in Pins : status[c] = "outdated"}
         outcome == Outcome(found, update)
     IN /\ plan' = [source |-> base[Common], update |-> update, status |-> status, outcome |-> outcome]
        /\ pc' = IF outcome \in Safe THEN "ready" ELSE "idle"
  /\ job' = "candidate" /\ validated' = NONE
  /\ UNCHANGED <<Remote, head, on, tree, snap, at, blocked, todo, faults>>

-----------------------------------------------------------------------------
(* apply_safe_updates *)

Checkout ==
  /\ pc = "ready" /\ pc' = "begin" /\ head' = base /\ on' = tip /\ tree' = base
  /\ snap' = NONE /\ at' = 1 /\ blocked' = FALSE /\ todo' = {}
  /\ UNCHANGED <<Remote, plan, job, validated, runs, faults>>

\* The checkout is clean; the snapshot is taken before the transaction.
Begin ==
  /\ pc = "begin" /\ snap' = [p \in Allowed |-> tree[p]]
  /\ pc' = IF tree[Common] = plan.source THEN "write" ELSE "rollback"
  /\ UNCHANGED <<Remote, Job, tree, at, blocked, todo, faults>>

\* Deliberately wrong: the snapshot is taken when common.sh has been written.
WriteThenSnapshot ==
  /\ pc = "write" /\ tree' = [tree EXCEPT ![Common] = @ \cup plan.update]
  /\ snap' = [p \in Allowed |-> tree'[p]] /\ pc' = "sync" /\ UNCHANGED faults
  /\ UNCHANGED <<Remote, Job, at, blocked, todo>>

\* The replacement is atomic; the result has the digest of the plan.
WriteCommon ==
  /\ pc = "write"
  /\ \/ tree' = [tree EXCEPT ![Common] = @ \cup plan.update] /\ pc' = "sync" /\ UNCHANGED faults
     \/ Fault /\ pc' = "rollback" /\ UNCHANGED tree
  /\ UNCHANGED <<Remote, Job, snap, at, blocked, todo>>

\* First file of the next generator.
NextGenerator ==
  CHOOSE i \in at .. Len(Order) + 1 :
    /\ i = Len(Order) + 1 \/ Generator[Order[i]] # Generator[Order[at]]
    /\ \A j \in at .. i - 1 : Generator[Order[j]] = Generator[Order[at]]

\* A generator that fails leaves its remaining files; the others run all the same.
SyncPath ==
  /\ pc = "sync" /\ at <= Len(Order)
  /\ \/ tree' = [tree EXCEPT ![Order[at]] = Rendered(tree, Order[at])]
        /\ at' = at + 1 /\ UNCHANGED <<blocked, faults>>
     \/ Fault /\ blocked' = TRUE /\ at' = NextGenerator /\ UNCHANGED tree
  /\ UNCHANGED <<Remote, Job, pc, snap, todo>>

\* All generators have succeeded, and a second pass that only checks finds nothing.
Synced ==
  /\ pc = "sync" /\ at > Len(Order)
  /\ \/ pc' = (IF ~blocked /\ Current(tree) THEN "diff" ELSE "rollback") /\ UNCHANGED faults
     \/ Fault /\ pc' = "rollback"
  /\ UNCHANGED <<Remote, Job, tree, snap, at, blocked, todo>>

Diff ==
  /\ pc = "diff" /\ pc' = IF Changed \subseteq Allowed THEN "applied" ELSE "rollback"
  /\ UNCHANGED <<Remote, Job, tree, snap, at, blocked, todo, faults>>

\* A change outside the allowlist ends the rollback before anything is restored.
Rollback ==
  /\ pc = "rollback" /\ todo' = Changed
  /\ pc' = IF Changed \subseteq Allowed THEN "restore" ELSE "dirty"
  /\ UNCHANGED <<Remote, Job, tree, snap, at, blocked, faults>>

Restore(p) ==
  /\ pc = "restore" /\ p \in todo
  /\ \/ tree' = [tree EXCEPT ![p] = snap[p]] /\ todo' = todo \ {p} /\ UNCHANGED <<pc, faults>>
     \/ Fault /\ pc' = "dirty" /\ UNCHANGED <<tree, todo>>
  /\ UNCHANGED <<Remote, Job, snap, at, blocked>>

Restored ==
  /\ pc = "restore" /\ todo = {} /\ pc' = "failed"
  /\ UNCHANGED <<Remote, Job, tree, snap, at, blocked, todo, faults>>

-----------------------------------------------------------------------------
(* The jobs around it *)

\* The candidate's own path policy and controls.
Validate ==
  /\ pc = "applied" /\ job = "candidate"
  /\ \/ Changed \subseteq Published /\ pc' = "ready" /\ job' = "publish" /\ validated' = on /\ UNCHANGED faults
     \/ ~(Changed \subseteq Published) /\ pc' = "rejected" /\ UNCHANGED <<job, validated, faults>>
     \/ Fault /\ pc' = "rejected" /\ UNCHANGED <<job, validated>>
  /\ UNCHANGED <<Remote, plan, head, on, tree, snap, at, blocked, todo, runs>>

\* Neither branch nor PR, or one open PR whose branch is ahead of the default
\* branch and changes only published paths.
Inspect ==
  /\ pc = "applied" /\ job = "publish"
  /\ pc' = IF \/ branch = NONE /\ ~pr
              \/ /\ branch # NONE /\ pr /\ branch.on = tip
                 /\ {p \in Paths : branch.tree[p] # base[p]} \subseteq Published
           THEN "create" ELSE "rejected"
  /\ UNCHANGED <<Remote, Job, tree, snap, at, blocked, todo, faults>>

\* Deliberately wrong: common.sh is missing in the list of committed paths.
CreateViews ==
  /\ pc = "create" /\ pc' = "published" /\ pr' = TRUE
  /\ branch' = [on |-> on, tree |-> [tree EXCEPT ![Common] = head[Common]]]
  /\ UNCHANGED <<base, tip, pushes, Job, tree, snap, at, blocked, todo, faults>>

\* Only the listed paths are committed.
Create ==
  /\ pc = "create" /\ pc' = "published" /\ pr' = TRUE
  /\ branch' = [on |-> on, tree |-> [p \in Paths |-> IF p \in Published THEN tree[p] ELSE head[p]]]
  /\ UNCHANGED <<base, tip, pushes, Job, tree, snap, at, blocked, todo, faults>>

\* A job is cancelled, times out, or the reconciler's job has failed.
JobEnds ==
  /\ pc \notin Ended /\ Fault /\ pc' = "rejected"
  /\ UNCHANGED <<Remote, Job, tree, snap, at, blocked, todo>>

\* A commit to the default branch, with or without the views that go with it.
Push(p, s) ==
  /\ pushes < MaxPushes /\ pushes' = pushes + 1 /\ base[p] # s
  /\ base' = [base EXCEPT ![p] = s] /\ tip' = tip + 1
  /\ UNCHANGED <<pr, branch, Job, pc, tree, snap, at, blocked, todo, faults>>

\* A maintainer merges the PR; the branch may stay behind (delete-branch: false).
Merge(keep) ==
  /\ pr /\ branch.on = tip /\ pushes < MaxPushes /\ pushes' = pushes + 1
  /\ base' = branch.tree /\ tip' = tip + 1 /\ pr' = FALSE
  /\ branch' = IF keep THEN branch ELSE NONE
  /\ UNCHANGED <<Job, pc, tree, snap, at, blocked, todo, faults>>

Step ==
  \/ Checkout \/ Begin \/ WriteCommon \/ SyncPath \/ Synced \/ Diff \/ Rollback
  \/ (\E p \in Paths : Restore(p)) \/ Restored \/ Validate \/ Inspect \/ Create

Next ==
  \/ \E status \in [Pins -> {"current", "outdated", "manual", "blocked"}] : Resolve(status)
  \/ Step \/ JobEnds
  \/ \E p \in Paths, s \in SUBSET Pins : Push(p, s)
  \/ \E keep \in BOOLEAN : Merge(keep)

Init ==
  /\ base = [p \in Paths |-> {}] /\ tip = 0 /\ pr = FALSE /\ branch = NONE
  /\ plan = NONE /\ job = "candidate" /\ pc = "idle" /\ head = base /\ on = 0 /\ tree = base
  /\ snap = NONE /\ at = 1 /\ blocked = FALSE /\ todo = {} /\ validated = NONE
  /\ runs = 0 /\ pushes = 0 /\ faults = 0

Spec == Init /\ [][Next]_vars

-----------------------------------------------------------------------------
(* Properties *)

TypeOK ==
  /\ {base, head, tree} \subseteq Trees /\ tip \in Nat /\ on \in Nat
  /\ pr \in BOOLEAN /\ blocked \in BOOLEAN /\ job \in {"candidate", "publish"}
  /\ branch = NONE \/ branch \in [on : Nat, tree : Trees]
  /\ snap = NONE \/ snap \in [Allowed -> SUBSET Pins]
  /\ at \in 1 .. Len(Order) + 1 /\ todo \subseteq Paths /\ validated \in Nat \cup {NONE}
  /\ pc \in Ended \cup {"ready", "begin", "write", "sync", "diff", "rollback", "restore", "applied", "create"}

\* A transaction that fails without reporting that its rollback failed leaves
\* the checkout as it was, whatever generator failed at whatever file.
FailedMeansRestored == pc = "failed" => tree = head

\* What is applied is the plan, all of it and nothing else: the pins that were
\* looked up, in files that are all current, inside the allowlist, with no
\* component blocked.
AppliedIsThePlan ==
  pc \in {"applied", "create", "published"} =>
    /\ tree[Common] = plan.source \cup plan.update
    /\ Current(tree) /\ Changed \subseteq Allowed
    /\ \A c \in Pins : plan.status[c] # "blocked"

\* apply_safe_updates is all or nothing: a plan that is applied is applied in
\* full, and one that fails and says it has rolled back has.
ApplySound == TypeOK /\ FailedMeansRestored /\ AppliedIsThePlan

\* When the default branch has not moved since the candidate was validated, the
\* published branch is whole: common.sh and every view in it agree, although
\* the job writes more files than the PR has in its list.
PublishedIsWhole ==
  pc = "published" /\ branch # NONE /\ on = validated => Current(branch.tree)

\* "restores them with its existing transaction rollback on failure"
\* (docs/security/ci-security-tooling.md): a failed transaction in which every
\* restore succeeded leaves the allowed files as they were.
RestoredOnFailure ==
  pc \in {"failed", "dirty"} /\ faults = 0 => \A p \in Allowed : tree[p] = head[p]

\* "A trusted-default-branch drift during publisher revalidation also fails
\* closed" (docs/github-actions-workflow-security.md).
DriftFailsClosed == pc = "published" => on = validated
===============================================================================
