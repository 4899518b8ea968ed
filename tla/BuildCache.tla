----------------------------- MODULE BuildCache ------------------------------
(***************************************************************************)
(* The shared ModSecurity build of prepare-runtime-components.py           *)
(* (prepare_shared_modsecurity): preparers with the same inputs, hence the *)
(* same cache key, build into staging and publish two entries, the prefix  *)
(* and the build root, each with a marker in the registry; the build root  *)
(* also holds the manifest that says the pair is complete.  The build lock *)
(* covers the build, but the check of the build root before it and the     *)
(* manifests of a timeout or of an exception after it are written outside. *)
(***************************************************************************)
EXTENDS Naturals

CONSTANTS Procs, NONE,
          MaxFails, \* failures: source, dependency, build, lock timeout
          MaxKills, \* preparers killed
          MaxRuns,  \* runs of each preparer
          Lost      \* markers that may be lost before the first run

ASSUME BuildConstants ==
  /\ NONE \notin Procs /\ Lost \subseteq {"build", "prefix"}
  /\ MaxFails \in Nat /\ MaxKills \in Nat /\ MaxRuns \in Nat

VARIABLES
  tree,     \* each published entry: "none", "torn" or "whole"
  mark,     \* its registry marker: "none", "open" or "complete"
  manifest, \* manifest.json in the build root: "none", "other" or "complete"
  guard,    \* entries whose publication lock exists
  lock,     \* holder of the build lock
  pc,       \* step of each preparer
  at,       \* entry it removes or publishes; "orphan" is a prefix without a marker
  staged,   \* entries it holds in staging
  result,   \* its record: "none", "reused", "built", "blocked", "failed", "killed"
  runs, fails, kills

vars == <<tree, mark, manifest, guard, lock, pc, at, staged, result, runs, fails, kills>>
entries == <<tree, mark, manifest>>
own == <<at, staged, result, runs>>

Entries == {"build", "prefix"}

Goto(p, step) == pc' = [pc EXCEPT ![p] = step]
Record(p, r) == result' = [result EXCEPT ![p] = r]
Fails == fails < MaxFails /\ fails' = fails + 1

\* write_cache_manifest makes the build root when it is not there.
WriteManifest(status) ==
  /\ manifest' = status
  /\ tree' = [tree EXCEPT !["build"] = IF @ = "none" THEN "torn" ELSE @]

\* Neither a marker nor the complete manifest speaks for the entry.
Unowned(e) == tree[e] # "none" /\ mark[e] = "none" /\ manifest # "complete"

-----------------------------------------------------------------------------
(* Before the lock: prepare_modsecurity_build_root *)

\* A build root without a marker may be removed when its manifest owns it.
CheckRoot(p) ==
  /\ pc[p] = "root"
  /\ IF tree["build"] = "none" \/ mark["build"] # "none"
     THEN Goto(p, "claim") /\ UNCHANGED <<at, result>>
     ELSE IF manifest = "complete"
     THEN Goto(p, "clear") /\ at' = [at EXCEPT ![p] = "build"] /\ UNCHANGED result
     ELSE Goto(p, "done") /\ Record(p, "blocked") /\ UNCHANGED at
  /\ UNCHANGED <<entries, guard, lock, staged, runs, fails, kills>>

\* safe_remove_dir without the lock.  A torn build root has lost any part; an
\* entry that nothing owns any more is an error nobody catches.
ClearRoot(p) ==
  /\ pc[p] = "clear"
  /\ CASE tree["build"] = "none" -> Goto(p, "claim") /\ UNCHANGED <<tree, manifest, result>>
       [] Unowned("build") -> Goto(p, "done") /\ Record(p, "failed") /\ UNCHANGED <<tree, manifest>>
       [] OTHER -> /\ tree' = [tree EXCEPT !["build"] = "torn"]
                   /\ manifest' \in {manifest, "none"}
                   /\ Goto(p, "cleared") /\ UNCHANGED result
  /\ UNCHANGED <<mark, guard, lock, at, staged, runs, fails, kills>>

ClearedRoot(p) ==
  /\ pc[p] = "cleared"
  /\ tree' = [tree EXCEPT !["build"] = "none"] /\ manifest' = "none"
  /\ mark' = [mark EXCEPT !["build"] = "none"]
  /\ Goto(p, "claim")
  /\ UNCHANGED <<guard, lock, own, fails, kills>>

\* mark_managed_cache_entry reads first and writes later.
ClaimRoot(p) ==
  /\ pc[p] = "claim"
  /\ CASE mark["build"] # "none" -> Goto(p, "source") /\ UNCHANGED result
       [] mark["build"] = "none" /\ tree["build"] = "none" -> Goto(p, "open") /\ UNCHANGED result
       [] OTHER -> Goto(p, "done") /\ Record(p, "blocked")
  /\ UNCHANGED <<entries, guard, lock, at, staged, runs, fails, kills>>

OpenMarker(p) ==
  /\ pc[p] = "open"
  /\ mark' = [mark EXCEPT !["build"] = "open"]
  /\ Goto(p, "source")
  /\ UNCHANGED <<tree, manifest, guard, lock, own, fails, kills>>

\* A source that is not present is recorded in the manifest, without the lock.
SourceReady(p) ==
  /\ pc[p] = "source" /\ Goto(p, "lock")
  /\ UNCHANGED <<entries, guard, lock, own, fails, kills>>

SourceMissing(p) ==
  /\ pc[p] = "source" /\ Fails
  /\ WriteManifest("other") /\ Record(p, "blocked") /\ Goto(p, "done")
  /\ UNCHANGED <<mark, guard, lock, at, staged, runs, kills>>

-----------------------------------------------------------------------------
(* Under the lock: build_shared_modsecurity_cache *)

\* Deliberately wrong: the lock is entered whoever holds it.
AcquireAlways(p) ==
  /\ pc[p] = "lock" /\ lock' = p /\ Goto(p, "ready")
  /\ UNCHANGED <<entries, guard, own, fails, kills>>

Acquire(p) ==
  /\ pc[p] = "lock" /\ lock = NONE /\ lock' = p /\ Goto(p, "ready")
  /\ UNCHANGED <<entries, guard, own, fails, kills>>

\* The timeout is recorded in the manifest of whoever holds the lock.
LockTimeout(p) ==
  /\ pc[p] = "lock" /\ lock # NONE /\ Fails
  /\ WriteManifest("other") /\ Record(p, "blocked") /\ Goto(p, "done")
  /\ UNCHANGED <<mark, guard, lock, at, staged, runs, kills>>

\* Manifest and markers are complete.  modsecurity_ready looks at the library
\* and the public headers only, so a torn prefix may pass it.
Ready ==
  /\ tree["prefix"] # "none" /\ manifest = "complete"
  /\ \A e \in Entries : mark[e] = "complete"

CacheHit(p) ==
  /\ pc[p] = "ready" /\ Ready
  /\ Record(p, "reused") /\ Goto(p, "unlock")
  /\ UNCHANGED <<entries, guard, lock, at, staged, runs, fails, kills>>

MissingDependency(p) ==
  /\ pc[p] = "ready" /\ ~Ready /\ Fails
  /\ WriteManifest("other") /\ Record(p, "blocked") /\ Goto(p, "unlock")
  /\ UNCHANGED <<mark, guard, lock, at, staged, runs, kills>>

\* Both entries go, the build root first, unless the prefix has lost its marker
\* and the manifest is what allows its removal; an unowned entry blocks.
Discard(p) ==
  /\ pc[p] = "ready" /\ (~Ready \/ tree["prefix"] = "torn")
  /\ IF \E e \in Entries : Unowned(e)
     THEN Record(p, "blocked") /\ Goto(p, "unlock") /\ UNCHANGED at
     ELSE /\ at' = [at EXCEPT ![p] = IF tree["prefix"] # "none" /\ mark["prefix"] = "none"
                                    THEN "orphan" ELSE "build"]
          /\ Goto(p, "remove") /\ UNCHANGED result
  /\ UNCHANGED <<entries, guard, lock, staged, runs, fails, kills>>

Entry(p) == IF at[p] = "build" THEN "build" ELSE "prefix"

Removed(p) ==
  /\ at' = [at EXCEPT ![p] = IF @ = "orphan" THEN "build" ELSE "prefix"]
  /\ Goto(p, IF at[p] = "prefix" THEN "stage" ELSE "remove")

\* safe_remove_dir: nothing to do without a directory, not even for the marker.
RemoveTree(p) ==
  /\ pc[p] = "remove"
  /\ LET e == Entry(p) IN
     CASE tree[e] = "none" -> Removed(p) /\ UNCHANGED <<tree, manifest>>
       [] Unowned(e) -> Goto(p, "raise") /\ UNCHANGED <<tree, manifest, at>>
       [] OTHER -> /\ tree' = [tree EXCEPT ![e] = "torn"]
                   /\ manifest' \in {manifest, IF e = "build" THEN "none" ELSE manifest}
                   /\ Goto(p, "removed") /\ UNCHANGED at
  /\ UNCHANGED <<mark, guard, lock, staged, result, runs, fails, kills>>

RemoveRest(p) ==
  /\ pc[p] = "removed"
  /\ tree' = [tree EXCEPT ![Entry(p)] = "none"]
  /\ manifest' = IF at[p] = "build" THEN "none" ELSE manifest
  /\ Goto(p, "unmark")
  /\ UNCHANGED <<mark, guard, lock, own, fails, kills>>

RemoveMarker(p) ==
  /\ pc[p] = "unmark"
  /\ mark' = [mark EXCEPT ![Entry(p)] = "none"]
  /\ Removed(p)
  /\ UNCHANGED <<tree, manifest, guard, lock, staged, result, runs, fails, kills>>

\* The build runs in staging.  A command that fails is a record, an error is
\* raised, and both entries are complete before either is published.
Build(p) ==
  /\ pc[p] = "stage"
  /\ \/ /\ staged' = [staged EXCEPT ![p] = Entries]
        /\ at' = [at EXCEPT ![p] = "prefix"] /\ Goto(p, "exists")
        /\ UNCHANGED <<result, fails>>
     \/ Fails /\ Record(p, "failed") /\ Goto(p, "unlock") /\ UNCHANGED <<staged, at>>
     \/ Fails /\ Goto(p, "raise") /\ UNCHANGED <<staged, at, result>>
  /\ UNCHANGED <<entries, guard, lock, runs, kills>>

-----------------------------------------------------------------------------
(* atomic_publish_dir, for the prefix and then for the build root *)

DestinationFree(p) ==
  /\ pc[p] = "exists"
  /\ Goto(p, IF tree[at[p]] = "none" THEN "guard" ELSE "raise")
  /\ UNCHANGED <<entries, guard, lock, own, fails, kills>>

\* Deliberately wrong: a busy guard is waited for.
TakeGuardWaits(p) ==
  /\ pc[p] = "guard" /\ at[p] \notin guard
  /\ guard' = guard \cup {at[p]} /\ Goto(p, "mark")
  /\ UNCHANGED <<entries, lock, own, fails, kills>>

TakeGuard(p) ==
  /\ pc[p] = "guard"
  /\ IF at[p] \in guard THEN Goto(p, "raise") /\ UNCHANGED guard
     ELSE guard' = guard \cup {at[p]} /\ Goto(p, "mark")
  /\ UNCHANGED <<entries, lock, own, fails, kills>>

\* An error inside the guard removes the marker of the destination.
MarkFinal(p) ==
  /\ pc[p] = "mark"
  /\ IF tree[at[p]] = "none"
     THEN mark' = [mark EXCEPT ![at[p]] = "complete"] /\ Goto(p, "rename") /\ UNCHANGED guard
     ELSE /\ mark' = [mark EXCEPT ![at[p]] = "none"] /\ guard' = guard \ {at[p]}
          /\ Goto(p, "raise")
  /\ UNCHANGED <<tree, manifest, lock, own, fails, kills>>

\* The rename brings the manifest with the build root.
Rename(p) ==
  /\ pc[p] = "rename"
  /\ IF tree[at[p]] = "none"
     THEN /\ tree' = [tree EXCEPT ![at[p]] = "whole"]
          /\ manifest' = IF at[p] = "build" THEN "complete" ELSE manifest
          /\ staged' = [staged EXCEPT ![p] = @ \ {at[p]}]
          /\ Goto(p, "unguard") /\ UNCHANGED <<mark, guard>>
     ELSE /\ mark' = [mark EXCEPT ![at[p]] = "none"] /\ guard' = guard \ {at[p]}
          /\ Goto(p, "raise") /\ UNCHANGED <<tree, manifest, staged>>
  /\ UNCHANGED <<lock, at, result, runs, fails, kills>>

ReleaseGuard(p) ==
  /\ pc[p] = "unguard" /\ guard' = guard \ {at[p]}
  /\ IF at[p] = "prefix"
     THEN at' = [at EXCEPT ![p] = "build"] /\ Goto(p, "exists") /\ UNCHANGED result
     ELSE Record(p, "built") /\ Goto(p, "publish") /\ UNCHANGED at
  /\ UNCHANGED <<entries, lock, staged, runs, fails, kills>>

\* The record of the build replaces the manifest that came with the rename.
FinalManifest(p) ==
  /\ pc[p] = "publish" /\ WriteManifest("complete") /\ Goto(p, "unlock")
  /\ UNCHANGED <<mark, guard, lock, own, fails, kills>>

-----------------------------------------------------------------------------
(* The end of a run *)

\* An error leaves the lock first; the handler writes the manifest afterwards.
Raise(p) ==
  /\ pc[p] = "raise" /\ lock' = NONE
  /\ Record(p, "failed") /\ Goto(p, "report")
  /\ UNCHANGED <<entries, guard, at, staged, runs, fails, kills>>

Report(p) ==
  /\ pc[p] = "report" /\ WriteManifest("other")
  /\ staged' = [staged EXCEPT ![p] = {}] /\ Goto(p, "done")
  /\ UNCHANGED <<mark, guard, lock, at, result, runs, fails, kills>>

Unlock(p) ==
  /\ pc[p] = "unlock" /\ lock' = NONE
  /\ staged' = [staged EXCEPT ![p] = {}] /\ Goto(p, "done")
  /\ UNCHANGED <<entries, guard, at, result, runs, fails, kills>>

Restart(p) ==
  /\ pc[p] = "done" /\ runs[p] < MaxRuns
  /\ runs' = [runs EXCEPT ![p] = @ + 1] /\ staged' = [staged EXCEPT ![p] = {}]
  /\ Record(p, "none") /\ Goto(p, "root")
  /\ UNCHANGED <<entries, guard, lock, at, fails, kills>>

Kill(p) ==
  /\ pc[p] # "done" /\ kills < MaxKills /\ kills' = kills + 1
  /\ lock' = IF lock = p THEN NONE ELSE lock
  /\ Record(p, "killed") /\ Goto(p, "done")
  /\ UNCHANGED <<entries, guard, at, staged, runs, fails>>

Step(p) ==
  \/ CheckRoot(p) \/ ClearRoot(p) \/ ClearedRoot(p) \/ ClaimRoot(p) \/ OpenMarker(p)
  \/ SourceReady(p) \/ SourceMissing(p) \/ Acquire(p) \/ LockTimeout(p) \/ CacheHit(p)
  \/ MissingDependency(p) \/ Discard(p) \/ RemoveTree(p) \/ RemoveRest(p)
  \/ RemoveMarker(p) \/ Build(p) \/ DestinationFree(p) \/ TakeGuard(p) \/ MarkFinal(p)
  \/ Rename(p) \/ ReleaseGuard(p) \/ FinalManifest(p) \/ Raise(p) \/ Report(p) \/ Unlock(p)

\* An empty cache, or a published pair of which some markers are lost.
Init ==
  /\ \/ /\ tree = [e \in Entries |-> "none"] /\ mark = [e \in Entries |-> "none"]
        /\ manifest = "none"
     \/ \E gone \in SUBSET Lost :
          /\ tree = [e \in Entries |-> "whole"] /\ manifest = "complete"
          /\ mark = [e \in Entries |-> IF e \in gone THEN "none" ELSE "complete"]
  /\ guard = {} /\ lock = NONE
  /\ pc = [p \in Procs |-> "root"] /\ at = [p \in Procs |-> "build"]
  /\ staged = [p \in Procs |-> {}] /\ result = [p \in Procs |-> "none"]
  /\ runs = [p \in Procs |-> 1] /\ fails = 0 /\ kills = 0

Next == \E p \in Procs : Step(p) \/ Restart(p) \/ Kill(p)

\* A preparer that is not killed keeps running.
Spec == Init /\ [][Next]_vars /\ \A p \in Procs : WF_vars(Step(p))

-----------------------------------------------------------------------------
(* Properties *)

Steps == {"root", "clear", "cleared", "claim", "open", "source", "lock", "ready",
          "remove", "removed", "unmark", "stage", "exists", "guard", "mark", "rename",
          "unguard", "publish", "raise", "report", "unlock", "done"}

TypeOK ==
  /\ tree \in [Entries -> {"none", "torn", "whole"}]
  /\ mark \in [Entries -> {"none", "open", "complete"}]
  /\ manifest \in {"none", "other", "complete"}
  /\ guard \subseteq Entries /\ lock \in Procs \cup {NONE}
  /\ pc \in [Procs -> Steps] /\ at \in [Procs -> Entries \cup {"orphan"}]
  /\ staged \in [Procs -> SUBSET Entries]
  /\ result \in [Procs -> {"none", "reused", "built", "blocked", "failed", "killed"}]
  /\ runs \in [Procs -> Nat] /\ fails \in Nat /\ kills \in Nat

\* The prefix a preparer hands on as reused or built is whole when it leaves
\* the lock.  The check of the library and the headers cannot tell a prefix
\* that a killed peer has half removed: the manifest and the markers have to.
ServedPrefixWhole ==
  \A p \in Procs : pc[p] = "unlock" /\ result[p] \in {"reused", "built"} => tree["prefix"] = "whole"

\* What build_shared_modsecurity_cache hands on can be used.
BuildSound == TypeOK /\ ServedPrefixWhole

\* A published prefix stays while preparers neither fail nor die: as
\* atomic_publish_dir says, an entry is published "without replacing a valid
\* peer entry".
ValidEntryStays == [][tree["prefix"] = "whole" => tree'["prefix"] = "whole"]_vars

\* What a build that ends with an error leaves can be removed by the next run
\* (mark_managed_cache_entry: "callers must remove that entry and build a newly
\* marked staging entry").
InterruptedIsRemovable == ~(tree["build"] # "none" /\ mark["build"] = "none" /\ manifest = "other")

\* Every preparer ends, in whatever state the others have left the cache.
EveryRunEnds == \A p \in Procs : pc[p] = "root" ~> pc[p] = "done"
=============================================================================
