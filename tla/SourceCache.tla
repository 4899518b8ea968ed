----------------------------- MODULE SourceCache -----------------------------
(***************************************************************************)
(* The cache of Git sources of provisioning/components/                    *)
(* prepare-runtime-components.py: preparers running at the same time bring *)
(* one published checkout to the commit their ref resolves to.  A preparer *)
(* works under a lock of its ref, clones into a staging directory of its   *)
(* own and renames it into place; a registry marker beside the checkout    *)
(* says which identity (ref, commit) it has.  Any preparer can be killed.  *)
(***************************************************************************)
EXTENDS Naturals, FiniteSets

CONSTANTS Procs, Refs, Commits, NONE,
          Want,     \* the ref each preparer asks for
          MaxMoves, \* times the remote moves a ref
          MaxFails, \* git commands and removals that fail
          MaxKills, \* preparers killed
          Killable, \* steps at which they can be
          MaxRuns   \* runs of each preparer

ASSUME SourceConstants ==
  /\ Want \in [Procs -> Refs] /\ Commits # {}
  /\ NONE \notin Procs \cup Commits \cup [ref : Refs, commit : Commits]
                \cup [commit : Commits, torn : {"no", "hidden", "shown"}]
  /\ MaxMoves \in Nat /\ MaxFails \in Nat /\ MaxKills \in Nat /\ MaxRuns \in Nat

VARIABLES
  remote,  \* the commit each ref has at the origin
  tree,    \* the checkout at the published path, or NONE; a removal may have
           \* torn it, inside a submodule ("hidden" from the status of the
           \* checkout when its .git file is gone) or elsewhere ("shown" there)
  marker,  \* its registry marker, or NONE
  publock, \* the directory that guards the rename exists
  lock,    \* holder of each ref's build lock
  saved,   \* the record in the root manifest, or NONE
  pc,      \* step of each preparer
  seen,    \* the record it has read
  staging, \* its staging directory: NONE, or the commit checked out there
  head,    \* the commit its record names
  result,  \* "none", "present", "blocked" or "killed"
  had,     \* history: the commits its ref has had since it took the lock
  runs, moves, fails, kills

vars == <<remote, tree, marker, publock, lock, saved, pc, seen, staging, head,
          result, had, runs, moves, fails, kills>>
shared == <<remote, tree, marker, publock, lock, saved>>
own == <<seen, staging, head, result, had, runs>>
counters == <<moves, fails, kills>>

Ids == [ref : Refs, commit : Commits]
Id(p) == [ref |-> Want[p], commit |-> head[p]]
Whole(c) == [commit |-> c, torn |-> "no"]

Goto(p, step) == pc' = [pc EXCEPT ![p] = step]
Ends(p, r, step) == Goto(p, step) /\ result' = [result EXCEPT ![p] = r]

\* Any error ends in the finally clause with a blocked record.
Blocked(p) == Ends(p, "blocked", "cleanup")

\* git_checkout_is_reusable: a complete marker of this identity, the commit at
\* HEAD and a clean status, which does not show what a submodule has lost.
Reusable(id) ==
  marker = id /\ tree # NONE /\ tree.commit = id.commit /\ tree.torn # "shown"

\* A command that fails, if another one can.
CommandFails == fails < MaxFails /\ fails' = fails + 1

-----------------------------------------------------------------------------
(* The preparation of one checkout *)

\* main reads the records of the root manifest before it takes any lock.
ReadPrevious(p) ==
  /\ pc[p] = "start"
  /\ seen' = [seen EXCEPT ![p] = saved]
  /\ Goto(p, "lock")
  /\ UNCHANGED <<shared, staging, head, result, had, runs, counters>>

Acquire(p) ==
  /\ pc[p] = "lock" /\ lock[Want[p]] = NONE
  /\ lock' = [lock EXCEPT ![Want[p]] = p]
  /\ had' = [had EXCEPT ![p] = {remote[Want[p]]}]
  /\ Goto(p, "ask")
  /\ UNCHANGED <<remote, tree, marker, publock, saved, seen, staging, head, result, runs, counters>>

\* 900 seconds have passed.
LockTimeout(p) ==
  /\ pc[p] = "lock" /\ lock[Want[p]] # NONE
  /\ Ends(p, "blocked", "save")
  /\ UNCHANGED <<shared, seen, staging, head, had, runs, counters>>

\* The record it has read is one of its ref; the origin has the ref there.
HasRecord(p) == seen[p] # NONE /\ seen[p].ref = Want[p]
RecordCurrent(p) == HasRecord(p) /\ remote[Want[p]] = seen[p].commit

\* Deliberately wrong: the origin is not asked where the ref is.
LsRemoteNot(p) ==
  /\ pc[p] = "ask"
  /\ IF HasRecord(p) THEN Goto(p, "check") ELSE Goto(p, "clone")
  /\ UNCHANGED <<shared, own, counters>>

\* A record of this ref is compared with the answer of ls-remote; no record of
\* it, another commit or a failing ls-remote lead to a fresh clone.
LsRemote(p) ==
  /\ pc[p] = "ask"
  /\ \/ RecordCurrent(p) /\ Goto(p, "check") /\ UNCHANGED fails
     \/ ~RecordCurrent(p) /\ Goto(p, "clone") /\ UNCHANGED fails
     \/ HasRecord(p) /\ CommandFails /\ Goto(p, "clone")
  /\ UNCHANGED <<shared, own, moves, kills>>

\* The checkout in place, looked at with the identity of the record.
CheckLocal(p) ==
  /\ pc[p] = "check"
  /\ \/ Reusable(seen[p]) /\ Goto(p, "submodules") /\ UNCHANGED fails
     \/ ~Reusable(seen[p]) /\ Goto(p, "clone") /\ UNCHANGED fails
     \/ CommandFails /\ Goto(p, "clone")
  /\ UNCHANGED <<shared, own, moves, kills>>

SubmodulesClean == tree # NONE /\ tree.torn = "no"

\* The status of the submodules shows a lost one; a command that fails says
\* nothing, and nothing is taken for clean.
Reuse(p) ==
  /\ pc[p] = "submodules"
  /\ \/ SubmodulesClean /\ UNCHANGED fails
     \/ CommandFails
  /\ head' = [head EXCEPT ![p] = seen[p].commit]
  /\ Ends(p, "present", "cleanup")
  /\ UNCHANGED <<shared, seen, staging, had, runs, moves, kills>>

SubmoduleLost(p) ==
  /\ pc[p] = "submodules" /\ ~SubmodulesClean
  /\ Goto(p, "clone")
  /\ UNCHANGED <<shared, own, counters>>

\* A fresh clone in a staging directory (clone, fetch, detached checkout,
\* submodules, status, fsck).
CloneFresh(p) ==
  /\ pc[p] = "clone"
  /\ staging' = [staging EXCEPT ![p] = remote[Want[p]]]
  /\ head' = [head EXCEPT ![p] = remote[Want[p]]]
  /\ Goto(p, "again")
  /\ UNCHANGED <<shared, seen, result, had, runs, counters>>

CloneFails(p) ==
  /\ pc[p] = "clone" /\ CommandFails
  /\ staging' = [staging EXCEPT ![p] = CHOOSE c \in Commits : TRUE]
  /\ Blocked(p)
  /\ UNCHANGED <<shared, seen, head, had, runs, moves, kills>>

\* publish_fresh_git_checkout: the checkout in place may be the wanted one.
PresentAlready(p) ==
  /\ pc[p] = "again" /\ Reusable(Id(p))
  /\ Ends(p, "present", "cleanup")
  /\ UNCHANGED <<shared, seen, staging, head, had, runs, counters>>

\* It is not, or git has failed to tell.  What is in place must carry a marker
\* to be removed.
RemovalBlocker(p) ==
  /\ pc[p] = "again"
  /\ \/ ~Reusable(Id(p)) /\ UNCHANGED fails
     \/ CommandFails
  /\ CASE tree = NONE -> Goto(p, "exists") /\ UNCHANGED result
       [] tree # NONE /\ marker # NONE -> Goto(p, "rmtree") /\ UNCHANGED result
       [] OTHER -> Blocked(p)
  /\ UNCHANGED <<shared, seen, staging, head, had, runs, moves, kills>>

\* Deliberately wrong: the marker goes first.
RemoveMarkerFirst(p) ==
  /\ pc[p] = "rmtree" /\ tree # NONE /\ marker # NONE /\ marker' = NONE
  /\ tree' = [tree EXCEPT !.torn = "shown"] /\ Goto(p, "rmrest")
  /\ UNCHANGED <<remote, publock, lock, saved, own, counters>>

\* safe_remove_dir: the tree goes file by file, then the marker.  What goes
\* first may lie inside a submodule.
RemoveTree(p) ==
  /\ pc[p] = "rmtree"
  /\ CASE tree = NONE -> Goto(p, "exists") /\ UNCHANGED <<tree, result>>
       [] tree # NONE /\ marker = NONE -> Blocked(p) /\ UNCHANGED tree
       [] OTHER -> /\ \E t \in {"hidden", "shown"} :
                        /\ tree.torn = "shown" => t = "shown"
                        /\ tree' = [tree EXCEPT !.torn = t]
                   /\ Goto(p, "rmrest") /\ UNCHANGED result
  /\ UNCHANGED <<remote, marker, publock, lock, saved, seen, staging, head, had, runs, counters>>

\* A file that cannot be removed leaves the rest of the tree and the marker.
RemoveRest(p) ==
  /\ pc[p] = "rmrest"
  /\ \/ tree = NONE /\ Blocked(p) /\ UNCHANGED <<tree, fails>>
     \/ tree # NONE /\ CommandFails /\ Blocked(p) /\ UNCHANGED tree
     \/ tree # NONE /\ tree' = NONE /\ Goto(p, "rmmark") /\ UNCHANGED <<result, fails>>
  /\ UNCHANGED <<remote, marker, publock, lock, saved, seen, staging, head, had, runs, moves, kills>>

RemoveMarker(p) ==
  /\ pc[p] = "rmmark" /\ marker' = NONE /\ Goto(p, "exists")
  /\ UNCHANGED <<remote, tree, publock, lock, saved, own, counters>>

-----------------------------------------------------------------------------
(* atomic_publish_dir *)

\* The staging marker is completed for (ref, head); the destination is free.
DestinationFree(p) ==
  /\ pc[p] = "exists"
  /\ IF tree # NONE THEN Blocked(p) ELSE Goto(p, "guard") /\ UNCHANGED result
  /\ UNCHANGED <<shared, seen, staging, head, had, runs, counters>>

\* Deliberately wrong: a busy guard is waited for.
TakeGuardWaits(p) ==
  /\ pc[p] = "guard" /\ ~publock /\ publock' = TRUE /\ Goto(p, "mark")
  /\ UNCHANGED <<remote, tree, marker, lock, saved, own, counters>>

\* mkdir of the publication lock; one that is there is busy.
TakeGuard(p) ==
  /\ pc[p] = "guard"
  /\ IF publock THEN Blocked(p) /\ UNCHANGED publock
     ELSE publock' = TRUE /\ Goto(p, "mark") /\ UNCHANGED result
  /\ UNCHANGED <<remote, tree, marker, lock, saved, seen, staging, head, had, runs, counters>>

\* The marker of the final path is written before the rename; a destination
\* that has appeared is an error, and the error clause removes its marker.
MarkFinal(p) ==
  /\ pc[p] = "mark"
  /\ IF tree # NONE THEN marker' = NONE /\ Goto(p, "unguard_error")
     ELSE marker' = Id(p) /\ Goto(p, "rename")
  /\ UNCHANGED <<remote, tree, publock, lock, saved, own, counters>>

\* os.replace refuses a directory that is not empty.
Rename(p) ==
  /\ pc[p] = "rename"
  /\ IF tree # NONE
     THEN marker' = NONE /\ Goto(p, "unguard_error") /\ UNCHANGED <<tree, staging>>
     ELSE /\ tree' = Whole(staging[p]) /\ staging' = [staging EXCEPT ![p] = NONE]
          /\ Goto(p, "unguard") /\ UNCHANGED marker
  /\ UNCHANGED <<remote, publock, lock, saved, seen, head, result, had, runs, counters>>

ReleaseGuard(p) ==
  /\ pc[p] \in {"unguard", "unguard_error"} /\ publock' = FALSE
  /\ Ends(p, IF pc[p] = "unguard" THEN "present" ELSE "blocked", "cleanup")
  /\ UNCHANGED <<remote, tree, marker, lock, saved, seen, staging, head, had, runs, counters>>

-----------------------------------------------------------------------------
(* The end of a run *)

\* The finally clause removes the staging directory and the lock is released.
Cleanup(p) ==
  /\ pc[p] = "cleanup"
  /\ staging' = [staging EXCEPT ![p] = NONE]
  /\ lock' = [lock EXCEPT ![Want[p]] = NONE]
  /\ had' = [had EXCEPT ![p] = {}]
  /\ Goto(p, "save")
  /\ UNCHANGED <<remote, tree, marker, publock, saved, seen, head, result, runs, counters>>

\* The root manifest takes the records of this run, whoever wrote it last.
Save(p) ==
  /\ pc[p] = "save"
  /\ saved' = IF result[p] = "present" THEN Id(p) ELSE NONE
  /\ Goto(p, "done")
  /\ UNCHANGED <<remote, tree, marker, publock, lock, own, counters>>

Restart(p) ==
  /\ pc[p] = "done" /\ runs[p] < MaxRuns
  /\ runs' = [runs EXCEPT ![p] = @ + 1]
  /\ staging' = [staging EXCEPT ![p] = NONE] \* a new run takes a new name
  /\ Ends(p, "none", "start")
  /\ UNCHANGED <<shared, seen, head, had, counters>>

\* The kernel drops the file lock of a process that dies; directories stay.
Kill(p) ==
  /\ kills < MaxKills /\ kills' = kills + 1 /\ pc[p] \in Killable
  /\ lock' = [r \in Refs |-> IF lock[r] = p THEN NONE ELSE lock[r]]
  /\ had' = [had EXCEPT ![p] = {}]
  /\ Ends(p, "killed", "done")
  /\ UNCHANGED <<remote, tree, marker, publock, saved, seen, staging, head, runs, moves, fails>>

RemoteMoves(r, c) ==
  /\ moves < MaxMoves /\ moves' = moves + 1 /\ remote' = [remote EXCEPT ![r] = c]
  /\ had' = [p \in Procs |-> IF Want[p] = r /\ had[p] # {} THEN had[p] \cup {c} ELSE had[p]]
  /\ UNCHANGED <<tree, marker, publock, lock, saved, pc, seen, staging, head, result, runs,
                 fails, kills>>

Step(p) ==
  \/ ReadPrevious(p) \/ Acquire(p) \/ LockTimeout(p) \/ LsRemote(p)
  \/ CheckLocal(p) \/ Reuse(p) \/ SubmoduleLost(p) \/ CloneFresh(p) \/ CloneFails(p)
  \/ PresentAlready(p) \/ RemovalBlocker(p) \/ RemoveTree(p) \/ RemoveRest(p)
  \/ RemoveMarker(p) \/ DestinationFree(p) \/ TakeGuard(p)
  \/ MarkFinal(p) \/ Rename(p) \/ ReleaseGuard(p) \/ Cleanup(p) \/ Save(p)

Init ==
  /\ remote \in [Refs -> Commits]
  /\ tree = NONE /\ marker = NONE /\ publock = FALSE /\ saved = NONE
  /\ lock = [r \in Refs |-> NONE]
  /\ pc = [p \in Procs |-> "start"] /\ seen = [p \in Procs |-> NONE]
  /\ staging = [p \in Procs |-> NONE] /\ head = [p \in Procs |-> CHOOSE c \in Commits : TRUE]
  /\ result = [p \in Procs |-> "none"] /\ runs = [p \in Procs |-> 1]
  /\ had = [p \in Procs |-> {}]
  /\ moves = 0 /\ fails = 0 /\ kills = 0

Next ==
  \/ \E p \in Procs : Step(p) \/ Restart(p) \/ Kill(p)
  \/ \E r \in Refs, c \in Commits : RemoteMoves(r, c)

\* A preparer that is not killed keeps running.
Spec == Init /\ [][Next]_vars /\ \A p \in Procs : WF_vars(Step(p))

-----------------------------------------------------------------------------
(* Properties *)

Steps == {"start", "lock", "ask", "check", "submodules", "clone", "again", "rmtree",
          "rmrest", "rmmark", "exists", "guard", "mark", "rename", "unguard",
          "unguard_error", "cleanup", "save", "done"}
Guarded == {"mark", "rename", "unguard", "unguard_error"}
Inside == Steps \ {"start", "lock", "save", "done"}

TypeOK ==
  /\ remote \in [Refs -> Commits]
  /\ tree \in [commit : Commits, torn : {"no", "hidden", "shown"}] \cup {NONE}
  /\ marker \in Ids \cup {NONE} /\ saved \in Ids \cup {NONE}
  /\ publock \in BOOLEAN
  /\ lock \in [Refs -> Procs \cup {NONE}]
  /\ pc \in [Procs -> Steps]
  /\ seen \in [Procs -> Ids \cup {NONE}]
  /\ staging \in [Procs -> Commits \cup {NONE}] /\ head \in [Procs -> Commits]
  /\ result \in [Procs -> {"none", "present", "blocked", "killed"}]
  /\ had \in [Procs -> SUBSET Commits]
  /\ runs \in [Procs -> Nat] /\ moves \in Nat /\ fails \in Nat /\ kills \in Nat

\* A checkout a preparer reports as present, while its lock still keeps the
\* others out, carries the marker of its identity, has the commit its record
\* names and is not torn where the status of the checkout shows it.  One it has
\* published itself, or reused after the submodules were looked at, is whole:
\* the only torn one handed on is what a killed or failed removal has left, with
\* a submodule lost, when a preparer with a clone of its own finds it in place.
PresentIsWhole ==
  \A p \in Procs : pc[p] = "cleanup" /\ result[p] = "present" =>
    /\ Reusable(Id(p))
    /\ tree.torn = "hidden" => fails > 0 \/ (kills > 0 /\ staging[p] # NONE)

\* A marker and a tree that are both there agree on the commit, whatever was
\* killed between the rename, the removal and the writing of the marker.
MarkerTellsCommit == tree # NONE /\ marker # NONE => marker.commit = tree.commit

\* A checkout in place carries a marker: without one nobody may remove it, and
\* every later preparation of the path is blocked (the docstring of
\* reusable_git_source_record promises a fresh clone for incomplete records).
NeverUnmanaged == tree # NONE => marker # NONE

\* The guard of the rename stands only while a preparer is in there, unless one
\* was killed there: one that stays behind makes every later publication busy.
GuardHasOwner == publock => kills > 0 \/ \E p \in Procs : pc[p] \in Guarded

\* The checkout of a source, its marker and its guard fit together, whichever
\* preparer was killed between any two of its steps, and what is reported as
\* present is whole (publish_fresh_git_checkout, atomic_publish_dir).
CacheSound ==
  TypeOK /\ PresentIsWhole /\ MarkerTellsCommit /\ NeverUnmanaged /\ GuardHasOwner

\* A preparer alone, whose git commands all work, is never blocked: whatever a
\* killed run has left, the next one recovers with a fresh clone, as the
\* docstring of reusable_git_source_record says.
AlwaysRecovers == \A p \in Procs : result[p] # "blocked"

\* "clean, complete published checkout" (the docstring of
\* reusable_git_source_record), of every checkout reported as present.  The code
\* breaks it: publish_fresh_git_checkout does not look at the submodules.
PresentIsComplete ==
  \A p \in Procs : pc[p] = "cleanup" /\ result[p] = "present" => tree = Whole(head[p])

\* The commit a preparer reports is one its ref has had at the origin while it
\* held the lock, though the ref may move between the answer of ls-remote, the
\* look at the checkout and the report.
PresentIsRecent ==
  \A p \in Procs : pc[p] = "cleanup" /\ result[p] = "present" => head[p] \in had[p]

\* No preparer waits for ever: the lock of a dead or finished one is free.
EveryRunEnds == \A p \in Procs : pc[p] = "start" ~> pc[p] = "done"
=============================================================================
