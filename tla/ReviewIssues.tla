----------------------------- MODULE ReviewIssues -----------------------------
(***************************************************************************)
(* The reconciliation of review issues with a maintenance plan             *)
(* (ci/tools/reconcile-common-version-review-issues.py).  A scheduled run  *)
(* lists the managed issues once, then makes one request after the other   *)
(* to bring them in line with the plan.  A request can fail before or      *)
(* after it has had its effect; maintainers close and reopen issues at any *)
(* time; the workflow's concurrency group keeps runs apart.                *)
(***************************************************************************)
EXTENDS Naturals

CONSTANTS Keys, Components, Kinds, Texts, NONE,
          Component, \* the component of each review key
          Kind,      \* its review kind
          MaxRuns,   \* runs of the workflow
          MaxFaults, \* requests that fail
          MaxHumans  \* changes by maintainers

ASSUME IssueConstants ==
  /\ Component \in [Keys -> Components] /\ Kind \in [Keys -> Kinds] /\ Texts # {}
  /\ MaxRuns \in Nat /\ MaxFaults \in Nat /\ MaxHumans \in Nat

\* A validated plan: the state of each review, the text of its reviews, and the
\* components whose check counts as successful (none in a fatal or incomplete one).
Plans == [review : [Keys -> {"absent", "active", "completed", "withdrawn"}],
          text : Texts, ok : SUBSET Components]
Issues == [open : BOOLEAN, reason : {"none", "completed", "not_planned"},
           text : Texts, run : 0 .. MaxRuns]
DefaultRun == 0 \* "plan-verified", the default of issue_body

ASSUME NoneIsNew == NONE \notin Issues \cup Plans \cup Keys

VARIABLES
  issue,  \* the managed issue of each key, or NONE
  copies, \* how many managed issues carry the key
  plan,   \* the plan of this run
  run,    \* its number
  pc,     \* "idle", "list", "loop", "notice", "comment", "done" or "failed"
  seen,   \* the issues as the run has listed them
  todo,   \* keys it has not dealt with
  at,     \* key of the pair of requests under way
  told,   \* keys that got a comment in this run
  writes, \* this run has changed something
  last,   \* the plan of the last run that ended well and was not disturbed
  faults, humans, touched \* a maintainer has acted since the listing

vars == <<issue, copies, plan, run, pc, seen, todo, at, told, writes, last, faults, humans, touched>>

\* The request after which the run is at step: it succeeds, or its answer is lost.
Then(step) ==
  \/ pc' = step /\ UNCHANGED faults
  \/ faults < MaxFaults /\ faults' = faults + 1 /\ pc' = "failed"

\* An issue as create and reopen leave it.
Opened == [open |-> TRUE, reason |-> "none", text |-> plan.text, run |-> run]
Active(k) == plan.review[k] = "active"
Absent(k) == plan.review[k] = "absent"

\* The keys of the plan come before the ones that are absent from it.
Due(k) == k \in todo /\ (Absent(k) => \A j \in todo : Absent(j))

\* Deliberately wrong: every component counts as checked.
ReasonUnchecked(k) ==
  IF plan.review[k] = "completed" THEN "completed"
  ELSE IF plan.review[k] = "withdrawn" THEN "not_planned"
  ELSE IF Absent(k) THEN "completed" ELSE "none"

\* Why an issue has to be closed, "none" when it has not: the plan says so, or it
\* is absent and its component was checked; another review of its component and
\* kind in the plan makes it superseded.
Reason(k) ==
  CASE plan.review[k] = "completed" -> "completed"
    [] plan.review[k] = "withdrawn" -> "not_planned"
    [] Absent(k) /\ Component[k] \in plan.ok ->
         IF \E j \in Keys : ~Absent(j) /\ Component[j] = Component[k] /\ Kind[j] = Kind[k]
         THEN "not_planned" ELSE "completed"
    [] OTHER -> "none"

-----------------------------------------------------------------------------
Start(p) ==
  /\ pc \in {"idle", "done", "failed"} /\ run < MaxRuns /\ run' = run + 1
  /\ plan' = p /\ pc' = "list" /\ told' = {} /\ writes' = FALSE /\ at' = NONE
  /\ UNCHANGED <<issue, copies, seen, todo, last, faults, humans, touched>>

\* Two managed issues with one key end the run.
ListIssues ==
  /\ pc = "list"
  /\ IF \E k \in Keys : copies[k] > 1 THEN pc' = "failed" /\ UNCHANGED faults ELSE Then("loop")
  /\ seen' = issue /\ todo' = Keys /\ touched' = FALSE
  /\ last' = IF touched THEN NONE ELSE last
  /\ UNCHANGED <<issue, copies, plan, run, at, told, writes, humans>>

\* Deliberately wrong: a listed issue does not keep a review from being created.
CreateAgain(k) ==
  /\ pc = "loop" /\ Due(k) /\ Active(k)
  /\ issue' = [issue EXCEPT ![k] = Opened]
  /\ copies' = [copies EXCEPT ![k] = @ + 1]
  /\ todo' = todo \ {k} /\ writes' = TRUE /\ Then("loop")
  /\ UNCHANGED <<plan, run, seen, at, told, last, humans, touched>>

CreateReview(k) ==
  /\ pc = "loop" /\ Due(k) /\ seen[k] = NONE /\ Active(k)
  /\ issue' = [issue EXCEPT ![k] = Opened]
  /\ copies' = [copies EXCEPT ![k] = @ + 1]
  /\ todo' = todo \ {k} /\ writes' = TRUE /\ Then("loop")
  /\ UNCHANGED <<plan, run, seen, at, told, last, humans, touched>>

Reopens(k) == ~seen[k].open /\ seen[k].reason = "completed"

\* An active review whose issue was closed as completed is opened again.
Reopen(k) ==
  /\ pc = "loop" /\ Due(k) /\ seen[k] # NONE /\ Active(k)
  /\ Reopens(k)
  /\ issue' = [issue EXCEPT ![k] = Opened]
  /\ todo' = todo \ {k} /\ writes' = TRUE /\ Then("loop")
  /\ UNCHANGED <<copies, plan, run, seen, at, told, last, humans, touched>>

\* The listed body against the body of the default run.
SameContent(k) == seen[k].text = plan.text /\ seen[k].run = DefaultRun

\* Title and body first, the comment in a request of its own.
UpdateIssue(k) ==
  /\ pc = "loop" /\ Due(k) /\ seen[k] # NONE /\ Active(k)
  /\ ~Reopens(k) /\ ~SameContent(k)
  /\ issue' = [issue EXCEPT ![k].text = plan.text, ![k].run = run]
  /\ at' = k /\ writes' = TRUE /\ Then("comment")
  /\ UNCHANGED <<copies, plan, run, seen, todo, told, last, humans, touched>>

CommentUpdate ==
  /\ pc = "comment" /\ told' = told \cup {at} /\ todo' = todo \ {at} /\ at' = NONE /\ Then("loop")
  /\ UNCHANGED <<issue, copies, plan, run, seen, writes, last, humans, touched>>

\* The comment comes before the issue is closed.
NoticeClose(k) ==
  /\ pc = "loop" /\ Due(k) /\ seen[k] # NONE /\ Reason(k) # "none"
  /\ seen[k].open \/ seen[k].reason # Reason(k)
  /\ told' = told \cup {k} /\ at' = k /\ writes' = TRUE /\ Then("notice")
  /\ UNCHANGED <<issue, copies, plan, run, seen, todo, last, humans, touched>>

CloseIssue ==
  /\ pc = "notice"
  /\ issue' = [issue EXCEPT ![at].open = FALSE, ![at].reason = Reason(at)]
  /\ todo' = todo \ {at} /\ at' = NONE /\ Then("loop")
  /\ UNCHANGED <<copies, plan, run, seen, told, writes, last, humans, touched>>

\* Nothing to do: no issue and no active review, the same content, closed
\* already, or absent without evidence.
Skip(k) ==
  /\ pc = "loop" /\ Due(k)
  /\ \/ seen[k] = NONE /\ ~Active(k)
     \/ seen[k] # NONE /\ Active(k) /\ ~Reopens(k) /\ SameContent(k)
     \/ /\ seen[k] # NONE /\ ~Active(k)
        /\ Reason(k) = "none" \/ (~seen[k].open /\ seen[k].reason = Reason(k))
  /\ todo' = todo \ {k}
  /\ UNCHANGED <<issue, copies, plan, run, pc, seen, at, told, writes, last, faults, humans, touched>>

Finish ==
  /\ pc = "loop" /\ todo = {} /\ pc' = "done"
  /\ last' = IF touched THEN NONE ELSE plan
  /\ UNCHANGED <<issue, copies, plan, run, seen, todo, at, told, writes, faults, humans, touched>>

\* A request fails and nothing has happened: exit 2.
RequestFails ==
  /\ pc \in {"loop", "notice", "comment"} /\ faults < MaxFaults
  /\ faults' = faults + 1 /\ pc' = "failed"
  /\ UNCHANGED <<issue, copies, plan, run, seen, todo, at, told, writes, last, humans, touched>>

Human(k, open, why) ==
  /\ humans < MaxHumans /\ humans' = humans + 1 /\ issue[k] # NONE
  /\ issue[k].open # open /\ (open <=> why = "none")
  /\ issue' = [issue EXCEPT ![k].open = open, ![k].reason = why]
  /\ touched' = TRUE
  /\ UNCHANGED <<copies, plan, run, pc, seen, todo, at, told, writes, last, faults>>

Request ==
  \/ ListIssues \/ CommentUpdate \/ CloseIssue \/ Finish \/ RequestFails
  \/ \E k \in Keys : CreateReview(k) \/ Reopen(k) \/ UpdateIssue(k) \/ NoticeClose(k) \/ Skip(k)

Init ==
  /\ issue = [k \in Keys |-> NONE] /\ copies = [k \in Keys |-> 0]
  /\ plan = [review |-> [k \in Keys |-> "absent"], text |-> CHOOSE t \in Texts : TRUE, ok |-> {}]
  /\ run = 0 /\ pc = "idle" /\ seen = issue /\ todo = {} /\ at = NONE /\ told = {}
  /\ writes = FALSE /\ last = NONE /\ faults = 0 /\ humans = 0 /\ touched = FALSE

Next ==
  \/ \E p \in Plans : Start(p)
  \/ Request
  \/ \E k \in Keys, o \in BOOLEAN, w \in {"none", "completed", "not_planned"} : Human(k, o, w)

Spec == Init /\ [][Next]_vars

-----------------------------------------------------------------------------
(* Properties *)

TypeOK ==
  /\ issue \in [Keys -> Issues \cup {NONE}] /\ seen \in [Keys -> Issues \cup {NONE}]
  /\ copies \in [Keys -> Nat] /\ plan \in Plans /\ run \in 0 .. MaxRuns
  /\ pc \in {"idle", "list", "loop", "notice", "comment", "done", "failed"}
  /\ todo \subseteq Keys /\ at \in Keys \cup {NONE} /\ told \subseteq Keys
  /\ writes \in BOOLEAN /\ touched \in BOOLEAN /\ last \in Plans \cup {NONE}
  /\ faults \in Nat /\ humans \in Nat

\* A key never gets a second managed issue, although the answer to a creation
\* may be lost and the next run starts over: a duplicate blocks every later run.
NoDuplicates == \A k \in Keys : copies[k] <= 1

\* After a run that ends well and was not disturbed the issues say what the plan
\* says: an active review has an issue with its text, open unless it was closed
\* as not planned, and what the plan ends is closed for the right reason.
Converged ==
  pc = "done" /\ ~touched =>
    \A k \in Keys :
      /\ Active(k) => /\ issue[k] # NONE /\ issue[k].text = plan.text
                      /\ issue[k].open \/ issue[k].reason = "not_planned"
      /\ Reason(k) # "none" /\ issue[k] # NONE
           => ~issue[k].open /\ issue[k].reason = Reason(k)

\* Requests that fail half way, reruns and maintainers leave one issue for each
\* review, and a run that ends well leaves it in the state the plan asks for.
IssuesSound == TypeOK /\ NoDuplicates /\ Converged

\* The run closes an issue only on evidence: its review has ended in the plan, or
\* it is absent from a complete plan that has checked its component; it has told
\* why before.
ClosedOnEvidence ==
  [][\A k \in Keys :
       (issue[k] # NONE /\ issue[k].open /\ ~issue'[k].open /\ humans' = humans) =>
         /\ k \in told
         /\ \/ plan.review[k] \in {"completed", "withdrawn"}
            \/ Absent(k) /\ Component[k] \in plan.ok]_vars

\* A run with the plan of the run before, with nothing changed in between, writes
\* nothing (test_idempotence_update_and_close_lifecycle).
RepeatIsQuiet == pc \in {"loop", "notice", "comment"} /\ last = plan /\ ~touched => ~writes
===============================================================================
