-------------------------- MODULE ReviewIssuesProofs --------------------------
(***************************************************************************)
(* Proofs about ReviewIssues, for every set of keys, components, kinds and *)
(* texts, and any number of runs, failing requests and maintainers' acts.  *)
(***************************************************************************)
EXTENDS ReviewIssues, TLAPS

-----------------------------------------------------------------------------
(***************************************************************************)
(* The inductive invariant.  A run works on the listing it took at its     *)
(* start: the invariant says how far that listing still describes the      *)
(* issues, and what the run has settled already.                           *)
(***************************************************************************)

Working == {"loop", "notice", "comment"}

\* A key has as many managed issues as its issue says, and a closed one has a reason.
CopiesInv == \A k \in Keys :
  /\ copies[k] = IF issue[k] = NONE THEN 0 ELSE 1
  /\ issue[k] # NONE /\ ~issue[k].open => issue[k].reason # "none"

\* Of a key that it has not dealt with the run knows whether it has an issue.
ListInv == pc \in Working => \A k \in todo : issue[k] = NONE <=> seen[k] = NONE

\* A pair of requests is under way for a key that is still to do, and between the
\* two the run has told why, or has written the text of the plan.
PairInv ==
  /\ pc \in {"list", "loop"} => at = NONE
  /\ pc \in {"notice", "comment"} => at \in todo /\ seen[at] # NONE
  /\ pc = "notice" => at \in told /\ Reason(at) # "none"
  /\ pc = "comment" => Active(at) /\ ~Reopens(at) /\ issue[at].text = plan.text

\* What the plan asks of the issue of k.
Settled(k) ==
  /\ Active(k) => /\ issue[k] # NONE /\ issue[k].text = plan.text
                  /\ issue[k].open \/ issue[k].reason = "not_planned"
  /\ Reason(k) # "none" /\ issue[k] # NONE
       => ~issue[k].open /\ issue[k].reason = Reason(k)

\* Undisturbed, the listing of what is to do is the state of the issues, the issue under
\* way is as open as listed, and the rest is settled.
UndisturbedInv == pc \in Working /\ ~touched =>
  /\ \A k \in todo : k # at => issue[k] = seen[k]
  /\ pc = "comment" => issue[at].open = seen[at].open /\ issue[at].reason = seen[at].reason
  /\ \A k \in Keys \ todo : Settled(k)

IInv == TypeOK /\ CopiesInv /\ ListInv /\ PairInv /\ UndisturbedInv /\ Converged

-----------------------------------------------------------------------------
(* The operators of the model *)

\* TypeOK in two parts: the two flags and the rest.
ValuesOK ==
  /\ issue \in [Keys -> Issues \cup {NONE}] /\ seen \in [Keys -> Issues \cup {NONE}]
  /\ copies \in [Keys -> Nat] /\ plan \in Plans /\ run \in 0 .. MaxRuns
  /\ pc \in {"idle", "list", "loop", "notice", "comment", "done", "failed"}
  /\ todo \subseteq Keys /\ at \in Keys \cup {NONE} /\ told \subseteq Keys
  /\ last \in Plans \cup {NONE} /\ faults \in Nat /\ humans \in Nat

LEMMA TypeParts == TypeOK <=> ValuesOK /\ writes \in BOOLEAN /\ touched \in BOOLEAN
  BY Zenon DEF TypeOK, ValuesOK

\* Reason asks for a closing only on evidence, and never for an active review.
LEMMA ReasonFacts ==
  ASSUME NEW k \in Keys
  PROVE  /\ Reason(k) \in {"none", "completed", "not_planned"}
         /\ Active(k) => Reason(k) = "none"
         /\ Reason(k) # "none" => \/ plan.review[k] \in {"completed", "withdrawn"}
                                  \/ Absent(k) /\ Component[k] \in plan.ok
  <1>1. CASE plan.review[k] = "completed"
    BY <1>1 DEF Reason, Active, Absent
  <1>2. CASE plan.review[k] = "withdrawn"
    BY <1>2 DEF Reason, Active, Absent
  <1>3. CASE Absent(k) /\ Component[k] \in plan.ok
    BY <1>3 DEF Reason, Active, Absent
  <1>4. CASE /\ plan.review[k] \notin {"completed", "withdrawn"}
             /\ ~(Absent(k) /\ Component[k] \in plan.ok)
    BY <1>4 DEF Reason, Active, Absent
  <1> QED
    BY <1>1, <1>2, <1>3, <1>4

\* The plan alone says what is asked for.
LEMMA SamePlan ==
  ASSUME plan' = plan, NEW k
  PROVE  Reason(k)' = Reason(k) /\ (Active(k)' <=> Active(k)) /\ (Absent(k)' <=> Absent(k))
  BY DEF Reason, Active, Absent

\* A review that the run creates or opens again gets this issue.
LEMMA OpenedIssue ==
  ASSUME ValuesOK
  PROVE  /\ Opened \in Issues /\ Opened # NONE
         /\ Opened.open = TRUE /\ Opened.reason = "none" /\ Opened.text = plan.text
  <1>1. Opened \in Issues
    BY DEF Opened, Issues, Plans, ValuesOK
  <1>2. Opened # NONE
    BY <1>1, NoneIsNew
  <1>3. Opened.open = TRUE /\ Opened.reason = "none" /\ Opened.text = plan.text
    BY DEF Opened
  <1> QED
    BY <1>1, <1>2, <1>3

-----------------------------------------------------------------------------
(* The inductive invariant holds *)

LEMMA InvInit == Init => IInv
  <1> SUFFICES ASSUME Init
               PROVE  IInv
    OBVIOUS
  <1> USE IssueConstants DEF Init
  <1>1. plan \in Plans
    BY DEF Plans
  <1>2. ValuesOK
    BY <1>1 DEF ValuesOK
  <1>3. writes \in BOOLEAN /\ touched \in BOOLEAN
    OBVIOUS
  <1>4. CopiesInv /\ ListInv /\ PairInv /\ UndisturbedInv /\ Converged
    BY DEF CopiesInv, ListInv, PairInv, UndisturbedInv, Converged, Working
  <1> QED
    BY <1>2, <1>3, <1>4, TypeParts DEF IInv

\* Where a request acts, its key has an issue.
LEMMA RequestFacts ==
  ASSUME IInv
  PROVE  /\ pc \in {"notice", "comment"} => at \in Keys /\ issue[at] \in Issues
         /\ pc = "loop" => \A k \in todo : /\ seen[k] = NONE => issue[k] = NONE /\ copies[k] = 0
                                           /\ seen[k] # NONE => issue[k] \in Issues
  BY DEF IInv, TypeOK, ListInv, PairInv, CopiesInv, Working

\* A step keeps the types of all variables but the two flags.
LEMMA ValuesStep == IInv /\ [Next]_vars => ValuesOK'
  <1> SUFFICES ASSUME IInv, [Next]_vars
               PROVE  ValuesOK'
    OBVIOUS
  <1> USE IssueConstants DEF ValuesOK
  <1>0. ValuesOK
    BY TypeParts DEF IInv
  <1>1. ASSUME NEW p \in Plans, Start(p)
        PROVE  ValuesOK'
    BY <1>1, <1>0 DEF Start
  <1>2. CASE ListIssues
    BY <1>2, <1>0 DEF ListIssues, Then
  <1>3. CASE CommentUpdate
    BY <1>3, <1>0, RequestFacts DEF CommentUpdate, Then
  <1>4. CASE CloseIssue
    <2>1. at \in Keys /\ issue[at] \in Issues /\ Reason(at) \in {"none", "completed", "not_planned"}
      BY <1>4, RequestFacts, ReasonFacts DEF CloseIssue
    <2>2. [issue[at] EXCEPT !.open = FALSE, !.reason = Reason(at)] \in Issues
      BY <2>1 DEF Issues
    <2>3. issue' \in [Keys -> Issues \cup {NONE}]
      BY <1>4, <1>0, <2>1, <2>2 DEF CloseIssue
    <2>4. faults' \in Nat /\ pc' \in {"loop", "failed"}
      BY <1>4, <1>0 DEF CloseIssue, Then
    <2> QED
      BY <1>4, <1>0, <2>3, <2>4 DEF CloseIssue
  <1>5. CASE Finish
    BY <1>5, <1>0 DEF Finish
  <1>6. CASE RequestFails
    BY <1>6, <1>0 DEF RequestFails
  <1>7. ASSUME NEW k \in Keys, CreateReview(k)
        PROVE  ValuesOK'
    <2>1. issue' \in [Keys -> Issues \cup {NONE}]
      BY <1>7, <1>0, OpenedIssue DEF CreateReview, Reopen
    <2>3. copies' \in [Keys -> Nat]
      BY <1>7, <1>0 DEF CreateReview, Reopen
    <2>2. faults' \in Nat /\ pc' \in {"loop", "failed"}
      BY <1>7, <1>0 DEF CreateReview, Reopen, Then
    <2> QED
      BY <1>7, <1>0, <2>1, <2>2, <2>3 DEF CreateReview, Reopen
  <1>8. ASSUME NEW k \in Keys, Reopen(k)
        PROVE  ValuesOK'
    <2>1. issue' \in [Keys -> Issues \cup {NONE}]
      BY <1>8, <1>0, OpenedIssue DEF CreateReview, Reopen
    <2>3. copies' \in [Keys -> Nat]
      BY <1>8, <1>0 DEF CreateReview, Reopen
    <2>2. faults' \in Nat /\ pc' \in {"loop", "failed"}
      BY <1>8, <1>0 DEF CreateReview, Reopen, Then
    <2> QED
      BY <1>8, <1>0, <2>1, <2>2, <2>3 DEF CreateReview, Reopen
  <1>9. ASSUME NEW k \in Keys, UpdateIssue(k)
        PROVE  ValuesOK'
    <2>1. issue[k] \in Issues /\ plan.text \in Texts
      BY <1>9, <1>0, RequestFacts DEF UpdateIssue, Due, Plans
    <2>2. [issue[k] EXCEPT !.text = plan.text, !.run = run] \in Issues
      BY <1>0, <2>1 DEF Issues
    <2>3. issue' \in [Keys -> Issues \cup {NONE}]
      BY <1>9, <1>0, <2>1, <2>2 DEF UpdateIssue
    <2> QED
      BY <1>9, <1>0, <2>3 DEF UpdateIssue, Then
  <1>10. ASSUME NEW k \in Keys, NoticeClose(k)
        PROVE  ValuesOK'
    BY <1>10, <1>0 DEF NoticeClose, Then
  <1>11. ASSUME NEW k \in Keys, Skip(k)
        PROVE  ValuesOK'
    BY <1>11, <1>0 DEF Skip
  <1>12. ASSUME NEW k \in Keys, NEW o \in BOOLEAN, NEW w \in {"none", "completed", "not_planned"},
                Human(k, o, w)
        PROVE  ValuesOK'
    <2>1. issue[k] \in Issues
      BY <1>12, <1>0 DEF Human
    <2>2. [issue[k] EXCEPT !.open = o, !.reason = w] \in Issues
      BY <2>1 DEF Issues
    <2>3. issue' \in [Keys -> Issues \cup {NONE}]
      BY <1>12, <1>0, <2>1, <2>2 DEF Human
    <2> QED
      BY <1>12, <1>0, <2>3 DEF Human
  <1>13. CASE UNCHANGED vars
    BY <1>13, <1>0 DEF vars
  <1> QED
    BY <1>1, <1>2, <1>3, <1>4, <1>5, <1>6, <1>7, <1>8, <1>9, <1>10, <1>11, <1>12,
       <1>13
       DEF Next, Request


LEMMA FlagsStep == IInv /\ [Next]_vars => writes' \in BOOLEAN /\ touched' \in BOOLEAN
  <1> SUFFICES ASSUME IInv, [Next]_vars
               PROVE  writes' \in BOOLEAN /\ touched' \in BOOLEAN
    OBVIOUS
  <1>0. writes \in BOOLEAN /\ touched \in BOOLEAN
    BY TypeParts DEF IInv
  <1>1. ASSUME NEW p \in Plans, Start(p)
        PROVE  writes' \in BOOLEAN /\ touched' \in BOOLEAN
    BY <1>1, <1>0 DEF Start
  <1>2. CASE ListIssues
    BY <1>2, <1>0 DEF ListIssues, Then
  <1>3. CASE CommentUpdate
    BY <1>3, <1>0 DEF CommentUpdate, Then
  <1>4. CASE CloseIssue
    BY <1>4, <1>0 DEF CloseIssue, Then
  <1>5. CASE Finish
    BY <1>5, <1>0 DEF Finish
  <1>6. CASE RequestFails
    BY <1>6, <1>0 DEF RequestFails
  <1>7. ASSUME NEW k \in Keys, CreateReview(k)
        PROVE  writes' \in BOOLEAN /\ touched' \in BOOLEAN
    BY <1>7, <1>0 DEF CreateReview, Then
  <1>8. ASSUME NEW k \in Keys, Reopen(k)
        PROVE  writes' \in BOOLEAN /\ touched' \in BOOLEAN
    BY <1>8, <1>0 DEF Reopen, Then
  <1>9. ASSUME NEW k \in Keys, UpdateIssue(k)
        PROVE  writes' \in BOOLEAN /\ touched' \in BOOLEAN
    BY <1>9, <1>0 DEF UpdateIssue, Then
  <1>10. ASSUME NEW k \in Keys, NoticeClose(k)
        PROVE  writes' \in BOOLEAN /\ touched' \in BOOLEAN
    BY <1>10, <1>0 DEF NoticeClose, Then
  <1>11. ASSUME NEW k \in Keys, Skip(k)
        PROVE  writes' \in BOOLEAN /\ touched' \in BOOLEAN
    BY <1>11, <1>0 DEF Skip
  <1>12. ASSUME NEW k \in Keys, NEW o \in BOOLEAN, NEW w \in {"none", "completed", "not_planned"},
                Human(k, o, w)
        PROVE  writes' \in BOOLEAN /\ touched' \in BOOLEAN
    BY <1>12, <1>0 DEF Human
  <1>13. CASE UNCHANGED vars
    BY <1>13, <1>0 DEF vars
  <1> QED
    BY <1>1, <1>2, <1>3, <1>4, <1>5, <1>6, <1>7, <1>8, <1>9, <1>10, <1>11, <1>12,
       <1>13
       DEF Next, Request

\* What a step does to the issues: a created or reopened one is Opened, an update writes
\* the text of the plan, a closing and a maintainer set the state and its reason.
LEMMA IssueStep ==
  ASSUME IInv, [Next]_vars, NEW j \in Keys
  PROVE  \/ issue'[j] = issue[j] /\ copies'[j] = copies[j]
         \/ /\ pc = "loop" /\ j \in todo /\ Active(j) /\ issue'[j] = Opened
            /\ copies'[j] = IF issue[j] = NONE THEN copies[j] + 1 ELSE copies[j]
         \/ /\ pc = "loop" /\ j \in todo /\ Active(j) /\ issue[j] \in Issues
            /\ issue'[j] \in Issues /\ copies'[j] = copies[j]
            /\ issue'[j].open = issue[j].open /\ issue'[j].reason = issue[j].reason
            /\ issue'[j].text = plan.text
         \/ /\ pc = "notice" /\ j = at /\ issue[j] \in Issues
            /\ issue'[j] \in Issues /\ copies'[j] = copies[j]
            /\ issue'[j].open = FALSE /\ issue'[j].reason = Reason(j)
         \/ /\ touched' = TRUE /\ humans' # humans /\ issue[j] \in Issues
            /\ issue'[j] \in Issues /\ copies'[j] = copies[j]
            /\ issue'[j].open \/ issue'[j].reason # "none"
            /\ issue'[j].text = issue[j].text
  <1> DEFINE G ==
         \/ issue'[j] = issue[j] /\ copies'[j] = copies[j]
         \/ /\ pc = "loop" /\ j \in todo /\ Active(j) /\ issue'[j] = Opened
            /\ copies'[j] = IF issue[j] = NONE THEN copies[j] + 1 ELSE copies[j]
         \/ /\ pc = "loop" /\ j \in todo /\ Active(j) /\ issue[j] \in Issues
            /\ issue'[j] \in Issues /\ copies'[j] = copies[j]
            /\ issue'[j].open = issue[j].open /\ issue'[j].reason = issue[j].reason
            /\ issue'[j].text = plan.text
         \/ /\ pc = "notice" /\ j = at /\ issue[j] \in Issues
            /\ issue'[j] \in Issues /\ copies'[j] = copies[j]
            /\ issue'[j].open = FALSE /\ issue'[j].reason = Reason(j)
         \/ /\ touched' = TRUE /\ humans' # humans /\ issue[j] \in Issues
            /\ issue'[j] \in Issues /\ copies'[j] = copies[j]
            /\ issue'[j].open \/ issue'[j].reason # "none"
            /\ issue'[j].text = issue[j].text
  <1>0. ValuesOK
    BY TypeParts DEF IInv
  <1> USE <1>0 DEF ValuesOK
  <1>1. ASSUME NEW p \in Plans, Start(p)
        PROVE  G
    BY <1>1 DEF Start
  <1>2. CASE ListIssues
    BY <1>2 DEF ListIssues, Then
  <1>3. CASE CommentUpdate
    BY <1>3 DEF CommentUpdate, Then
  <1>4. CASE CloseIssue
    <2>1. at \in Keys /\ issue[at] \in Issues /\ Reason(at) \in {"none", "completed", "not_planned"}
      BY <1>4, RequestFacts, ReasonFacts DEF CloseIssue
    <2>2. CASE j = at
      <3>1. issue'[j] = [issue[j] EXCEPT !.open = FALSE, !.reason = Reason(j)]
        BY <1>4, <2>1, <2>2 DEF CloseIssue
      <3> QED
        BY <1>4, <2>1, <2>2, <3>1 DEF CloseIssue, Issues
    <2>3. CASE j # at
      BY <1>4, <2>3 DEF CloseIssue
    <2> QED
      BY <2>2, <2>3
  <1>5. CASE Finish
    BY <1>5 DEF Finish
  <1>6. CASE RequestFails
    BY <1>6 DEF RequestFails
  <1>7. ASSUME NEW k \in Keys, CreateReview(k)
        PROVE  G
    <2>1. CASE j = k
      BY <1>7, <2>1, RequestFacts, NoneIsNew DEF CreateReview, Reopen, Due
    <2>2. CASE j # k
      BY <1>7, <2>2 DEF CreateReview, Reopen
    <2> QED
      BY <2>1, <2>2
  <1>8. ASSUME NEW k \in Keys, Reopen(k)
        PROVE  G
    <2>1. CASE j = k
      BY <1>8, <2>1, RequestFacts, NoneIsNew DEF CreateReview, Reopen, Due
    <2>2. CASE j # k
      BY <1>8, <2>2 DEF CreateReview, Reopen
    <2> QED
      BY <2>1, <2>2
  <1>9. ASSUME NEW k \in Keys, UpdateIssue(k)
        PROVE  G
    <2>1. issue[k] \in Issues /\ plan.text \in Texts
      BY <1>9, RequestFacts DEF UpdateIssue, Due, Plans
    <2>2. CASE j = k
      <3>1. issue'[j] = [issue[j] EXCEPT !.text = plan.text, !.run = run]
        BY <1>9, <2>1, <2>2 DEF UpdateIssue
      <3> QED
        BY <1>9, <2>1, <2>2, <3>1 DEF UpdateIssue, Due, Issues
    <2>3. CASE j # k
      BY <1>9, <2>3 DEF UpdateIssue
    <2> QED
      BY <2>2, <2>3
  <1>10. ASSUME NEW k \in Keys, NoticeClose(k)
        PROVE  G
    BY <1>10 DEF NoticeClose, Then
  <1>11. ASSUME NEW k \in Keys, Skip(k)
        PROVE  G
    BY <1>11 DEF Skip
  <1>12. ASSUME NEW k \in Keys, NEW o \in BOOLEAN, NEW w \in {"none", "completed", "not_planned"},
                Human(k, o, w)
        PROVE  G
    <2>1. issue[k] \in Issues
      BY <1>12 DEF Human
    <2>2. CASE j = k
      <3>1. issue'[j] = [issue[j] EXCEPT !.open = o, !.reason = w]
        BY <1>12, <2>1, <2>2 DEF Human
      <3>2. issue'[j] \in Issues /\ issue'[j].open = o /\ issue'[j].reason = w
             /\ issue'[j].text = issue[j].text
        BY <2>1, <2>2, <3>1 DEF Issues
      <3>3. humans' # humans /\ touched' = TRUE /\ copies' = copies /\ (o \/ w # "none")
        BY <1>12 DEF Human
      <3> QED
        BY <2>1, <2>2, <3>2, <3>3
    <2>3. CASE j # k
      BY <1>12, <2>3 DEF Human
    <2> QED
      BY <2>2, <2>3
  <1>13. CASE UNCHANGED vars
    BY <1>13 DEF vars
  <1> QED
    BY <1>1, <1>2, <1>3, <1>4, <1>5, <1>6, <1>7, <1>8, <1>9, <1>10, <1>11, <1>12,
       <1>13
       DEF Next, Request

\* A created issue is the first of its key.
LEMMA CopiesStep == IInv /\ [Next]_vars => CopiesInv'
  <1> SUFFICES ASSUME IInv, [Next]_vars, NEW j \in Keys
               PROVE  /\ copies'[j] = IF issue'[j] = NONE THEN 0 ELSE 1
                      /\ issue'[j] # NONE /\ ~issue'[j].open => issue'[j].reason # "none"
    BY DEF CopiesInv
  <1>1. ValuesOK /\ CopiesInv /\ PairInv
    BY TypeParts DEF IInv
  <1>2. NONE \notin Issues
    BY NoneIsNew
  <1>3. copies[j] \in Nat /\ (copies[j] = IF issue[j] = NONE THEN 0 ELSE 1)
        /\ (issue[j] # NONE /\ ~issue[j].open => issue[j].reason # "none")
    BY <1>1 DEF CopiesInv, ValuesOK
  <1>4. copies'[j] = IF issue'[j] = NONE THEN 0 ELSE 1
    <2>1. \/ issue'[j] = issue[j] /\ copies'[j] = copies[j]
          \/ issue'[j] = Opened /\ copies'[j] = IF issue[j] = NONE THEN copies[j] + 1 ELSE copies[j]
          \/ issue[j] \in Issues /\ issue'[j] \in Issues /\ copies'[j] = copies[j]
      BY IssueStep
    <2> QED
      BY <1>1, <1>2, <1>3, <2>1, OpenedIssue
  <1>5. ASSUME issue'[j] # NONE, ~issue'[j].open
        PROVE  issue'[j].reason # "none"
    <2>1. \/ issue'[j] = issue[j]
          \/ issue'[j] = Opened
          \/ issue[j] \in Issues /\ issue'[j].open = issue[j].open /\ issue'[j].reason = issue[j].reason
          \/ pc = "notice" /\ j = at /\ issue'[j].reason = Reason(j)
          \/ issue'[j].open \/ issue'[j].reason # "none"
      BY IssueStep
    <2>2. Opened.open = TRUE
      BY <1>1, OpenedIssue
    <2>3. pc = "notice" => Reason(at) # "none"
      BY <1>1 DEF PairInv
    <2> QED
      BY <1>2, <1>3, <1>5, <2>1, <2>2, <2>3
  <1> QED
    BY <1>4, <1>5

LEMMA ListStep == IInv /\ [Next]_vars => ListInv'
  <1> SUFFICES ASSUME IInv, [Next]_vars, pc' \in Working, NEW j \in todo'
               PROVE  issue'[j] = NONE <=> seen'[j] = NONE
    BY DEF ListInv
  <1>0. ValuesOK /\ ListInv /\ NONE \notin Issues
    BY TypeParts, NoneIsNew DEF IInv
  <1> USE <1>0 DEF ListInv, ValuesOK, Working
  <1>a. \A i \in Keys : issue'[i] = NONE => issue[i] = NONE
    BY IssueStep, OpenedIssue
  <1>1. ASSUME NEW p \in Plans, Start(p)
        PROVE  issue'[j] = NONE <=> seen'[j] = NONE
    BY <1>1, <1>a DEF Start
  <1>2. CASE ListIssues
    BY <1>2, <1>a DEF ListIssues, Then
  <1>3. CASE CommentUpdate
    BY <1>3, <1>a DEF CommentUpdate, Then
  <1>4. CASE CloseIssue
    BY <1>4, <1>a DEF CloseIssue, Then
  <1>5. CASE Finish
    BY <1>5, <1>a DEF Finish
  <1>6. CASE RequestFails
    BY <1>6, <1>a DEF RequestFails
  <1>7. ASSUME NEW k \in Keys, CreateReview(k)
        PROVE  issue'[j] = NONE <=> seen'[j] = NONE
    BY <1>7 DEF CreateReview, Reopen, Then
  <1>8. ASSUME NEW k \in Keys, Reopen(k)
        PROVE  issue'[j] = NONE <=> seen'[j] = NONE
    BY <1>8 DEF CreateReview, Reopen, Then
  <1>9. ASSUME NEW k \in Keys, UpdateIssue(k)
        PROVE  issue'[j] = NONE <=> seen'[j] = NONE
    <2>1. CASE j = k
      <3>1. seen' = seen /\ k \in todo /\ seen[k] # NONE /\ pc = "loop"
        BY <1>9 DEF UpdateIssue, Due
      <3>2. issue[k] # NONE /\ seen[k] # NONE
        BY <3>1, <2>1
      <3>3. issue'[j] # NONE /\ seen'[j] # NONE
        BY <1>9, <1>a, <2>1, <3>1, <3>2
      <3> QED
        BY <3>3
    <2>2. CASE j # k
      BY <1>9, <2>2 DEF UpdateIssue, Then
    <2> QED
      BY <2>1, <2>2
  <1>10. ASSUME NEW k \in Keys, NoticeClose(k)
        PROVE  issue'[j] = NONE <=> seen'[j] = NONE
    BY <1>10, <1>a DEF NoticeClose, Then
  <1>11. ASSUME NEW k \in Keys, Skip(k)
        PROVE  issue'[j] = NONE <=> seen'[j] = NONE
    BY <1>11, <1>a DEF Skip
  <1>12. ASSUME NEW k \in Keys, NEW o \in BOOLEAN, NEW w \in {"none", "completed", "not_planned"},
                Human(k, o, w)
        PROVE  issue'[j] = NONE <=> seen'[j] = NONE
    <2>1. CASE j = k
      <3>1. seen' = seen /\ todo' = todo /\ pc' = pc /\ issue[k] # NONE
        BY <1>12 DEF Human
      <3>2. issue[k] # NONE /\ seen[k] # NONE
        BY <3>1, <2>1
      <3>3. issue'[j] # NONE /\ seen'[j] # NONE
        BY <1>12, <1>a, <2>1, <3>1, <3>2
      <3> QED
        BY <3>3
    <2>2. CASE j # k
      BY <1>12, <2>2 DEF Human
    <2> QED
      BY <2>1, <2>2
  <1>13. CASE UNCHANGED vars
    BY <1>13, <1>a DEF vars
  <1> QED
    BY <1>1, <1>2, <1>3, <1>4, <1>5, <1>6, <1>7, <1>8, <1>9, <1>10, <1>11, <1>12,
       <1>13
       DEF Next, Request

LEMMA PairStep == IInv /\ [Next]_vars => PairInv'
  <1> SUFFICES ASSUME IInv, [Next]_vars
               PROVE  PairInv'
    OBVIOUS
  <1>0. ValuesOK /\ PairInv /\ NONE \notin Keys
    BY TypeParts, NoneIsNew DEF IInv
  <1> USE <1>0 DEF PairInv, ValuesOK
  <1>a. plan' = plan => /\ \A k : Reason(k)' = Reason(k)
                        /\ \A k : Active(k)' <=> Active(k)
    BY SamePlan
  <1>1. ASSUME NEW p \in Plans, Start(p)
        PROVE  PairInv'
    BY <1>1 DEF Start
  <1>2. CASE ListIssues
    BY <1>2 DEF ListIssues, Then
  <1>3. CASE CommentUpdate
    BY <1>3 DEF CommentUpdate, Then
  <1>4. CASE CloseIssue
    BY <1>4 DEF CloseIssue, Then
  <1>5. CASE Finish
    BY <1>5 DEF Finish
  <1>6. CASE RequestFails
    BY <1>6 DEF RequestFails
  <1>7. ASSUME NEW k \in Keys, CreateReview(k)
        PROVE  PairInv'
    BY <1>7 DEF CreateReview, Then
  <1>8. ASSUME NEW k \in Keys, Reopen(k)
        PROVE  PairInv'
    BY <1>8 DEF Reopen, Then
  <1>9. ASSUME NEW k \in Keys, UpdateIssue(k)
        PROVE  PairInv'
    <2>1. plan' = plan /\ seen' = seen /\ at' = k /\ pc' \in {"comment", "failed"} /\ todo' = todo
          /\ k \in todo /\ seen[k] # NONE /\ Active(k) /\ ~Reopens(k)
      BY <1>9 DEF UpdateIssue, Then, Due
    <2>2. issue'[k].text = plan.text
      <3>1. issue[k] \in Issues
        BY <1>9, RequestFacts DEF UpdateIssue, Due
      <3>2. issue'[k] = [issue[k] EXCEPT !.text = plan.text, !.run = run]
        BY <1>9 DEF UpdateIssue
      <3> QED
        BY <3>1, <3>2 DEF Issues
    <2>3. Active(k)' /\ ~Reopens(k)'
      BY <2>1, <1>a DEF Reopens
    <2>4. Active(at)' /\ ~Reopens(at)'
      BY <2>1, <2>3 DEF Active, Reopens
    <2> QED
      BY <2>1, <2>2, <2>4
  <1>10. ASSUME NEW k \in Keys, NoticeClose(k)
        PROVE  PairInv'
    <2>1. plan' = plan /\ seen' = seen /\ at' = k /\ pc' \in {"notice", "failed"} /\ todo' = todo
          /\ k \in todo /\ seen[k] # NONE /\ Reason(k) # "none" /\ told' = told \cup {k}
      BY <1>10 DEF NoticeClose, Then, Due
    <2>2. Reason(at)' # "none"
      BY <2>1 DEF Reason, Absent
    <2> QED
      BY <2>1, <2>2
  <1>11. ASSUME NEW k \in Keys, Skip(k)
        PROVE  PairInv'
    BY <1>11 DEF Skip
  <1>12. ASSUME NEW k \in Keys, NEW o \in BOOLEAN, NEW w \in {"none", "completed", "not_planned"},
                Human(k, o, w)
        PROVE  PairInv'
    <2>1. plan' = plan /\ seen' = seen /\ at' = at /\ pc' = pc /\ todo' = todo /\ told' = told
      BY <1>12 DEF Human, vars
    <2>2. pc = "comment" => issue'[at].text = issue[at].text
      <3> SUFFICES ASSUME pc = "comment"
                   PROVE  issue'[at].text = issue[at].text
        OBVIOUS
      <3>1. at \in Keys /\ issue[at] \in Issues
        BY RequestFacts
      <3> QED
        BY <1>12, <3>1 DEF Human, vars, Issues
    <2>3. pc = "comment" => Active(at)' /\ ~Reopens(at)'
      BY <2>1 DEF Active, Reopens
    <2>4. Reason(at)' = Reason(at)
      BY <2>1 DEF Reason, Absent
    <2> QED
      BY <2>1, <2>2, <2>3, <2>4
  <1>13. CASE UNCHANGED vars
    <2>1. plan' = plan /\ seen' = seen /\ at' = at /\ pc' = pc /\ todo' = todo /\ told' = told
      BY <1>13 DEF Human, vars
    <2>2. pc = "comment" => issue'[at].text = issue[at].text
      <3> SUFFICES ASSUME pc = "comment"
                   PROVE  issue'[at].text = issue[at].text
        OBVIOUS
      <3>1. at \in Keys /\ issue[at] \in Issues
        BY RequestFacts
      <3> QED
        BY <1>13, <3>1 DEF Human, vars, Issues
    <2>3. pc = "comment" => Active(at)' /\ ~Reopens(at)'
      BY <2>1 DEF Active, Reopens
    <2>4. Reason(at)' = Reason(at)
      BY <2>1 DEF Reason, Absent
    <2> QED
      BY <2>1, <2>2, <2>3, <2>4
  <1> QED
    BY <1>1, <1>2, <1>3, <1>4, <1>5, <1>6, <1>7, <1>8, <1>9, <1>10, <1>11, <1>12,
       <1>13
       DEF Next, Request

\* What is settled stays so while its issue and the plan do.
LEMMA SettledStays ==
  ASSUME NEW k \in Keys, plan' = plan, issue'[k] = issue[k], Settled(k)
  PROVE  Settled(k)'
  BY DEF Settled, Reason, Active, Absent

\* Undisturbed, a key is settled when the run has dealt with it.
LEMMA SettledStep ==
  ASSUME IInv, [Next]_vars, pc \in Working, pc' \in Working \cup {"done"},
         ~touched, ~touched', NEW j \in Keys \ todo'
  PROVE  Settled(j)'
  <1>0. ValuesOK /\ PairInv /\ UndisturbedInv /\ CopiesInv /\ NONE \notin Issues
    BY TypeParts, NoneIsNew DEF IInv
  <1> USE <1>0 DEF UndisturbedInv, ValuesOK, Working
  <1>a. j \notin todo => Settled(j)
    OBVIOUS
  <1>b. plan' = plan => /\ Reason(j)' = Reason(j)
                        /\ Active(j)' <=> Active(j)
    BY SamePlan
  <1>1. ASSUME NEW p \in Plans, Start(p)
        PROVE  Settled(j)'
    BY <1>1 DEF Start
  <1>2. CASE ListIssues
    BY <1>2 DEF ListIssues, Then
  <1>3. CASE CommentUpdate
    <2>1. plan' = plan /\ issue' = issue /\ todo' = todo \ {at} /\ pc = "comment"
      BY <1>3 DEF CommentUpdate
    <2>2. CASE j = at
      <3>1. issue[j] \in Issues /\ Active(j) /\ Reason(j) = "none" /\ issue[j].text = plan.text
        BY <2>1, <2>2, RequestFacts, ReasonFacts DEF PairInv
      <3>2. issue[j].open \/ issue[j].reason # "completed"
        BY <2>1, <2>2 DEF PairInv, Reopens
      <3>3. issue[j].open \/ issue[j].reason # "none"
        BY <3>1 DEF CopiesInv
      <3>4. issue[j].reason \in {"none", "completed", "not_planned"}
        BY <3>1 DEF Issues
      <3> QED
        BY <2>1, <3>1, <3>2, <3>3, <3>4, SettledStays DEF Settled
    <2>3. CASE j # at
      BY <1>a, <2>1, <2>3, SettledStays
    <2> QED
      BY <2>2, <2>3
  <1>4. CASE CloseIssue
    <2>1. plan' = plan /\ todo' = todo \ {at} /\ pc = "notice" /\ at \in Keys /\ issue[at] \in Issues
      BY <1>4, RequestFacts DEF CloseIssue
    <2>2. CASE j = at
      <3>1. issue'[j] = [issue[j] EXCEPT !.open = FALSE, !.reason = Reason(j)]
        BY <1>4, <2>1, <2>2 DEF CloseIssue
      <3>2. issue'[j].open = FALSE /\ issue'[j].reason = Reason(j)
        BY <2>1, <2>2, <3>1 DEF Issues
      <3>3. ~Active(j)
        BY <2>1, <2>2, ReasonFacts DEF PairInv
      <3> QED
        BY <1>b, <2>1, <3>2, <3>3 DEF Settled
    <2>3. CASE j # at
      BY <1>4, <1>a, <2>1, <2>3, SettledStays DEF CloseIssue
    <2> QED
      BY <2>2, <2>3
  <1>5. CASE Finish
    BY <1>5, <1>a, SettledStays DEF Finish, RequestFails, UpdateIssue, Due, Then, vars
  <1>6. CASE RequestFails
    BY <1>6, <1>a, SettledStays DEF Finish, RequestFails, UpdateIssue, Due, Then, vars
  <1>7. ASSUME NEW k \in Keys, CreateReview(k)
        PROVE  Settled(j)'
    <2>1. plan' = plan /\ todo' = todo \ {k} /\ pc = "loop" /\ Active(k) /\ issue'[k] = Opened
          /\ k \in todo
      BY <1>7 DEF CreateReview, Reopen, Due
    <2>2. CASE j = k
      <3>1. Reason(j) = "none"
        BY <2>1, <2>2, ReasonFacts
      <3> QED
        BY <1>b, <2>1, <2>2, <3>1, OpenedIssue DEF Settled
    <2>3. CASE j # k
      BY <1>7, <1>a, <2>1, <2>3, SettledStays DEF CreateReview, Reopen
    <2> QED
      BY <2>2, <2>3
  <1>8. ASSUME NEW k \in Keys, Reopen(k)
        PROVE  Settled(j)'
    <2>1. plan' = plan /\ todo' = todo \ {k} /\ pc = "loop" /\ Active(k) /\ issue'[k] = Opened
          /\ k \in todo
      BY <1>8 DEF CreateReview, Reopen, Due
    <2>2. CASE j = k
      <3>1. Reason(j) = "none"
        BY <2>1, <2>2, ReasonFacts
      <3> QED
        BY <1>b, <2>1, <2>2, <3>1, OpenedIssue DEF Settled
    <2>3. CASE j # k
      BY <1>8, <1>a, <2>1, <2>3, SettledStays DEF CreateReview, Reopen
    <2> QED
      BY <2>2, <2>3
  <1>9. ASSUME NEW k \in Keys, UpdateIssue(k)
        PROVE  Settled(j)'
    BY <1>9, <1>a, SettledStays DEF Finish, RequestFails, UpdateIssue, Due, Then, vars
  <1>10. ASSUME NEW k \in Keys, NoticeClose(k)
        PROVE  Settled(j)'
    BY <1>10, <1>a, SettledStays DEF NoticeClose, Due
  <1>11. ASSUME NEW k \in Keys, Skip(k)
        PROVE  Settled(j)'
    <2>1. plan' = plan /\ todo' = todo \ {k} /\ pc = "loop" /\ issue' = issue /\ k \in todo
          /\ at = NONE
      BY <1>11 DEF Skip, Due, PairInv
    <2>2. CASE j = k
      <3>1. issue[j] = seen[j]
        BY <2>1, <2>2, NoneIsNew
      <3>2. CASE seen[j] = NONE /\ ~Active(j)
        BY <2>1, <3>1, <3>2, SettledStays DEF Settled
      <3>3. CASE seen[j] # NONE /\ Active(j) /\ ~Reopens(j) /\ SameContent(j)
        <4>1. issue[j] \in Issues /\ Reason(j) = "none" /\ issue[j].text = plan.text
          BY <3>1, <3>3, ReasonFacts DEF SameContent
        <4>2. issue[j].open \/ issue[j].reason # "completed"
          BY <3>1, <3>3 DEF Reopens
        <4>3. issue[j].open \/ issue[j].reason # "none"
          BY <4>1 DEF CopiesInv
        <4>4. issue[j].reason \in {"none", "completed", "not_planned"}
          BY <4>1 DEF Issues
        <4> QED
          BY <2>1, <3>3, <4>1, <4>2, <4>3, <4>4, SettledStays DEF Settled
      <3>4. CASE /\ seen[j] # NONE /\ ~Active(j)
                 /\ Reason(j) = "none" \/ (~seen[j].open /\ seen[j].reason = Reason(j))
        BY <2>1, <3>1, <3>4, SettledStays DEF Settled
      <3> QED
        BY <1>11, <2>2, <3>2, <3>3, <3>4 DEF Skip
    <2>3. CASE j # k
      BY <1>a, <2>1, <2>3, SettledStays
    <2> QED
      BY <2>2, <2>3
  <1>12. ASSUME NEW k \in Keys, NEW o \in BOOLEAN, NEW w \in {"none", "completed", "not_planned"},
                Human(k, o, w)
        PROVE  Settled(j)'
    BY <1>12 DEF Human
  <1>13. CASE UNCHANGED vars
    BY <1>13, <1>a, SettledStays DEF Finish, RequestFails, UpdateIssue, Due, Then, vars
  <1> QED
    BY <1>1, <1>2, <1>3, <1>4, <1>5, <1>6, <1>7, <1>8, <1>9, <1>10, <1>11, <1>12,
       <1>13
       DEF Next, Request

\* A run gets to work by its listing, which alone forgets that it was disturbed.
LEMMA WorkStep ==
  ASSUME [Next]_vars, pc' \in Working, ~touched'
  PROVE  ListIssues \/ (pc \in Working /\ ~touched)
  <1> USE DEF Working
  <1>1. ASSUME NEW p \in Plans, Start(p)
        PROVE  ListIssues \/ (pc \in Working /\ ~touched)
    BY <1>1 DEF Start
  <1>2. CASE ListIssues
    BY <1>2 DEF ListIssues, Then
  <1>3. CASE CommentUpdate
    BY <1>3 DEF CommentUpdate, Then
  <1>4. CASE CloseIssue
    BY <1>4 DEF CloseIssue, Then
  <1>5. CASE Finish
    BY <1>5 DEF Finish
  <1>6. CASE RequestFails
    BY <1>6 DEF RequestFails
  <1>7. ASSUME NEW k \in Keys, CreateReview(k)
        PROVE  ListIssues \/ (pc \in Working /\ ~touched)
    BY <1>7 DEF CreateReview, Then
  <1>8. ASSUME NEW k \in Keys, Reopen(k)
        PROVE  ListIssues \/ (pc \in Working /\ ~touched)
    BY <1>8 DEF Reopen, Then
  <1>9. ASSUME NEW k \in Keys, UpdateIssue(k)
        PROVE  ListIssues \/ (pc \in Working /\ ~touched)
    BY <1>9 DEF UpdateIssue, Then
  <1>10. ASSUME NEW k \in Keys, NoticeClose(k)
        PROVE  ListIssues \/ (pc \in Working /\ ~touched)
    BY <1>10 DEF NoticeClose, Then
  <1>11. ASSUME NEW k \in Keys, Skip(k)
        PROVE  ListIssues \/ (pc \in Working /\ ~touched)
    BY <1>11 DEF Skip
  <1>12. ASSUME NEW k \in Keys, NEW o \in BOOLEAN, NEW w \in {"none", "completed", "not_planned"},
                Human(k, o, w)
        PROVE  ListIssues \/ (pc \in Working /\ ~touched)
    BY <1>12 DEF Human
  <1>13. CASE UNCHANGED vars
    BY <1>13 DEF vars
  <1> QED
    BY <1>1, <1>2, <1>3, <1>4, <1>5, <1>6, <1>7, <1>8, <1>9, <1>10, <1>11, <1>12,
       <1>13
       DEF Next, Request

\* Nothing but its end makes a run done.
LEMMA DoneStep ==
  ASSUME [Next]_vars, pc' = "done", ~touched'
  PROVE  Finish \/ (issue' = issue /\ plan' = plan /\ pc = "done" /\ ~touched)
  <1>1. ASSUME NEW p \in Plans, Start(p)
        PROVE  Finish \/ (issue' = issue /\ plan' = plan /\ pc = "done" /\ ~touched)
    BY <1>1 DEF Start
  <1>2. CASE ListIssues
    BY <1>2 DEF ListIssues, Then
  <1>3. CASE CommentUpdate
    BY <1>3 DEF CommentUpdate, Then
  <1>4. CASE CloseIssue
    BY <1>4 DEF CloseIssue, Then
  <1>5. CASE Finish
    BY <1>5 DEF Finish
  <1>6. CASE RequestFails
    BY <1>6 DEF RequestFails
  <1>7. ASSUME NEW k \in Keys, CreateReview(k)
        PROVE  Finish \/ (issue' = issue /\ plan' = plan /\ pc = "done" /\ ~touched)
    BY <1>7 DEF CreateReview, Then
  <1>8. ASSUME NEW k \in Keys, Reopen(k)
        PROVE  Finish \/ (issue' = issue /\ plan' = plan /\ pc = "done" /\ ~touched)
    BY <1>8 DEF Reopen, Then
  <1>9. ASSUME NEW k \in Keys, UpdateIssue(k)
        PROVE  Finish \/ (issue' = issue /\ plan' = plan /\ pc = "done" /\ ~touched)
    BY <1>9 DEF UpdateIssue, Then
  <1>10. ASSUME NEW k \in Keys, NoticeClose(k)
        PROVE  Finish \/ (issue' = issue /\ plan' = plan /\ pc = "done" /\ ~touched)
    BY <1>10 DEF NoticeClose, Then
  <1>11. ASSUME NEW k \in Keys, Skip(k)
        PROVE  Finish \/ (issue' = issue /\ plan' = plan /\ pc = "done" /\ ~touched)
    BY <1>11 DEF Skip
  <1>12. ASSUME NEW k \in Keys, NEW o \in BOOLEAN, NEW w \in {"none", "completed", "not_planned"},
                Human(k, o, w)
        PROVE  Finish \/ (issue' = issue /\ plan' = plan /\ pc = "done" /\ ~touched)
    BY <1>12 DEF Human
  <1>13. CASE UNCHANGED vars
    BY <1>13 DEF vars
  <1> QED
    BY <1>1, <1>2, <1>3, <1>4, <1>5, <1>6, <1>7, <1>8, <1>9, <1>10, <1>11, <1>12,
       <1>13
       DEF Next, Request

\* A working run leaves the issues of the other keys as they are listed.
LEMMA ListingStep ==
  ASSUME IInv, [Next]_vars, pc \in Working, pc' \in Working, ~touched, ~touched',
         NEW j \in todo', j # at'
  PROVE  issue'[j] = seen'[j]
  <1>0. ValuesOK /\ PairInv /\ UndisturbedInv /\ NONE \notin Keys
    BY TypeParts, NoneIsNew DEF IInv
  <1> USE <1>0 DEF UndisturbedInv, PairInv, ValuesOK, Working
  <1>1. ASSUME NEW p \in Plans, Start(p)
        PROVE  issue'[j] = seen'[j]
    BY <1>1 DEF Start
  <1>2. CASE ListIssues
    BY <1>2 DEF ListIssues, Then
  <1>3. CASE CommentUpdate
    BY <1>3 DEF CommentUpdate, CloseIssue, CreateReview, Reopen, UpdateIssue, NoticeClose, Then
  <1>4. CASE CloseIssue
    BY <1>4 DEF CommentUpdate, CloseIssue, CreateReview, Reopen, UpdateIssue, NoticeClose, Then
  <1>5. CASE Finish
    BY <1>5 DEF Finish
  <1>6. CASE RequestFails
    BY <1>6 DEF RequestFails
  <1>7. ASSUME NEW k \in Keys, CreateReview(k)
        PROVE  issue'[j] = seen'[j]
    BY <1>7 DEF CommentUpdate, CloseIssue, CreateReview, Reopen, UpdateIssue, NoticeClose, Then
  <1>8. ASSUME NEW k \in Keys, Reopen(k)
        PROVE  issue'[j] = seen'[j]
    BY <1>8 DEF CommentUpdate, CloseIssue, CreateReview, Reopen, UpdateIssue, NoticeClose, Then
  <1>9. ASSUME NEW k \in Keys, UpdateIssue(k)
        PROVE  issue'[j] = seen'[j]
    BY <1>9 DEF CommentUpdate, CloseIssue, CreateReview, Reopen, UpdateIssue, NoticeClose, Then
  <1>10. ASSUME NEW k \in Keys, NoticeClose(k)
        PROVE  issue'[j] = seen'[j]
    BY <1>10 DEF CommentUpdate, CloseIssue, CreateReview, Reopen, UpdateIssue, NoticeClose, Then
  <1>11. ASSUME NEW k \in Keys, Skip(k)
        PROVE  issue'[j] = seen'[j]
    BY <1>11 DEF Skip
  <1>12. ASSUME NEW k \in Keys, NEW o \in BOOLEAN, NEW w \in {"none", "completed", "not_planned"},
                Human(k, o, w)
        PROVE  issue'[j] = seen'[j]
    BY <1>12 DEF Human
  <1>13. CASE UNCHANGED vars
    BY <1>13 DEF vars
  <1> QED
    BY <1>1, <1>2, <1>3, <1>4, <1>5, <1>6, <1>7, <1>8, <1>9, <1>10, <1>11, <1>12,
       <1>13
       DEF Next, Request

\* The listing of a key that is still to do stays true while nobody disturbs.
LEMMA UndisturbedStep == IInv /\ [Next]_vars => UndisturbedInv'
  <1> SUFFICES ASSUME IInv, [Next]_vars, pc' \in Working, ~touched'
               PROVE  /\ \A j \in todo' : j # at' => issue'[j] = seen'[j]
                      /\ pc' = "comment" => /\ issue'[at'].open = seen'[at'].open
                                            /\ issue'[at'].reason = seen'[at'].reason
                      /\ \A j \in Keys \ todo' : Settled(j)'
    BY DEF UndisturbedInv
  <1>0. ValuesOK /\ PairInv /\ UndisturbedInv /\ NONE \notin Keys \cup Issues
    BY TypeParts, NoneIsNew DEF IInv
  <1>1. CASE ListIssues
    <2>1. todo' = Keys /\ seen' = issue /\ issue' = issue /\ pc' = "loop"
      BY <1>1 DEF ListIssues, Then, Working
    <2> QED
      BY <2>1
  <1>2. CASE ~ListIssues
    <2>1. pc \in Working /\ ~touched
      BY <1>2, WorkStep
    <2>2. \A j \in Keys \ todo' : Settled(j)'
      BY <2>1, SettledStep
    <2>3. \A j \in todo : j # at => issue[j] = seen[j]
      BY <1>0, <2>1 DEF UndisturbedInv
    <2>4. ASSUME NEW j \in todo', j # at'
          PROVE  issue'[j] = seen'[j]
      BY <1>2, <2>1, <2>4, ListingStep
    <2>5. ASSUME pc' = "comment"
          PROVE  issue'[at'].open = seen'[at'].open /\ issue'[at'].reason = seen'[at'].reason
      <3>1. CASE pc = "comment"
        <4>1. issue' = issue /\ seen' = seen /\ at' = at
          BY <1>0, <1>2, <2>1, <2>5, <3>1
             DEF Next, Request, Start, CommentUpdate, CloseIssue, Finish, RequestFails,
                 CreateReview, Reopen, UpdateIssue, NoticeClose, Skip, Human, vars, Then
        <4> QED
          BY <1>0, <2>1, <3>1, <4>1 DEF UndisturbedInv
      <3>2. CASE pc # "comment"
        <4>1. PICK k \in Keys : UpdateIssue(k)
          BY <1>0, <1>2, <2>1, <2>5, <3>2
             DEF Next, Request, Start, CommentUpdate, CloseIssue, Finish, RequestFails,
                 CreateReview, Reopen, NoticeClose, Skip, Human, vars, Then
        <4>2. pc = "loop" /\ k \in todo /\ at' = k /\ at = NONE /\ seen' = seen /\ seen[k] # NONE
          BY <1>0, <4>1 DEF UpdateIssue, Due, PairInv
        <4>3. issue[k] = seen[k] /\ issue[k] \in Issues
          BY <1>0, <2>3, <4>2, RequestFacts
        <4>4. issue'[k] = [issue[k] EXCEPT !.text = plan.text, !.run = run]
          BY <1>0, <4>1 DEF UpdateIssue, ValuesOK
        <4>5. issue'[k].open = issue[k].open /\ issue'[k].reason = issue[k].reason
          BY <4>3, <4>4 DEF Issues
        <4> QED
          BY <4>2, <4>3, <4>5
      <3> QED
        BY <3>1, <3>2
    <2> QED
      BY <2>2, <2>4, <2>5
  <1> QED
    BY <1>1, <1>2

\* A run ends well with an empty list, so everything is settled.
LEMMA ConvergedStep == IInv /\ [Next]_vars => Converged'
  <1> SUFFICES ASSUME IInv, [Next]_vars, pc' = "done", ~touched', NEW j \in Keys
               PROVE  Settled(j)'
    BY Zenon DEF Converged, Settled
  <1>0. ValuesOK /\ Converged
    BY TypeParts DEF IInv
  <1>1. CASE Finish
    <2>1. pc \in Working /\ ~touched /\ j \in Keys \ todo'
      BY <1>1 DEF Finish, Working
    <2> QED
      BY <2>1, SettledStep
  <1>2. CASE ~Finish
    <2>1. issue' = issue /\ plan' = plan /\ pc = "done" /\ ~touched
      BY <1>2, DoneStep
    <2>2. Settled(j)
      BY <1>0, <2>1 DEF Converged, Settled
    <2> QED
      BY <2>1, <2>2, SettledStays
  <1> QED
    BY <1>1, <1>2

LEMMA InvStep == IInv /\ [Next]_vars => IInv'
  <1> SUFFICES ASSUME IInv, [Next]_vars
               PROVE  IInv'
    OBVIOUS
  <1>1. TypeOK'
    BY ValuesStep, FlagsStep, Zenon DEF TypeOK, ValuesOK
  <1> QED
    BY <1>1, CopiesStep, ListStep, PairStep, UndisturbedStep, ConvergedStep DEF IInv

LEMMA Invariant == Spec => []IInv
  <1> QED
    BY InvInit, InvStep, PTL DEF Spec

-----------------------------------------------------------------------------
(***************************************************************************)
(* A lost answer, a failed run or a maintainer never leads to a second     *)
(* managed issue of a key, which would end every later run at its listing; *)
(* and a run that ends well and undisturbed has brought every issue into   *)
(* the state that the plan asks for.                                       *)
(***************************************************************************)
THEOREM IssuesTheorem == Spec => []IssuesSound
  <1>1. IInv => IssuesSound
    <2> SUFFICES ASSUME IInv
                 PROVE  IssuesSound
      OBVIOUS
    <2>1. NoDuplicates
      <3> SUFFICES ASSUME NEW k \in Keys
                   PROVE  copies[k] <= 1
        BY DEF NoDuplicates
      <3>1. copies[k] = IF issue[k] = NONE THEN 0 ELSE 1
        BY DEF IInv, CopiesInv
      <3> QED
        BY <3>1
    <2> QED
      BY <2>1 DEF IInv, IssuesSound
  <1> QED
    BY <1>1, Invariant, PTL

(***************************************************************************)
(* An open issue that the run closes has ended in the plan, or is absent   *)
(* from a plan whose check of its component counts as successful, and the  *)
(* comment that says why was made in this run (close_issue).               *)
(***************************************************************************)
THEOREM EvidenceTheorem == Spec => ClosedOnEvidence
  <1> DEFINE Evidence(k) ==
        (issue[k] # NONE /\ issue[k].open /\ ~issue'[k].open /\ humans' = humans) =>
          /\ k \in told
          /\ \/ plan.review[k] \in {"completed", "withdrawn"}
             \/ Absent(k) /\ Component[k] \in plan.ok
  <1>1. ASSUME IInv, [Next]_vars, NEW k \in Keys
        PROVE  Evidence(k)
    <2> SUFFICES ASSUME issue[k] # NONE, issue[k].open, ~issue'[k].open, humans' = humans
                 PROVE  k \in told /\ Reason(k) # "none"
      BY ReasonFacts
    <2>1. ValuesOK /\ PairInv
      BY <1>1, TypeParts DEF IInv
    <2>2. \/ issue'[k] = issue[k] \/ issue'[k] = Opened \/ issue'[k].open = issue[k].open
          \/ pc = "notice" /\ k = at
      BY <1>1, IssueStep
    <2>3. pc = "notice" /\ k = at
      BY <2>1, <2>2, OpenedIssue
    <2> QED
      BY <2>1, <2>3 DEF PairInv
  <1>2. IInv /\ [Next]_vars => [\A k \in Keys : Evidence(k)]_vars
    BY <1>1
  <1> QED
    BY <1>2, Invariant, PTL DEF Spec, ClosedOnEvidence

===============================================================================
