--------------------------- MODULE MCReviewIssues ----------------------------
(* Bounds: two targets of one component and kind, so that one supersedes the *)
(* other, three runs with two texts, so that a review can end and come back  *)
(* after a run that left it unfinished, one failing request and one change   *)
(* by a maintainer, who can close an issue that a run has to open again.     *)
EXTENDS ReviewIssues
CONSTANTS k1, k2, lighttpd, series
Same == [k \in Keys |-> lighttpd]
OneKind == [k \in Keys |-> series]
===============================================================================
