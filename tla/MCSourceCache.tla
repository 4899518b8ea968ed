--------------------------- MODULE MCSourceCache ----------------------------
(* Bounds: two preparers with two runs each, one kill, two moves of the ref (there and back),  *)
(* two commits: a killed preparer, its restart and a peer overlap.           *)
EXTENDS SourceCache, TLC
CONSTANTS p1, p2, main, dev
OneRef == [p \in Procs |-> main]
TwoRefs == (p1 :> main) @@ (p2 :> dev)
AnyStep == Inside \cup {"lock", "save"}
=============================================================================
