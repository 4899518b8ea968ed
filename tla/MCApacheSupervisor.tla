------------------------ MODULE MCApacheSupervisor ------------------------
(* Finite instances of ApacheSupervisor for TLC. *)
EXTENDS ApacheSupervisor, TLC

AllFaults == FaultKinds
RemovalFaultAndKill == {"remove", "kill"}
Interchangeable == Permutations(Sessions)
===========================================================================
