------------------------ MODULE MCApacheOwnership -------------------------
(* Finite instances of ApacheOwnership for TLC. *)
EXTENDS ApacheOwnership

AllFaults == FaultKinds
===========================================================================
