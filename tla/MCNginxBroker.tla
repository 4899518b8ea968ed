---------------------------- MODULE MCNginxBroker ----------------------------
(* Bounds: two staged files stand for the three artifacts and the CRS files, *)
(* two attempts for a rerun, one killed command in each attempt.             *)
EXTENDS NginxBroker

ExceptStart == Commands \ {"start"}
OnlyStart == {"start"}
=============================================================================
