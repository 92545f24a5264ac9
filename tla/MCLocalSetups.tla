---------------------------- MODULE MCLocalSetups ----------------------------
(* Instances of LocalSetups for TLC. *)
EXTENDS LocalSetups
=============================================================================
