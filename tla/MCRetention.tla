---------------------------- MODULE MCRetention ----------------------------
(***************************************************************************)
(* Instances of Retention for TLC.                                         *)
(***************************************************************************)
EXTENDS Retention, TLC

CONSTANTS s1, s2
=============================================================================
