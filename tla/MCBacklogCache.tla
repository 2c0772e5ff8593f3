--------------------------- MODULE MCBacklogCache ---------------------------
(***************************************************************************)
(* Instances of BacklogCache for TLC.                                      *)
(***************************************************************************)
EXTENDS BacklogCache, TLC

CONSTANTS t1, t2, v1, v2, v3
=============================================================================
