----------------------------- MODULE MCVodIngest -----------------------------
(***************************************************************************)
(* Instances of VodIngest for TLC.                                         *)
(***************************************************************************)
EXTENDS VodIngest, TLC

CONSTANTS v1, v2, p1, p2, w1, w2

IngestSymmetry == Permutations({v1, v2}) \cup Permutations({w1, w2})
=============================================================================
