--------------------------- MODULE MCRecorderPool ---------------------------
(***************************************************************************)
(* Instances of RecorderPool for TLC.                                      *)
(***************************************************************************)
EXTENDS RecorderPool, TLC

CONSTANTS s1, s2, s3, r1, r2, r3

\* Streams and recorders are only compared for equality.
PoolSymmetry == Permutations(Streams) \cup Permutations(Recorders)
=============================================================================
