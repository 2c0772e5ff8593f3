----------------------------- MODULE MCVodQueue -----------------------------
(***************************************************************************)
(* Instances of VodQueue for TLC.                                          *)
(***************************************************************************)
EXTENDS VodQueue, TLC

CONSTANTS w1, w2

\* Workers are only compared for equality.
WorkerSymmetry == Permutations(Workers)
=============================================================================
