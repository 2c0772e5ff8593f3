----------------------------- MODULE MCPublisher -----------------------------
(***************************************************************************)
(* Instances of Publisher for TLC.                                         *)
(***************************************************************************)
EXTENDS Publisher, TLC

CONSTANTS w1, w2

WorkerSymmetry == Permutations({w1, w2})
=============================================================================
