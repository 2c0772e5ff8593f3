--------------------------- MODULE MCLiveRecording ---------------------------
(***************************************************************************)
(* Instances of LiveRecording for TLC.                                     *)
(***************************************************************************)
EXTENDS LiveRecording, TLC

CONSTANTS r1, r2, u1, u2, v1, v2

\* Recorders, runners and broadcasts are only compared for equality; streams,
\* rows and schedules are ordered by their ids.
LiveSymmetry == Permutations(Recorders) \cup Permutations(Runners) \cup Permutations(Videos)
=============================================================================
