--------------------------- MODULE RecordingSlots ---------------------------
(***************************************************************************)
(* What the recorder pool promises, without tasks, children or stop flags: *)
(* at most MaxConcurrent recordings at a time, and at most one of a stream,*)
(* since all the fragments of a stream go to one directory.                *)
(***************************************************************************)
EXTENDS Naturals, FiniteSets

CONSTANTS Streams, Recorders, MaxConcurrent

VARIABLE active     \* pairs <<recorder, stream>>: yt-dlp runs for the stream

Begin(r, s) ==
    /\ \A a \in active : a[1] # r /\ a[2] # s
    /\ Cardinality(active) < MaxConcurrent
    /\ active' = active \cup {<<r, s>>}

End(r, s) ==
    /\ <<r, s>> \in active
    /\ active' = active \ {<<r, s>>}

Init == active = {}

Next == \E r \in Recorders, s \in Streams : Begin(r, s) \/ End(r, s)

Spec == Init /\ [][Next]_active

\* The same for a pool that goes down with its process: nothing is recorded
\* after that, and it begins afresh.
Down == active' = {}

RestartSpec == Init /\ [][Next \/ Down]_active
=============================================================================
