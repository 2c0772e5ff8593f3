---------------------------- MODULE DownloadJobs ----------------------------
(***************************************************************************)
(* What the VOD queue promises, without FIFO, flags, statuses or children: *)
(* a download that was asked for is begun at most once, by one worker, and *)
(* is not asked for again before it has ended or was withdrawn.            *)
(***************************************************************************)
CONSTANTS Rows, Workers

VARIABLES
    due,        \* rows whose download was asked for and has not begun
    atWork      \* pairs <<worker, row>>: the worker downloads the row

Busy(w) == \E i \in Rows : <<w, i>> \in atWork
HasWorker(i) == \E w \in Workers : <<w, i>> \in atWork

\* One row is created or retried; at startup, all that are still to be done.
Ask(S) ==
    /\ \A i \in S : i \notin due /\ ~HasWorker(i)
    /\ due' = due \cup S
    /\ UNCHANGED atWork

Begin(w, i) ==
    /\ i \in due /\ ~Busy(w) /\ ~HasWorker(i)
    /\ due' = due \ {i}
    /\ atWork' = atWork \cup {<<w, i>>}

\* A row is skipped when its turn comes, or a request has failed with its rows.
Withdraw(S) ==
    /\ S \subseteq due
    /\ due' = due \ S
    /\ UNCHANGED atWork

End(w, i) ==
    /\ <<w, i>> \in atWork
    /\ atWork' = atWork \ {<<w, i>>}
    /\ UNCHANGED due

\* The id goes to another row; the promise is about the first one only.
Forget(i) ==
    /\ due' = due \ {i}
    /\ atWork' = {a \in atWork : a[2] # i}

\* Memory is lost; what comes up again has been asked for those in S.
Restart(S) == due' = S /\ atWork' = {}

Init == due = {} /\ atWork = {}

Next ==
    \/ \E S \in SUBSET Rows : Ask(S) \/ Withdraw(S) \/ Restart(S)
    \/ \E i \in Rows : Forget(i)
    \/ \E w \in Workers, i \in Rows : Begin(w, i) \/ End(w, i)

Spec == Init /\ [][Next]_<<due, atWork>>
=============================================================================
