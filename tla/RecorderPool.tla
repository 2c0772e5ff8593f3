---------------------------- MODULE RecorderPool ----------------------------
(***************************************************************************)
(* The pool of live recorders (pool.py) and the worker object each of its  *)
(* tasks runs (recorder.py): start, stop, the spawn of yt-dlp, its end.    *)
(*                                                                         *)
(* A recorder stands for a RecorderWorker object with its task; it can be  *)
(* used again once its task is over and nothing refers to it.  Everything  *)
(* runs on the asyncio loop, so an action is the code between two awaits.  *)
(* The dictionaries _workers and _tasks are filled by one such run of code *)
(* and emptied by another, so one variable stands for both.                *)
(***************************************************************************)
EXTENDS Naturals, FiniteSets

CONSTANTS
    Streams,        \* ids of stream rows
    Recorders,      \* RecorderWorker objects
    NoRecorder,     \* "not in the dictionary"
    NoStream,       \* the stream of a recorder that is not in use
    MaxConcurrent   \* settings.max_concurrent_recordings

ASSUME RecorderPoolAssumption ==
    /\ IsFiniteSet(Streams)
    /\ IsFiniteSet(Recorders)
    /\ NoRecorder \notin Recorders
    /\ NoStream \notin Streams
    /\ MaxConcurrent \in Nat

VARIABLES
    rstate,         \* where each recorder's task is, and its child
    rstream,        \* RecorderWorker.stream_id
    stopRequested,  \* recorders with _stop_requested set
    overflowed,     \* recorders for whose child asyncio has stopped reading output
    registered      \* RecorderPool._workers (and _tasks)

poolVars == <<rstate, rstream, stopRequested, overflowed, registered>>

\* The child writes fragments, is blocked on its full output pipe, or has been
\* sent SIGTERM; in each case it still has the directory.
Writing == {"recording", "blocked", "terminated"}
RecorderState == Writing \cup {"unused", "scheduled", "exited"}

PoolTypeOK ==
    /\ rstate \in [Recorders -> RecorderState]
    /\ rstream \in [Recorders -> Streams \cup {NoStream}]
    /\ stopRequested \subseteq Recorders
    /\ overflowed \subseteq Recorders
    /\ registered \in [Streams -> Recorders \cup {NoRecorder}]

IsRecording(s) == registered[s] # NoRecorder

Registered == {s \in Streams : IsRecording(s)}

\* pool.start raises: ValueError for a stream that is recorded, RuntimeError
\* when the pool is full.
Refuses(s) == IsRecording(s) \/ Cardinality(Registered) >= MaxConcurrent

\* Mutant: the dictionary is given the stream id instead of the worker.
RegisterId(r, s) ==
    /\ rstate[r] = "unused"
    /\ rstate' = [rstate EXCEPT ![r] = "scheduled"]
    /\ rstream' = [rstream EXCEPT ![r] = s]
    /\ registered' = [registered EXCEPT ![s] = s]
    /\ UNCHANGED <<stopRequested, overflowed>>

Register(r, s) ==
    /\ rstate[r] = "unused"
    /\ rstate' = [rstate EXCEPT ![r] = "scheduled"]
    /\ rstream' = [rstream EXCEPT ![r] = s]
    /\ registered' = [registered EXCEPT ![s] = r]
    /\ UNCHANGED <<stopRequested, overflowed>>

\* Mutants of pool.start: no test of the capacity, no test of the stream.
StartUnbounded(r, s) == ~IsRecording(s) /\ Register(r, s)
StartTwice(r, s) == Cardinality(Registered) < MaxConcurrent /\ Register(r, s)

\* pool.start with a new worker.
PoolStart(r, s) == ~Refuses(s) /\ Register(r, s)

\* worker.stop: the flag, and SIGTERM to a child that has been spawned.
StopRecorder(r) ==
    /\ stopRequested' = stopRequested \cup {r}
    /\ rstate' = IF rstate[r] \in Writing
                 THEN [rstate EXCEPT ![r] = "terminated"] ELSE rstate
    /\ UNCHANGED <<rstream, overflowed>>

\* Mutant: stop forgets the worker before its task is over.
StopForgets(s) ==
    /\ IsRecording(s)
    /\ StopRecorder(registered[s])
    /\ registered' = [registered EXCEPT ![s] = NoRecorder]

\* pool.stop of a stream that is recorded, up to `await task`.
PoolStop(s) ==
    /\ IsRecording(s)
    /\ StopRecorder(registered[s])
    /\ UNCHANGED registered

\* The `finally` of runner_task: pop the stream of the worker.
TaskEnds(r) ==
    /\ registered' = [registered EXCEPT ![rstream[r]] = NoRecorder]
    /\ rstate' = [rstate EXCEPT ![r] = "unused"]
    /\ rstream' = [rstream EXCEPT ![r] = NoStream]
    /\ stopRequested' = stopRequested \ {r}
    /\ UNCHANGED overflowed

\* Mutant: run() does not look at the flag after the spawn.
SpawnedUnchecked(r) ==
    /\ rstate[r] = "scheduled"
    /\ rstate' = [rstate EXCEPT ![r] = "recording"]
    /\ UNCHANGED <<rstream, stopRequested, overflowed, registered>>

\* The spawn returns; a stop() that came before it is honoured now.
Spawned(r) ==
    /\ rstate[r] = "scheduled"
    /\ rstate' = [rstate EXCEPT ![r] =
                    IF r \in stopRequested THEN "terminated" ELSE "recording"]
    /\ UNCHANGED <<rstream, stopRequested, overflowed, registered>>

\* mkdir or the spawn raises.
SpawnFails(r) == rstate[r] = "scheduled" /\ TaskEnds(r)

\* stdout and stderr are pipes that run() never reads.  asyncio buffers them up
\* to a limit, and then stops reading.
OutputOverflows(r) ==
    /\ rstate[r] = "recording" /\ r \notin overflowed
    /\ overflowed' = overflowed \cup {r}
    /\ UNCHANGED <<rstate, rstream, stopRequested, registered>>

\* The pipe is full as well: yt-dlp blocks on a write.
ChildBlocks(r) ==
    /\ rstate[r] = "recording" /\ r \in overflowed
    /\ rstate' = [rstate EXCEPT ![r] = "blocked"]
    /\ UNCHANGED <<rstream, stopRequested, overflowed, registered>>

ChildEnds(r) ==
    /\ rstate' = [rstate EXCEPT ![r] = "exited"]
    /\ UNCHANGED <<rstream, stopRequested, overflowed, registered>>

\* The broadcast ends, or yt-dlp gives up.
BroadcastEnds(r) == rstate[r] = "recording" /\ ChildEnds(r)

\* A child that was sent SIGTERM dies.
ChildTerminates(r) == rstate[r] = "terminated" /\ ChildEnds(r)

\* proc.wait() returns and the task ends.  asyncio wakes up its waiters when all
\* pipes have reported their end, which one that is not read never does.
Reaped(r) == rstate[r] = "exited" /\ r \notin overflowed /\ TaskEnds(r)

RecorderStep(r) ==
    Spawned(r) \/ SpawnFails(r) \/ OutputOverflows(r) \/ ChildBlocks(r)
        \/ BroadcastEnds(r) \/ ChildTerminates(r) \/ Reaped(r)

PoolInit ==
    /\ rstate = [r \in Recorders |-> "unused"]
    /\ rstream = [r \in Recorders |-> NoStream]
    /\ stopRequested = {}
    /\ overflowed = {}
    /\ registered = [s \in Streams |-> NoRecorder]

PoolNext ==
    \/ \E r \in Recorders, s \in Streams : PoolStart(r, s)
    \/ \E s \in Streams : PoolStop(s)
    \/ \E r \in Recorders : RecorderStep(r)

PoolSpec == PoolInit /\ [][PoolNext]_poolVars

\* The loop runs its tasks, and SIGTERM ends yt-dlp; a broadcast need not end.
PoolFairness ==
    \A r \in Recorders :
        /\ WF_poolVars(Spawned(r) \/ SpawnFails(r))
        /\ WF_poolVars(ChildTerminates(r))
        /\ WF_poolVars(Reaped(r))

PoolLiveSpec == PoolSpec /\ PoolFairness
-----------------------------------------------------------------------------
\* The dictionary knows every recorder in use under its own stream, whatever
\* the order of stops, spawns and exits: none is lost, and is_recording and
\* stop never reach the wrong one.
RegistryExact ==
    \A r \in Recorders, s \in Streams :
        registered[s] = r <=> rstate[r] # "unused" /\ rstream[r] = s

\* Never two yt-dlp in one stream's directory, not even while the one that was
\* stopped is still on its way out.
OneWriterPerStream ==
    \A q, r \in Recorders :
        rstate[q] \in Writing /\ rstate[r] \in Writing /\ rstream[q] = rstream[r] => q = r

\* max_concurrent_recordings bounds the children that run, stopping ones included.
WithinCapacity == Cardinality({r \in Recorders : rstate[r] \in Writing}) <= MaxConcurrent

\* The pool implements RecordingSlots.
writers == {<<r, rstream[r]>> : r \in {q \in Recorders : rstate[q] \in Writing}}
Slots == INSTANCE RecordingSlots WITH active <- writers
ImplementsSlots == Slots!Spec

\* A stop ends the child even when it comes before the child exists or after the
\* child has blocked on its output; it ends the task too, unless asyncio has
\* stopped reading the output.
StopHonoured ==
    \A r \in Recorders :
        r \in stopRequested ~>
            r \notin stopRequested \/ (r \in overflowed /\ rstate[r] = "exited")
=============================================================================
