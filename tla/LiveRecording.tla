---------------------------- MODULE LiveRecording ----------------------------
(***************************************************************************)
(* Live recording: the rows of the live lifecycle, the watch toggle of a   *)
(* stream, the channel poller, the schedules with their scheduler jobs and *)
(* the coroutine each job runs, on top of the recorder pool, with crashes  *)
(* and the recovery at startup.                                            *)
(*                                                                         *)
(* Requests served by `async def` endpoints, the poller and the runners    *)
(* share the asyncio loop: an action is the code between two awaits.  The  *)
(* endpoints that are plain functions (deleting a stream, patching and     *)
(* deleting a schedule) run on threads, so they may also fall between two  *)
(* database sessions of one such run of code; `loop` is the runner that is *)
(* there.  Rows are numbered as SQLite does.  A scheduler job runs when    *)
(* its time comes and is dropped when the scheduler looks too late.        *)
(***************************************************************************)
EXTENDS RecorderPool, Integers

CONSTANTS
    Videos, NoVideo,    \* YouTube ids of broadcasts; "no such stream row"
    Rows, Schedules,    \* ids of recordings and of schedules
    Runners, Free,      \* run_scheduled_recording coroutines; "the loop is free"
    Lead,               \* LEAD_TIME_S, in units of the clock
    MaxTime,            \* bound of the clock
    MaxIssues,          \* bound: how often a schedule id is given out
    MaxRestarts         \* bound: how often the application goes down

ASSUME LiveRecordingAssumption ==
    /\ Streams \subseteq Nat \ {0} /\ Rows \subseteq Nat \ {0} /\ Schedules \subseteq Nat \ {0}
    /\ NoVideo \notin Videos /\ Free \notin Runners
    /\ Lead \in Nat /\ MaxTime \in Nat /\ MaxIssues \in Nat /\ MaxRestarts \in Nat

Time == 0..MaxTime
None == 0

VARIABLES
    video,          \* Stream.youtube_id, NoVideo when there is no such row
    rowStatus,      \* Recording.status, "absent" when there is no such row
    rowStream,      \* Recording.stream_id
    schedStatus,    \* Schedule.status, "absent" when there is no such row
    schedStream,    \* Schedule.stream_id
    startsAt, endsAt,
    lastLive,       \* ChannelWatcher.last_live_id (one watcher)
    jobs,           \* schedules with a scheduler job, due Lead before startsAt
    removing,       \* schedules whose delete request has yet to remove the job
    pc, local,      \* each runner: where it is, and its local variables
    waitsFor,       \* the recorder whose task a runner awaits in pool.stop
    loop,           \* the runner that holds the loop, or Free
    now, up, restarts,
    mine,           \* history: rows inserted since the application started
    gen             \* history: how often each schedule id was given out

recordingRows == <<rowStatus, rowStream>>
schedules == <<schedStatus, schedStream, startsAt, endsAt>>
runners == <<pc, local, waitsFor, loop>>
system == <<now, up, restarts>>
vars == <<poolVars, video, recordingRows, schedules, lastLive, jobs, removing, runners,
          system, mine, gen>>

RowStatus == {"absent", "recording", "complete", "interrupted"}
SchedStatus == {"absent", "pending", "running", "complete", "failed", "cancelled"}
Local == [sched : Schedules \cup {None}, gen : 0..MaxIssues, stream : Streams \cup {NoStream},
          until : Time, row : Rows \cup {None}, worker : Recorders \cup {NoRecorder}]
NoLocal == [sched |-> None, gen |-> 0, stream |-> NoStream, until |-> 0,
            row |-> None, worker |-> NoRecorder]

TypeOK ==
    /\ PoolTypeOK
    /\ video \in [Streams -> Videos \cup {NoVideo}]
    /\ rowStatus \in [Rows -> RowStatus]
    /\ rowStream \in [Rows -> Streams \cup {NoStream}]
    /\ schedStatus \in [Schedules -> SchedStatus]
    /\ schedStream \in [Schedules -> Streams \cup {NoStream}]
    /\ startsAt \in [Schedules -> Time] /\ endsAt \in [Schedules -> Time]
    /\ lastLive \in Videos \cup {NoVideo}
    /\ jobs \subseteq Schedules /\ removing \subseteq Schedules
    /\ pc \in [Runners -> {"idle", "fired", "looked_up", "sleeping", "stopping"}]
    /\ local \in [Runners -> Local]
    /\ waitsFor \in [Runners -> Recorders \cup {NoRecorder}]
    /\ loop \in Runners \cup {Free}
    /\ now \in Time /\ up \in BOOLEAN /\ restarts \in 0..MaxRestarts
    /\ mine \subseteq Rows
    /\ gen \in [Schedules -> 0..MaxIssues]

-----------------------------------------------------------------------------
(***************************************************************************)
(* Streams and the rows of buffer recordings.                              *)
(***************************************************************************)

\* A step of the event loop.
OnLoop == up /\ loop = Free

\* The id SQLite gives a new row when the ids in `used` are taken: one more
\* than the largest, hence the id of a deleted last row once more.
NextId(i, used) ==
    /\ \A j \in used : j < i
    /\ i > 1 => i - 1 \in used

ExistingStreams == {s \in Streams : video[s] # NoVideo}
ExistingRows == {r \in Rows : rowStatus[r] # "absent"}
ExistingSchedules == {i \in Schedules : schedStatus[i] # "absent"}

\* Stream s is, or becomes, the row of video v.
EnsureStream(s, v) ==
    \/ video[s] = v /\ UNCHANGED video
    \/ /\ \A t \in Streams : video[t] # v
       /\ NextId(s, ExistingStreams)
       /\ video' = [video EXCEPT ![s] = v]

InsertRow(r, s) ==
    /\ NextId(r, ExistingRows)
    /\ rowStatus' = [rowStatus EXCEPT ![r] = "recording"]
    /\ rowStream' = [rowStream EXCEPT ![r] = s]
    /\ mine' = mine \cup {r}

\* pool.start of a new worker, or the exception it raises.
Unreferenced(w) == rstate[w] = "unused" /\ \A u \in Runners : local[u].worker # w
StartWorker(w, s) == Unreferenced(w) /\ PoolStart(w, s)
FailToStart(s) == Refuses(s) /\ UNCHANGED poolVars

\* start_buffer_recording commits the row before pool.start can raise.
StartBufferRecording(s, started) ==
    /\ \E r \in Rows : InsertRow(r, s)
    /\ IF started THEN \E w \in Recorders : StartWorker(w, s) ELSE FailToStart(s)

\* PATCH /streams/{id}/watch leaves `enabled` at the given value.
PatchWatch(s, enabled) ==
    /\ OnLoop
    /\ s \in ExistingStreams
    /\ \/ /\ enabled /\ ~IsRecording(s)
          /\ \E started \in BOOLEAN : StartBufferRecording(s, started)
       \/ /\ ~enabled /\ PoolStop(s)
          /\ UNCHANGED <<recordingRows, mine>>
    /\ UNCHANGED <<video, schedules, lastLive, jobs, removing, runners, system, gen>>

\* POST /streams for a live broadcast.
CreateStream(s, v) ==
    /\ OnLoop
    /\ video[s] = NoVideo
    /\ EnsureStream(s, v)
    /\ UNCHANGED <<poolVars, recordingRows, schedules, lastLive, jobs, removing, runners,
                   system, mine, gen>>

\* The channel poller meets live broadcast v and does not ask whether its
\* stream is being recorded.
Poll(s, v) ==
    /\ OnLoop
    /\ v # lastLive
    /\ EnsureStream(s, v)
    /\ \E started \in BOOLEAN :
          /\ StartBufferRecording(s, started)
          /\ lastLive' = IF started THEN v ELSE lastLive
    /\ UNCHANGED <<schedules, jobs, removing, runners, system, gen>>

\* DELETE /streams/{id}, on a thread: the ORM takes the recordings along, and
\* leaves the schedules and the recorder.
DeleteStream(s) ==
    /\ up
    /\ s \in ExistingStreams
    /\ video' = [video EXCEPT ![s] = NoVideo]
    /\ rowStatus' = [r \in Rows |-> IF rowStream[r] = s THEN "absent" ELSE rowStatus[r]]
    /\ rowStream' = [r \in Rows |-> IF rowStream[r] = s THEN NoStream ELSE rowStream[r]]
    /\ UNCHANGED <<poolVars, schedules, lastLive, jobs, removing, runners, system, mine, gen>>

-----------------------------------------------------------------------------
(***************************************************************************)
(* The schedule endpoints and the scheduler.                               *)
(***************************************************************************)

\* POST /schedules: the row and, before the commit, its job.
CreateSchedule(i, s, v, starts, ends) ==
    /\ OnLoop
    /\ starts < ends
    /\ NextId(i, ExistingSchedules) /\ gen[i] < MaxIssues
    /\ EnsureStream(s, v)
    /\ schedStatus' = [schedStatus EXCEPT ![i] = "pending"]
    /\ schedStream' = [schedStream EXCEPT ![i] = s]
    /\ startsAt' = [startsAt EXCEPT ![i] = starts]
    /\ endsAt' = [endsAt EXCEPT ![i] = ends]
    /\ gen' = [gen EXCEPT ![i] = @ + 1]
    /\ jobs' = jobs \cup {i}
    /\ UNCHANGED <<poolVars, recordingRows, lastLive, removing, runners, system, mine>>

\* Mutants of the status patch: the job outlives a cancellation; setting pending
\* adds a job whatever has become of the first.
PatchStatusKeepsJob(i, new) ==
    /\ up
    /\ i \in ExistingSchedules
    /\ schedStatus' = [schedStatus EXCEPT ![i] = new]
    /\ UNCHANGED <<poolVars, video, recordingRows, schedStream, startsAt, endsAt, lastLive,
                   jobs, removing, runners, system, mine, gen>>
PatchStatusAddsJob(i, new) ==
    /\ up
    /\ i \in ExistingSchedules
    /\ schedStatus' = [schedStatus EXCEPT ![i] = new]
    /\ jobs' = IF new = "cancelled" THEN jobs \ {i} ELSE jobs \cup {i}
    /\ UNCHANGED <<poolVars, video, recordingRows, schedStream, startsAt, endsAt, lastLive,
                   removing, runners, system, mine, gen>>

\* PATCH /schedules/{id} of the status: "pending" adds no job.
PatchStatus(i, new) ==
    /\ up
    /\ i \in ExistingSchedules
    /\ schedStatus' = [schedStatus EXCEPT ![i] = new]
    /\ jobs' = IF new = "cancelled" THEN jobs \ {i} ELSE jobs
    /\ UNCHANGED <<poolVars, video, recordingRows, schedStream, startsAt, endsAt, lastLive,
                   removing, runners, system, mine, gen>>

\* PATCH /schedules/{id} of the times: a job that is still there moves along.
PatchTimes(i, starts, ends) ==
    /\ up
    /\ i \in ExistingSchedules
    /\ starts < ends
    /\ startsAt' = [startsAt EXCEPT ![i] = starts]
    /\ endsAt' = [endsAt EXCEPT ![i] = ends]
    /\ jobs' = IF schedStatus[i] = "cancelled" THEN jobs \ {i} ELSE jobs
    /\ UNCHANGED <<poolVars, video, recordingRows, schedStatus, schedStream, lastLive,
                   removing, runners, system, mine, gen>>

\* DELETE /schedules/{id}: the row first, then, after the commit, the job.
DeleteSchedule(i) ==
    /\ up
    /\ i \in ExistingSchedules
    /\ schedStatus' = [schedStatus EXCEPT ![i] = "absent"]
    /\ removing' = removing \cup {i}
    /\ UNCHANGED <<poolVars, video, recordingRows, schedStream, startsAt, endsAt, lastLive,
                   jobs, runners, system, mine, gen>>

RemoveJob(i) ==
    /\ up
    /\ i \in removing
    /\ removing' = removing \ {i}
    /\ jobs' = jobs \ {i}
    /\ UNCHANGED <<poolVars, video, recordingRows, schedules, lastLive, runners, system,
                   mine, gen>>

Due(i) == startsAt[i] - Lead

\* The scheduler submits the job and forgets it.
JobFires(i, u) ==
    /\ OnLoop
    /\ i \in jobs /\ Due(i) = now
    /\ pc[u] = "idle"
    /\ jobs' = jobs \ {i}
    /\ pc' = [pc EXCEPT ![u] = "fired"]
    /\ local' = [local EXCEPT ![u] = [NoLocal EXCEPT !.sched = i, !.gen = gen[i]]]
    /\ UNCHANGED <<poolVars, video, recordingRows, schedules, lastLive, removing, waitsFor,
                   loop, system, mine, gen>>

\* The job is past its misfire grace time: it is dropped.
JobMissed(i) ==
    /\ OnLoop
    /\ i \in jobs /\ Due(i) < now
    /\ jobs' = jobs \ {i}
    /\ UNCHANGED <<poolVars, video, recordingRows, schedules, lastLive, removing, runners,
                   system, mine, gen>>

Tick ==
    /\ loop = Free
    /\ now < MaxTime
    /\ now' = now + 1
    /\ UNCHANGED <<poolVars, video, recordingRows, schedules, lastLive, jobs, removing,
                   runners, up, restarts, mine, gen>>

-----------------------------------------------------------------------------
(***************************************************************************)
(* run_scheduled_recording and the recorders.                              *)
(***************************************************************************)

RunnerEnds(u) ==
    /\ pc' = [pc EXCEPT ![u] = "idle"]
    /\ local' = [local EXCEPT ![u] = NoLocal]

\* Bound: a row id and, unless pool.start refuses, a worker object are left, so
\* that a runner which holds the loop can go on.
RoomToRun(s) ==
    /\ \E r \in Rows : NextId(r, ExistingRows)
    /\ Refuses(s) \/ \E w \in Recorders : Unreferenced(w)

\* The first session.  The exceptions end the runner; the one for a missing
\* stream rolls back the "failed" that the session has just written.
RunLookup(u) ==
    LET i == local[u].sched IN
    /\ OnLoop
    /\ pc[u] = "fired"
    /\ \/ /\ i \notin ExistingSchedules \/ schedStream[i] \notin ExistingStreams
          /\ RunnerEnds(u)
          /\ UNCHANGED loop
       \/ /\ i \in ExistingSchedules /\ schedStream[i] \in ExistingStreams
          /\ RoomToRun(schedStream[i])
          /\ pc' = [pc EXCEPT ![u] = "looked_up"]
          /\ local' = [local EXCEPT ![u].stream = schedStream[i], ![u].until = endsAt[i]]
          /\ loop' = u
    /\ UNCHANGED <<poolVars, video, recordingRows, schedules, lastLive, jobs, removing,
                   waitsFor, system, mine, gen>>

SetSchedStatus(i, new) ==
    schedStatus' = IF i \in ExistingSchedules
                   THEN [schedStatus EXCEPT ![i] = new] ELSE schedStatus

\* The row, then the schedule, then pool.start: what it raises leaves both rows.
RunBegin(u) ==
    LET s == local[u].stream IN
    /\ up
    /\ loop = u
    /\ SetSchedStatus(local[u].sched, "running")
    /\ \E r \in Rows :
          /\ InsertRow(r, s)
          /\ \/ FailToStart(s) /\ RunnerEnds(u)
             \/ \E w \in Recorders :
                   /\ StartWorker(w, s)
                   /\ pc' = [pc EXCEPT ![u] = "sleeping"]
                   /\ local' = [local EXCEPT ![u].row = r, ![u].worker = w]
    /\ loop' = Free
    /\ UNCHANGED <<video, schedStream, startsAt, endsAt, lastLive, jobs, removing, waitsFor,
                   system, gen>>

\* The last session.
RunComplete(u) ==
    LET r == local[u].row IN
    /\ SetSchedStatus(local[u].sched, "complete")
    /\ rowStatus' = IF r \in ExistingRows
                    THEN [rowStatus EXCEPT ![r] = "complete"] ELSE rowStatus
    /\ RunnerEnds(u)
    /\ UNCHANGED <<video, rowStream, schedStream, startsAt, endsAt, lastLive, jobs, removing,
                   loop, system, mine, gen>>

\* Mutant: the runner stops the recorder without waiting for its end.
WakeUpEarly(u) ==
    /\ OnLoop
    /\ pc[u] = "sleeping" /\ now >= local[u].until
    /\ PoolStop(local[u].stream) \/ (~IsRecording(local[u].stream) /\ UNCHANGED poolVars)
    /\ RunComplete(u)
    /\ UNCHANGED waitsFor

\* The end time of when the runner started has come: pool.stop whichever
\* recorder the stream has now, and await its task; or there is none.
WakeUp(u) ==
    LET s == local[u].stream IN
    /\ OnLoop
    /\ pc[u] = "sleeping" /\ now >= local[u].until
    /\ \/ /\ PoolStop(s)
          /\ pc' = [pc EXCEPT ![u] = "stopping"]
          /\ waitsFor' = [waitsFor EXCEPT ![u] = registered[s]]
          /\ UNCHANGED <<video, recordingRows, schedules, lastLive, jobs, removing, local,
                         loop, system, mine, gen>>
       \/ ~IsRecording(s) /\ RunComplete(u) /\ UNCHANGED <<poolVars, waitsFor>>

\* The awaited task is over.
Resume(u) ==
    /\ OnLoop
    /\ pc[u] = "stopping" /\ waitsFor[u] = NoRecorder
    /\ RunComplete(u)
    /\ UNCHANGED <<poolVars, waitsFor>>

RunnerStep(u) == RunLookup(u) \/ RunBegin(u) \/ WakeUp(u) \/ Resume(u)

\* A recorder's step; its end wakes up who awaits its task.
Record(r) ==
    /\ OnLoop
    /\ RecorderStep(r)
    /\ waitsFor' = [u \in Runners |->
                       IF waitsFor[u] = r /\ rstate'[r] = "unused"
                       THEN NoRecorder ELSE waitsFor[u]]
    /\ UNCHANGED <<video, recordingRows, schedules, lastLive, jobs, removing, pc, local, loop,
                   system, mine, gen>>

\* POST /recordings/{id}/finalize
FinalizeRecording(r) ==
    /\ OnLoop
    /\ r \in ExistingRows
    /\ rowStatus' = [rowStatus EXCEPT ![r] = "complete"]
    /\ UNCHANGED <<poolVars, video, rowStream, schedules, lastLive, jobs, removing, runners,
                   system, mine, gen>>

-----------------------------------------------------------------------------
(***************************************************************************)
(* Going down and startup.  An orderly shutdown cancels the runners and    *)
(* writes no row, so for the rows it is one more way of going down.        *)
(***************************************************************************)

GoDown ==
    /\ up
    /\ restarts < MaxRestarts
    /\ up' = FALSE
    /\ restarts' = restarts + 1
    /\ rstate' = [r \in Recorders |-> "unused"]
    /\ rstream' = [r \in Recorders |-> NoStream]
    /\ stopRequested' = {} /\ overflowed' = {}
    /\ registered' = [s \in Streams |-> NoRecorder]
    /\ jobs' = {} /\ removing' = {}
    /\ pc' = [u \in Runners |-> "idle"]
    /\ local' = [u \in Runners |-> NoLocal]
    /\ waitsFor' = [u \in Runners |-> NoRecorder]
    /\ loop' = Free
    /\ mine' = {}
    /\ UNCHANGED <<video, recordingRows, schedules, lastLive, now, gen>>

\* Mutant: no orphan recovery.
NotInterrupted == rowStatus

\* mark_interrupted_on_startup
Interrupted ==
    [r \in Rows |-> IF rowStatus[r] = "recording" THEN "interrupted" ELSE rowStatus[r]]

\* ScheduleManager.rehydrate_from_db
Rehydrated == {i \in Schedules : schedStatus[i] = "pending" /\ startsAt[i] > now}

Startup ==
    /\ ~up
    /\ up' = TRUE
    /\ rowStatus' = Interrupted
    /\ jobs' = Rehydrated
    /\ UNCHANGED <<poolVars, video, rowStream, schedules, lastLive, removing, runners, now,
                   restarts, mine, gen>>

-----------------------------------------------------------------------------
Init ==
    /\ PoolInit
    /\ video = [s \in Streams |-> NoVideo]
    /\ rowStatus = [r \in Rows |-> "absent"]
    /\ rowStream = [r \in Rows |-> NoStream]
    /\ schedStatus = [i \in Schedules |-> "absent"]
    /\ schedStream = [i \in Schedules |-> NoStream]
    /\ startsAt = [i \in Schedules |-> 0] /\ endsAt = [i \in Schedules |-> 0]
    /\ lastLive = NoVideo
    /\ jobs = {} /\ removing = {}
    /\ pc = [u \in Runners |-> "idle"]
    /\ local = [u \in Runners |-> NoLocal]
    /\ waitsFor = [u \in Runners |-> NoRecorder]
    /\ loop = Free
    /\ now = 0 /\ up = TRUE /\ restarts = 0
    /\ mine = {}
    /\ gen = [i \in Schedules |-> 0]

StreamRequest(s) ==
    \/ \E enabled \in BOOLEAN : PatchWatch(s, enabled)
    \/ \E v \in Videos : CreateStream(s, v) \/ Poll(s, v)
    \/ DeleteStream(s)

ScheduleRequest(i) ==
    \/ \E starts, ends \in Time :
          \/ PatchTimes(i, starts, ends)
          \/ \E s \in Streams, v \in Videos : CreateSchedule(i, s, v, starts, ends)
    \/ \E new \in {"pending", "cancelled"} : PatchStatus(i, new)
    \/ DeleteSchedule(i) \/ RemoveJob(i)

Next ==
    \/ \E s \in Streams : StreamRequest(s)
    \/ \E i \in Schedules : ScheduleRequest(i) \/ JobMissed(i)
    \/ \E i \in Schedules, u \in Runners : JobFires(i, u)
    \/ \E u \in Runners : RunnerStep(u)
    \/ \E r \in Recorders : Record(r)
    \/ \E r \in Rows : FinalizeRecording(r)
    \/ Tick \/ GoDown \/ Startup

Spec == Init /\ [][Next]_vars

\* The loop runs its tasks, time passes, and SIGTERM ends yt-dlp.
Fairness ==
    /\ WF_vars(Tick)
    /\ \A u \in Runners : WF_vars(RunnerStep(u))
    /\ \A r \in Recorders :
          /\ WF_vars(Record(r) /\ (Spawned(r) \/ SpawnFails(r)))
          /\ WF_vars(Record(r) /\ ChildTerminates(r))
          /\ WF_vars(Record(r) /\ Reaped(r))

LiveSpec == Spec /\ Fairness
-----------------------------------------------------------------------------
(***************************************************************************)
(* Properties.                                                             *)
(***************************************************************************)

\* While the application is up, a row that says "recording" was inserted by
\* this run of it: recovery misses no row of an earlier one, for no crash.
RecordingIsOfThisRun == up => \A r \in Rows : rowStatus[r] = "recording" => r \in mine

\* A job never outlives what it was for: the schedule is pending, or it has
\* been deleted and the request is about to remove the job.
JobsArePending ==
    \A i \in jobs : gen[i] <= 1 =>
        schedStatus[i] = "pending" \/ (schedStatus[i] = "absent" /\ i \in removing)

\* A schedule is never run twice at a time, whatever is patched meanwhile.
OneRunPerSchedule ==
    \A t, u \in Runners :
        /\ pc[t] # "idle" /\ pc[u] # "idle"
        /\ local[t].sched = local[u].sched /\ local[t].gen = local[u].gen
        => t = u

\* When a scheduled run writes "complete", its own recorder no longer writes to
\* the directory, although pool.stop is told the stream and not the recorder.
CompleteIsClosed ==
    [][\A u \in Runners :
        pc[u] \in {"sleeping", "stopping"} /\ pc'[u] = "idle" /\ up'
            => rstate'[local[u].worker] \notin Writing]_vars

\* Every scheduled run ends, also when the recorder it stops is just being
\* spawned, unless asyncio has stopped reading that recorder's output.
RunsEnd ==
    \A u \in Runners :
        pc[u] = "sleeping" ~>
            pc[u] = "idle" \/ (pc[u] = "stopping" /\ waitsFor[u] \in overflowed)

\* What the documentation says and the code does not do (see the README).

\* docs/release-checklist.md: "schedule status flips pending -> running ->
\* complete", so the run of a schedule ends.
RunsComplete == \A u \in Runners : pc[u] = "sleeping" ~> pc[u] = "idle"
=============================================================================
