------------------------- MODULE LiveRecordingProofs -------------------------
(***************************************************************************)
(* Safety of LiveRecording for any streams, rows, schedules, runners and   *)
(* recorders, any capacity, lead time and number of restarts.              *)
(*                                                                         *)
(* The pool keeps its own invariant, since every step of this module is a  *)
(* step of the pool, leaves it alone or starts it afresh.  On top of it:   *)
(* what a runner's local variables say of its recorder, and that a job of  *)
(* a schedule is newer than every runner of the same id.                   *)
(***************************************************************************)
EXTENDS LiveRecording, RecorderPoolProofs

InRun == {"sleeping", "stopping"}

RowsTyped ==
    /\ video \in [Streams -> Videos \cup {NoVideo}]
    /\ rowStatus \in [Rows -> RowStatus]
    /\ rowStream \in [Rows -> Streams \cup {NoStream}]
    /\ lastLive \in Videos \cup {NoVideo}
    /\ mine \subseteq Rows

SchedulesTyped ==
    /\ schedStatus \in [Schedules -> SchedStatus]
    /\ schedStream \in [Schedules -> Streams \cup {NoStream}]
    /\ startsAt \in [Schedules -> Time] /\ endsAt \in [Schedules -> Time]
    /\ jobs \subseteq Schedules /\ removing \subseteq Schedules
    /\ gen \in [Schedules -> 0..MaxIssues]

RunnersTyped ==
    /\ pc \in [Runners -> {"idle", "fired", "looked_up", "sleeping", "stopping"}]
    /\ local \in [Runners -> Local]
    /\ waitsFor \in [Runners -> Recorders \cup {NoRecorder}]
    /\ loop \in Runners \cup {Free}

SystemTyped == now \in Time /\ up \in BOOLEAN /\ restarts \in 0..MaxRestarts

LEMMA TypeParts ==
    TypeOK <=> PoolTypeOK /\ RowsTyped /\ SchedulesTyped /\ RunnersTyped /\ SystemTyped
BY DEF TypeOK, RowsTyped, SchedulesTyped, RunnersTyped, SystemTyped

\* A runner that is under way knows the schedule, the stream and the recorder it
\* needs, and only one that has looked its schedule up holds the loop.
RunnersKnow ==
    /\ \A u \in Runners :
        /\ pc[u] # "idle" => local[u].sched \in Schedules
        /\ pc[u] \in InRun \cup {"looked_up"} => local[u].stream \in Streams
        /\ pc[u] \in InRun => local[u].worker \in Recorders
    /\ loop # Free => pc[loop] = "looked_up"

\* A runner was fired for a schedule that had been created, and a job of its id
\* is the job of a schedule created later.
JobsAreNewer ==
    \A u \in Runners : pc[u] # "idle" =>
        /\ 1 <= local[u].gen /\ local[u].gen <= gen[local[u].sched]
        /\ local[u].sched \in jobs => local[u].gen < gen[local[u].sched]

\* What has a row or a job was created.
CreatedOnce ==
    /\ \A i \in Schedules : schedStatus[i] # "absent" => 1 <= gen[i]
    /\ \A i \in jobs : 1 <= gen[i]

\* Nothing but the database outlives the application.
DownIsIdle == ~up => jobs = {} /\ \A u \in Runners : pc[u] = "idle"

\* The recorder a runner has started is over or still records the runner's
\* stream; once the runner awaits the end of another recorder, it is over.
OwnRecorder ==
    \A u \in Runners : pc[u] \in InRun =>
        /\ \/ rstate[local[u].worker] = "unused"
           \/ rstream[local[u].worker] = local[u].stream
        /\ pc[u] = "stopping" =>
              \/ waitsFor[u] = local[u].worker
              \/ rstate[local[u].worker] = "unused"

LiveTyped == PoolInv /\ RowsTyped /\ SchedulesTyped /\ RunnersTyped /\ SystemTyped /\ RunnersKnow

-----------------------------------------------------------------------------
(***************************************************************************)
(* The pool below.                                                         *)
(***************************************************************************)

\* Every step but going down is a step of the pool or leaves it alone.
LEMMA StepOfPool ==
    ASSUME RunnersKnow, RunnersTyped, Next, ~GoDown
    PROVE  [PoolNext]_poolVars
<1>1. ASSUME NEW s \in Streams, StreamRequest(s)  PROVE [PoolNext]_poolVars
  <2>1. ASSUME NEW enabled \in BOOLEAN, PatchWatch(s, enabled)  PROVE [PoolNext]_poolVars
    BY <2>1 DEF PatchWatch, StartBufferRecording, StartWorker, FailToStart, PoolNext
  <2>2. ASSUME NEW v \in Videos, CreateStream(s, v)  PROVE [PoolNext]_poolVars
    BY <2>2 DEF CreateStream
  <2>3. ASSUME NEW v \in Videos, Poll(s, v)  PROVE [PoolNext]_poolVars
    BY <2>3 DEF Poll, StartBufferRecording, StartWorker, FailToStart, PoolNext
  <2>4. CASE DeleteStream(s)
    BY <2>4 DEF DeleteStream
  <2> QED BY <1>1, <2>1, <2>2, <2>3, <2>4 DEF StreamRequest
<1>2. ASSUME NEW i \in Schedules, ScheduleRequest(i) \/ JobMissed(i)  PROVE UNCHANGED poolVars
  BY <1>2 DEF ScheduleRequest, PatchTimes, CreateSchedule, PatchStatus, DeleteSchedule,
              RemoveJob, JobMissed
<1>3. ASSUME NEW i \in Schedules, NEW u \in Runners, JobFires(i, u)  PROVE UNCHANGED poolVars
  BY <1>3 DEF JobFires
<1>4. ASSUME NEW u \in Runners, RunnerStep(u)  PROVE [PoolNext]_poolVars
  <2>1. CASE RunLookup(u) \/ Resume(u)
    BY <2>1 DEF RunLookup, Resume
  <2>2. CASE RunBegin(u)
    <3>1. local[u].stream \in Streams
      BY <2>2, LiveRecordingAssumption DEF RunBegin, RunnersKnow
    <3>2. FailToStart(local[u].stream) \/ \E w \in Recorders : PoolStart(w, local[u].stream)
      BY <2>2 DEF RunBegin, StartWorker
    <3> QED BY <3>1, <3>2 DEF FailToStart, PoolNext
  <2>3. CASE WakeUp(u)
    <3>1. local[u].stream \in Streams
      BY <2>3 DEF WakeUp, RunnersKnow, InRun
    <3> QED BY <2>3, <3>1 DEF WakeUp, PoolNext
  <2> QED BY <1>4, <2>1, <2>2, <2>3 DEF RunnerStep
<1>5. ASSUME NEW r \in Recorders, Record(r)  PROVE [PoolNext]_poolVars
  BY <1>5 DEF Record, PoolNext
<1>6. ASSUME NEW r \in Rows, FinalizeRecording(r)  PROVE UNCHANGED poolVars
  BY <1>6 DEF FinalizeRecording
<1>7. CASE Tick \/ Startup
  BY <1>7 DEF Tick, Startup
<1> QED BY <1>1, <1>2, <1>3, <1>4, <1>5, <1>6, <1>7 DEF Next

\* Going down starts the pool afresh.
LEMMA DownStartsPool == ASSUME GoDown PROVE PoolInv'
<1> USE RecorderPoolAssumption DEF GoDown
<1>1. PoolTypeOK'
  BY DEF PoolTypeOK, RecorderState
<1>2. InUseHasStream'
  BY DEF InUseHasStream
<1>3. RegistryExact'
  BY DEF RegistryExact
<1> QED BY <1>1, <1>2, <1>3 DEF PoolInv

LEMMA StepKeepsPool == LiveTyped /\ [Next]_vars => PoolInv'
<1>1. ASSUME LiveTyped, Next, ~GoDown  PROVE PoolInv'
  BY <1>1, StepOfPool, NextPreservesPoolInv DEF LiveTyped
<1>2. ASSUME LiveTyped, UNCHANGED vars  PROVE PoolInv'
  <2>1. UNCHANGED poolVars
    BY <1>2 DEF vars
  <2> QED BY <1>2, <2>1, NextPreservesPoolInv DEF LiveTyped
<1> QED BY <1>1, <1>2, DownStartsPool

-----------------------------------------------------------------------------
(***************************************************************************)
(* Type correctness.                                                       *)
(***************************************************************************)

LEMMA InsertRowTyped ==
    ASSUME RowsTyped, NEW r \in Rows, NEW s \in Streams, InsertRow(r, s)
    PROVE  /\ rowStatus' \in [Rows -> RowStatus]
           /\ rowStream' \in [Rows -> Streams \cup {NoStream}]
           /\ mine' \subseteq Rows
BY DEF RowsTyped, InsertRow, RowStatus

LEMMA EnsureStreamTyped ==
    ASSUME RowsTyped, NEW s \in Streams, NEW v \in Videos, EnsureStream(s, v)
    PROVE  video' \in [Streams -> Videos \cup {NoVideo}]
BY DEF RowsTyped, EnsureStream

LEMMA StreamRequestTyped ==
    ASSUME LiveTyped, NEW s \in Streams, StreamRequest(s)
    PROVE  RowsTyped' /\ UNCHANGED <<schedules, jobs, removing, runners, system, gen>>
<1>1. ASSUME NEW enabled \in BOOLEAN, PatchWatch(s, enabled)
      PROVE  RowsTyped' /\ UNCHANGED <<schedules, jobs, removing, runners, system, gen>>
  <2>1. \/ UNCHANGED <<rowStatus, rowStream, mine>>
        \/ \E r \in Rows : InsertRow(r, s)
    BY <1>1 DEF PatchWatch, StartBufferRecording, recordingRows
  <2>2. /\ UNCHANGED <<video, lastLive>>
        /\ UNCHANGED <<schedules, jobs, removing, runners, system, gen>>
    BY <1>1 DEF PatchWatch
  <2>3. /\ rowStatus' \in [Rows -> RowStatus]
        /\ rowStream' \in [Rows -> Streams \cup {NoStream}]
        /\ mine' \subseteq Rows
    BY <2>1, InsertRowTyped DEF LiveTyped, RowsTyped
  <2> QED BY <2>2, <2>3 DEF LiveTyped, RowsTyped
<1>2. ASSUME NEW v \in Videos, CreateStream(s, v)
      PROVE  RowsTyped' /\ UNCHANGED <<schedules, jobs, removing, runners, system, gen>>
  BY <1>2, EnsureStreamTyped DEF CreateStream, LiveTyped, RowsTyped, recordingRows
<1>3. ASSUME NEW v \in Videos, Poll(s, v)
      PROVE  RowsTyped' /\ UNCHANGED <<schedules, jobs, removing, runners, system, gen>>
  <2>1. PICK r \in Rows : InsertRow(r, s)
    BY <1>3 DEF Poll, StartBufferRecording
  <2>2. lastLive' \in Videos \cup {NoVideo}
    BY <1>3 DEF Poll, LiveTyped, RowsTyped
  <2>3. EnsureStream(s, v) /\ UNCHANGED <<schedules, jobs, removing, runners, system, gen>>
    BY <1>3 DEF Poll
  <2> QED BY <2>1, <2>2, <2>3, InsertRowTyped, EnsureStreamTyped DEF LiveTyped, RowsTyped
<1>4. CASE DeleteStream(s)
  BY <1>4 DEF DeleteStream, LiveTyped, RowsTyped, RowStatus
<1> QED BY <1>1, <1>2, <1>3, <1>4 DEF StreamRequest

LEMMA ScheduleRequestTyped ==
    ASSUME LiveTyped, NEW i \in Schedules, ScheduleRequest(i)
    PROVE  /\ RowsTyped' /\ SchedulesTyped'
           /\ UNCHANGED <<runners, system>>
<1> USE LiveRecordingAssumption DEF LiveTyped, SchedulesTyped, SchedStatus
<1>1. ASSUME NEW starts \in Time, NEW ends \in Time, PatchTimes(i, starts, ends)
      PROVE  RowsTyped' /\ SchedulesTyped' /\ UNCHANGED <<runners, system>>
  BY <1>1 DEF PatchTimes, RowsTyped, recordingRows
<1>2. ASSUME NEW starts \in Time, NEW ends \in Time, NEW s \in Streams, NEW v \in Videos,
             CreateSchedule(i, s, v, starts, ends)
      PROVE  RowsTyped' /\ SchedulesTyped' /\ UNCHANGED <<runners, system>>
  <2>1. gen' \in [Schedules -> 0..MaxIssues]
    BY <1>2 DEF CreateSchedule
  <2>2. EnsureStream(s, v) /\ UNCHANGED <<recordingRows, lastLive, mine, runners, system>>
    BY <1>2 DEF CreateSchedule
  <2>3. /\ schedStatus' \in [Schedules -> SchedStatus]
        /\ schedStream' \in [Schedules -> Streams \cup {NoStream}]
        /\ startsAt' \in [Schedules -> Time] /\ endsAt' \in [Schedules -> Time]
        /\ jobs' \subseteq Schedules /\ removing' \subseteq Schedules
    BY <1>2 DEF CreateSchedule
  <2> QED BY <2>1, <2>2, <2>3, EnsureStreamTyped DEF RowsTyped, recordingRows
<1>3. ASSUME NEW new \in {"pending", "cancelled"}, PatchStatus(i, new)
      PROVE  RowsTyped' /\ SchedulesTyped' /\ UNCHANGED <<runners, system>>
  BY <1>3 DEF PatchStatus, RowsTyped, recordingRows
<1>4. CASE DeleteSchedule(i) \/ RemoveJob(i)
  BY <1>4 DEF DeleteSchedule, RemoveJob, RowsTyped, recordingRows, schedules
<1> QED BY <1>1, <1>2, <1>3, <1>4 DEF ScheduleRequest

\* The schedule of a run may be gone; a write to it is typed either way.
LEMMA SetSchedStatusTyped ==
    ASSUME SchedulesTyped, NEW i \in Schedules, NEW new \in SchedStatus, SetSchedStatus(i, new)
    PROVE  schedStatus' \in [Schedules -> SchedStatus]
BY DEF SchedulesTyped, SetSchedStatus

LEMMA LocalTyped ==
    ASSUME RunnersTyped, NEW u \in Runners
    PROVE  /\ NoLocal \in Local
           /\ local[u] \in Local
           /\ \A i \in Schedules, g \in 0..MaxIssues :
                 [NoLocal EXCEPT !.sched = i, !.gen = g] \in Local
           /\ \A s \in Streams, t \in Time :
                 [local[u] EXCEPT !.stream = s, !.until = t] \in Local
           /\ \A r \in Rows, w \in Recorders :
                 [local[u] EXCEPT !.row = r, !.worker = w] \in Local
<1>1. NoLocal \in Local
  BY LiveRecordingAssumption DEF NoLocal, Local, None, Time
<1>2. local[u] \in Local
  BY DEF RunnersTyped
<1> QED BY <1>1, <1>2 DEF Local

\* The steps of the runners, the recorders and the clock.
RunnersOK == RunnersTyped /\ RunnersKnow

LEMMA RunnerEndsTyped ==
    ASSUME LiveTyped, NEW u \in Runners, RunnerEnds(u), UNCHANGED <<loop, waitsFor>>,
           loop # u
    PROVE  RunnersOK'
BY LocalTyped DEF LiveTyped, RunnersOK, RunnersTyped, RunnersKnow, RunnerEnds, InRun

LEMMA JobFiresTyped ==
    ASSUME LiveTyped, NEW i \in Schedules, NEW u \in Runners, JobFires(i, u)
    PROVE  RunnersOK'
<1>1. loop = Free /\ UNCHANGED <<loop, waitsFor>>
  BY DEF JobFires, OnLoop
<1>2. /\ pc' = [pc EXCEPT ![u] = "fired"]
      /\ local' = [local EXCEPT ![u] = [NoLocal EXCEPT !.sched = i, !.gen = gen[i]]]
  BY DEF JobFires
<1>3. [NoLocal EXCEPT !.sched = i, !.gen = gen[i]] \in Local
  BY LocalTyped DEF LiveTyped, SchedulesTyped
<1>4. RunnersTyped'
  BY <1>1, <1>2, <1>3 DEF LiveTyped, RunnersTyped
<1>5. [NoLocal EXCEPT !.sched = i, !.gen = gen[i]].sched = i
  BY DEF NoLocal
<1>6. RunnersKnow'
  BY <1>1, <1>2, <1>5 DEF LiveTyped, RunnersTyped, RunnersKnow, InRun
<1> QED BY <1>4, <1>6 DEF RunnersOK

LEMMA RunLookupTyped ==
    ASSUME LiveTyped, NEW u \in Runners, RunLookup(u)
    PROVE  RunnersOK'
<1> DEFINE i == local[u].sched
<1>1. loop = Free /\ pc[u] = "fired" /\ UNCHANGED waitsFor /\ i \in Schedules
  BY DEF RunLookup, OnLoop, LiveTyped, RunnersKnow
<1>2. CASE RunnerEnds(u) /\ UNCHANGED loop
  BY <1>1, <1>2, RunnerEndsTyped, LiveRecordingAssumption
<1>3. CASE /\ schedStream[i] \in ExistingStreams
           /\ pc' = [pc EXCEPT ![u] = "looked_up"]
           /\ local' = [local EXCEPT ![u].stream = schedStream[i], ![u].until = endsAt[i]]
           /\ loop' = u
  <2>1. schedStream[i] \in Streams /\ endsAt[i] \in Time
    BY <1>1, <1>3 DEF ExistingStreams, LiveTyped, SchedulesTyped
  <2> DEFINE new == [local[u] EXCEPT !.stream = schedStream[i], !.until = endsAt[i]]
  <2>2. local' = [local EXCEPT ![u] = new]
    BY <1>3 DEF LiveTyped, RunnersTyped
  <2>3. new \in Local
    BY <2>1, LocalTyped DEF LiveTyped
  <2>4. new.sched = local[u].sched /\ new.stream = schedStream[i]
    BY LocalTyped DEF LiveTyped, Local
  <2> HIDE DEF new
  <2>5. RunnersTyped'
    BY <1>1, <1>3, <2>2, <2>3 DEF LiveTyped, RunnersTyped
  <2>6. RunnersKnow'
    BY <1>1, <1>3, <2>1, <2>2, <2>4 DEF LiveTyped, RunnersTyped, RunnersKnow, InRun
  <2> QED BY <2>5, <2>6 DEF RunnersOK
<1> QED BY <1>2, <1>3 DEF RunLookup

LEMMA RunBeginTyped ==
    ASSUME LiveTyped, NEW u \in Runners, RunBegin(u)
    PROVE  RunnersOK' /\ RowsTyped' /\ SchedulesTyped'
<1>1. u # Free /\ loop = u /\ pc[u] = "looked_up" /\ loop' = Free /\ UNCHANGED waitsFor
  BY LiveRecordingAssumption DEF RunBegin, LiveTyped, RunnersKnow
<1>2. local[u].sched \in Schedules /\ local[u].stream \in Streams
  BY <1>1 DEF LiveTyped, RunnersKnow
<1>3. PICK r \in Rows :
        /\ InsertRow(r, local[u].stream)
        /\ \/ RunnerEnds(u)
           \/ \E w \in Recorders :
                 /\ pc' = [pc EXCEPT ![u] = "sleeping"]
                 /\ local' = [local EXCEPT ![u].row = r, ![u].worker = w]
  BY DEF RunBegin
<1>4. RowsTyped'
  BY <1>2, <1>3, InsertRowTyped DEF RunBegin, LiveTyped, RowsTyped
<1>5. SchedulesTyped'
  <2>1. schedStatus' \in [Schedules -> SchedStatus]
    BY <1>2, SetSchedStatusTyped DEF RunBegin, LiveTyped, SchedStatus
  <2> QED BY <2>1 DEF RunBegin, LiveTyped, SchedulesTyped
<1>6. CASE RunnerEnds(u)
  <2>1. pc' = [pc EXCEPT ![u] = "idle"] /\ local' = [local EXCEPT ![u] = NoLocal]
    BY <1>6 DEF RunnerEnds
  <2>2. RunnersTyped'
    BY <1>1, <2>1, LocalTyped DEF LiveTyped, RunnersTyped
  <2>3. RunnersKnow'
    BY <1>1, <2>1 DEF LiveTyped, RunnersTyped, RunnersKnow, InRun
  <2> QED BY <1>4, <1>5, <2>2, <2>3 DEF RunnersOK
<1>7. ASSUME NEW w \in Recorders,
             pc' = [pc EXCEPT ![u] = "sleeping"],
             local' = [local EXCEPT ![u].row = r, ![u].worker = w]
      PROVE  RunnersOK'
  <2> DEFINE new == [local[u] EXCEPT !.row = r, !.worker = w]
  <2>1. local' = [local EXCEPT ![u] = new]
    BY <1>7 DEF LiveTyped, RunnersTyped
  <2>2. new \in Local
    BY LocalTyped DEF LiveTyped
  <2>3. new.sched = local[u].sched /\ new.stream = local[u].stream /\ new.worker = w
    BY LocalTyped DEF LiveTyped, Local
  <2> HIDE DEF new
  <2>4. RunnersTyped'
    BY <1>1, <1>7, <2>1, <2>2 DEF LiveTyped, RunnersTyped
  <2>5. RunnersKnow'
    BY <1>1, <1>2, <1>7, <2>1, <2>3 DEF LiveTyped, RunnersTyped, RunnersKnow, InRun
  <2> QED BY <2>4, <2>5 DEF RunnersOK
<1> QED BY <1>3, <1>4, <1>5, <1>6, <1>7

LEMMA RunCompleteTyped ==
    ASSUME LiveTyped, NEW u \in Runners, RunComplete(u), UNCHANGED waitsFor,
           loop = Free, pc[u] \in InRun
    PROVE  RunnersOK' /\ RowsTyped' /\ SchedulesTyped'
<1>1. local[u].sched \in Schedules
  BY DEF LiveTyped, RunnersKnow, InRun
<1>2. RunnersOK'
  BY RunnerEndsTyped, LiveRecordingAssumption DEF RunComplete
<1>3. RowsTyped'
  BY DEF RunComplete, LiveTyped, RowsTyped, RowStatus
<1>4. schedStatus' \in [Schedules -> SchedStatus]
  BY <1>1, SetSchedStatusTyped DEF RunComplete, LiveTyped, SchedStatus
<1> QED BY <1>2, <1>3, <1>4 DEF RunComplete, LiveTyped, SchedulesTyped

LEMMA WakeUpTyped ==
    ASSUME LiveTyped, NEW u \in Runners, WakeUp(u)
    PROVE  RunnersOK' /\ RowsTyped' /\ SchedulesTyped'
<1>1. loop = Free /\ pc[u] = "sleeping" /\ local[u].stream \in Streams
  BY DEF WakeUp, OnLoop, LiveTyped, RunnersKnow, InRun
<1>2. CASE RunComplete(u) /\ UNCHANGED waitsFor
  BY <1>1, <1>2, RunCompleteTyped DEF InRun
<1>3. CASE /\ pc' = [pc EXCEPT ![u] = "stopping"]
           /\ waitsFor' = [waitsFor EXCEPT ![u] = registered[local[u].stream]]
           /\ UNCHANGED <<video, recordingRows, schedules, lastLive, jobs, removing, local,
                          loop, system, mine, gen>>
  <2>1. registered[local[u].stream] \in Recorders \cup {NoRecorder}
    BY <1>1 DEF LiveTyped, PoolInv, PoolTypeOK
  <2>2. RunnersTyped'
    BY <1>3, <2>1 DEF LiveTyped, RunnersTyped
  <2>3. RunnersKnow'
    BY <1>1, <1>3 DEF LiveTyped, RunnersTyped, RunnersKnow, InRun
  <2>4. RowsTyped'
    BY <1>3 DEF LiveTyped, RowsTyped, recordingRows
  <2>5. SchedulesTyped'
    BY <1>3 DEF LiveTyped, SchedulesTyped, schedules
  <2> QED BY <2>2, <2>3, <2>4, <2>5 DEF RunnersOK
<1> QED BY <1>2, <1>3 DEF WakeUp

LEMMA RunnerStepTyped ==
    ASSUME LiveTyped, NEW u \in Runners, RunnerStep(u)
    PROVE  RunnersOK' /\ RowsTyped' /\ SchedulesTyped' /\ SystemTyped'
<1>1. SystemTyped'
  <2>1. UNCHANGED system
    BY DEF RunnerStep, RunLookup, RunBegin, WakeUp, Resume, RunComplete
  <2> QED BY <2>1 DEF LiveTyped, SystemTyped, system
<1>2. CASE RunLookup(u)
  <2>1. RowsTyped' /\ SchedulesTyped'
    BY <1>2 DEF RunLookup, LiveTyped, RowsTyped, SchedulesTyped, recordingRows, schedules
  <2> QED BY <1>1, <1>2, <2>1, RunLookupTyped
<1>3. CASE Resume(u)
  BY <1>1, <1>3, RunCompleteTyped DEF Resume, OnLoop, InRun
<1> QED BY <1>1, <1>2, <1>3, RunBeginTyped, WakeUpTyped DEF RunnerStep

LEMMA OtherStepsTyped ==
    ASSUME LiveTyped,
           \/ \E r \in Recorders : Record(r)
           \/ \E r \in Rows : FinalizeRecording(r)
           \/ \E i \in Schedules : JobMissed(i)
           \/ \E i \in Schedules, u \in Runners : JobFires(i, u)
           \/ Tick \/ GoDown \/ Startup \/ UNCHANGED vars
    PROVE  RunnersOK' /\ RowsTyped' /\ SchedulesTyped' /\ SystemTyped'
<1> USE LiveRecordingAssumption
<1>1. ASSUME NEW r \in Recorders, Record(r)
      PROVE  RunnersOK' /\ RowsTyped' /\ SchedulesTyped' /\ SystemTyped'
  <2>1. waitsFor' \in [Runners -> Recorders \cup {NoRecorder}]
    BY <1>1 DEF Record, LiveTyped, RunnersTyped
  <2>2. RunnersOK'
    BY <1>1, <2>1 DEF Record, LiveTyped, RunnersOK, RunnersTyped, RunnersKnow
  <2> QED
    BY <1>1, <2>2 DEF Record, LiveTyped, RowsTyped, SchedulesTyped, SystemTyped, recordingRows,
                      schedules, system
<1>2. ASSUME NEW r \in Rows, FinalizeRecording(r)
      PROVE  RunnersOK' /\ RowsTyped' /\ SchedulesTyped' /\ SystemTyped'
  BY <1>2 DEF FinalizeRecording, LiveTyped, RunnersOK, RunnersTyped, RunnersKnow, RowsTyped,
              RowStatus, SchedulesTyped, SystemTyped, schedules, system, runners
<1>3. ASSUME NEW i \in Schedules, JobMissed(i)
      PROVE  RunnersOK' /\ RowsTyped' /\ SchedulesTyped' /\ SystemTyped'
  BY <1>3 DEF JobMissed, LiveTyped, RunnersOK, RunnersTyped, RunnersKnow, RowsTyped,
              SchedulesTyped, SystemTyped, recordingRows, schedules, system, runners
<1>4. ASSUME NEW i \in Schedules, NEW u \in Runners, JobFires(i, u)
      PROVE  RunnersOK' /\ RowsTyped' /\ SchedulesTyped' /\ SystemTyped'
  <2>1. RowsTyped' /\ SchedulesTyped' /\ SystemTyped'
    BY <1>4 DEF JobFires, LiveTyped, RowsTyped, SchedulesTyped, SystemTyped, recordingRows,
                schedules, system
  <2> QED BY <1>4, <2>1, JobFiresTyped
<1>5. CASE Tick
  <2>1. now' \in Time
    BY <1>5 DEF Tick, LiveTyped, SystemTyped, Time
  <2> QED
    BY <1>5, <2>1 DEF Tick, LiveTyped, RunnersOK, RunnersTyped, RunnersKnow, RowsTyped,
                      SchedulesTyped, SystemTyped, recordingRows, schedules, runners
<1>6. CASE GoDown
  <2>1. NoLocal \in Local
    BY LiveRecordingAssumption DEF NoLocal, Local, None, Time
  <2>2. RunnersOK'
    BY <1>6, <2>1 DEF GoDown, RunnersOK, RunnersTyped, RunnersKnow, InRun
  <2>3. restarts' \in 0..MaxRestarts /\ now' \in Time
    BY <1>6 DEF GoDown, LiveTyped, SystemTyped
  <2>4. up' \in BOOLEAN
    BY <1>6, Zenon DEF GoDown
  <2> QED
    BY <1>6, <2>2, <2>3, <2>4 DEF GoDown, LiveTyped, RowsTyped, SchedulesTyped, SystemTyped,
                            recordingRows, schedules
<1>7. CASE Startup
  <2>1. rowStatus' \in [Rows -> RowStatus]
    BY <1>7 DEF Startup, Interrupted, LiveTyped, RowsTyped, RowStatus
  <2>2. jobs' \subseteq Schedules
    BY <1>7 DEF Startup, Rehydrated
  <2> QED
    BY <1>7, <2>1, <2>2 DEF Startup, LiveTyped, RunnersOK, RunnersTyped, RunnersKnow, RowsTyped,
                            SchedulesTyped, SystemTyped, schedules, runners
<1>8. CASE UNCHANGED vars
  BY <1>8 DEF vars, LiveTyped, RunnersOK, RunnersTyped, RunnersKnow, RowsTyped, SchedulesTyped,
              SystemTyped, recordingRows, schedules, system, runners
<1> QED BY <1>1, <1>2, <1>3, <1>4, <1>5, <1>6, <1>7, <1>8

LEMMA StepTyped == LiveTyped /\ [Next]_vars => LiveTyped'
<1> SUFFICES ASSUME LiveTyped, [Next]_vars
             PROVE  RunnersOK' /\ RowsTyped' /\ SchedulesTyped' /\ SystemTyped'
  BY StepKeepsPool DEF LiveTyped, RunnersOK
<1>1. ASSUME NEW s \in Streams, StreamRequest(s)
      PROVE  RunnersOK' /\ RowsTyped' /\ SchedulesTyped' /\ SystemTyped'
  <2>1. RowsTyped' /\ UNCHANGED <<schedules, jobs, removing, runners, system, gen>>
    BY <1>1, StreamRequestTyped
  <2> QED
    BY <2>1 DEF LiveTyped, RunnersOK, RunnersTyped, RunnersKnow, SchedulesTyped, SystemTyped,
                schedules, system, runners
<1>2. ASSUME NEW i \in Schedules, ScheduleRequest(i)
      PROVE  RunnersOK' /\ RowsTyped' /\ SchedulesTyped' /\ SystemTyped'
  <2>1. RowsTyped' /\ SchedulesTyped' /\ UNCHANGED <<runners, system>>
    BY <1>2, ScheduleRequestTyped
  <2> QED
    BY <2>1 DEF LiveTyped, RunnersOK, RunnersTyped, RunnersKnow, SystemTyped, system, runners
<1>3. ASSUME NEW u \in Runners, RunnerStep(u)
      PROVE  RunnersOK' /\ RowsTyped' /\ SchedulesTyped' /\ SystemTyped'
  BY <1>3, RunnerStepTyped
<1> QED BY <1>1, <1>2, <1>3, OtherStepsTyped DEF Next

LEMMA InitTyped == Init => LiveTyped
<1> SUFFICES ASSUME Init  PROVE LiveTyped
  OBVIOUS
<1>1. PoolInv
  BY InitEstablishesPoolInv DEF Init
<1>2. NoLocal \in Local
  BY LiveRecordingAssumption DEF NoLocal, Local, None, Time
<1>3. RowsTyped /\ SystemTyped
  BY LiveRecordingAssumption DEF Init, RowsTyped, RowStatus, SystemTyped, Time
<1>4. SchedulesTyped
  BY LiveRecordingAssumption DEF Init, SchedulesTyped, SchedStatus, Time
<1>5. RunnersTyped /\ RunnersKnow
  BY <1>2 DEF Init, RunnersTyped, RunnersKnow, InRun
<1> QED BY <1>1, <1>3, <1>4, <1>5 DEF LiveTyped

LEMMA LiveIsTyped == Spec => []LiveTyped
BY InitTyped, StepTyped, PTL DEF Spec

\* Type correctness.
THEOREM TypeCorrect == Spec => []TypeOK
<1>1. LiveTyped => TypeOK
  BY TypeParts DEF LiveTyped, PoolInv
<1> QED BY <1>1, LiveIsTyped, PTL

\* Whoever starts and stops recorders, through requests, polls, schedules and
\* restarts, two yt-dlp never write to one stream's directory.
THEOREM NoTwoLiveWriters == Spec => []OneWriterPerStream
<1>1. LiveTyped => OneWriterPerStream
  BY InUseIsRegistered DEF LiveTyped, OneWriterPerStream, Writing
<1> QED BY <1>1, LiveIsTyped, PTL

-----------------------------------------------------------------------------
(***************************************************************************)
(* The capacity, and the promise of the pool to those who use it.          *)
(***************************************************************************)

LEMMA DownEmptiesPool == ASSUME GoDown PROVE RegisteredBounded' /\ writers' = {}
<1>1. Registered' = {}
  BY DEF GoDown, Registered, IsRecording
<1>2. RegisteredBounded'
  BY <1>1, FS_EmptySet, RecorderPoolAssumption DEF RegisteredBounded
<1>3. writers' = {}
  BY DEF GoDown, writers, Writing
<1> QED BY <1>2, <1>3

\* Every step keeps the pool within its capacity, and is to the children a
\* begin, an end, a stutter or the end of them all.
LEMMA StepOfSlots ==
    LiveTyped /\ RegisteredBounded /\ [Next]_vars
        => RegisteredBounded' /\ [Slots!Next \/ Slots!Down]_writers
<1>1. ASSUME LiveTyped, RegisteredBounded, [PoolNext]_poolVars
      PROVE  RegisteredBounded' /\ [Slots!Next]_writers
  BY <1>1, NextPreservesRegisteredBounded, PoolStepSimulates DEF LiveTyped
<1>2. ASSUME LiveTyped, [Next]_vars, ~GoDown  PROVE [PoolNext]_poolVars
  <2>1. CASE Next
    BY <1>2, <2>1, StepOfPool DEF LiveTyped
  <2>2. CASE UNCHANGED vars
    BY <2>2 DEF vars
  <2> QED BY <1>2, <2>1, <2>2
<1>3. ASSUME GoDown  PROVE RegisteredBounded' /\ Slots!Down
  BY <1>3, DownEmptiesPool DEF Slots!Down
<1> QED BY <1>1, <1>2, <1>3

LEMMA LiveWithinCapacity == Spec => []RegisteredBounded
<1>1. Init => RegisteredBounded
  <2> SUFFICES ASSUME Init  PROVE RegisteredBounded
    OBVIOUS
  <2>1. Registered = {}
    BY DEF Init, PoolInit, Registered, IsRecording
  <2> QED BY <2>1, FS_EmptySet, RecorderPoolAssumption DEF RegisteredBounded
<1> QED BY <1>1, StepOfSlots, LiveIsTyped, PTL DEF Spec

\* The pool keeps its promise to those who use it: whatever the requests, the
\* polls and the runners of the schedules do, and through any number of restarts,
\* at most max_concurrent_recordings streams are recorded, each by one recorder,
\* and what ends is a recording that has begun.
THEOREM LiveImplementsSlots == Spec => Slots!RestartSpec
<1>1. Init => Slots!Init
  <2> SUFFICES ASSUME Init  PROVE writers = {}
    BY DEF Slots!Init
  <2> QED BY DEF Init, PoolInit, writers, Writing
<1> QED
  BY <1>1, StepOfSlots, LiveWithinCapacity, LiveIsTyped, PTL DEF Spec, Slots!RestartSpec

-----------------------------------------------------------------------------
(***************************************************************************)
(* Schedules, jobs and runs.                                               *)
(***************************************************************************)

JobInv == CreatedOnce /\ JobsAreNewer /\ DownIsIdle /\ JobsArePending /\ OneRunPerSchedule

jobVars == <<schedStatus, jobs, removing, pc, local, up, gen>>

LEMMA QuietJobs == ASSUME JobInv, UNCHANGED jobVars PROVE JobInv'
BY DEF JobInv, jobVars, CreatedOnce, JobsAreNewer, DownIsIdle, JobsArePending, OneRunPerSchedule

\* The requests that change a schedule or its job, other than its creation.
LEMMA PatchKeepsJobs ==
    ASSUME LiveTyped, JobInv, NEW i \in Schedules,
           \/ \E starts, ends \in Time : PatchTimes(i, starts, ends)
           \/ \E new \in {"pending", "cancelled"} : PatchStatus(i, new)
           \/ DeleteSchedule(i) \/ RemoveJob(i) \/ JobMissed(i)
    PROVE  JobInv'
<1>1. UNCHANGED <<pc, local, gen>>
  BY DEF PatchTimes, PatchStatus, DeleteSchedule, RemoveJob, JobMissed, runners
<1>2. UNCHANGED up
  BY DEF PatchTimes, PatchStatus, DeleteSchedule, RemoveJob, JobMissed, system
<1>3. jobs' \subseteq jobs
  BY DEF PatchTimes, PatchStatus, DeleteSchedule, RemoveJob, JobMissed
<1>4. \A j \in Schedules : schedStatus'[j] # "absent" => schedStatus[j] # "absent"
  BY DEF PatchTimes, PatchStatus, DeleteSchedule, RemoveJob, JobMissed, LiveTyped,
         SchedulesTyped, ExistingSchedules, schedules
<1>5. \A j \in jobs' :
        (schedStatus[j] = "pending" \/ (schedStatus[j] = "absent" /\ j \in removing))
            => schedStatus'[j] = "pending" \/ (schedStatus'[j] = "absent" /\ j \in removing')
  BY DEF PatchTimes, PatchStatus, DeleteSchedule, RemoveJob, JobMissed, LiveTyped,
         SchedulesTyped, ExistingSchedules, schedules
<1>6. JobsArePending'
  BY <1>1, <1>3, <1>5 DEF JobInv, JobsArePending
<1>7. CreatedOnce'
  BY <1>1, <1>3, <1>4 DEF JobInv, CreatedOnce
<1>8. JobsAreNewer' /\ DownIsIdle' /\ OneRunPerSchedule'
  BY <1>1, <1>2, <1>3 DEF JobInv, JobsAreNewer, DownIsIdle, OneRunPerSchedule
<1> QED BY <1>6, <1>7, <1>8 DEF JobInv

\* A new schedule has a number no runner has.
LEMMA CreateKeepsJobs ==
    ASSUME LiveTyped, JobInv, NEW i \in Schedules, NEW s \in Streams, NEW v \in Videos,
           NEW starts \in Time, NEW ends \in Time, CreateSchedule(i, s, v, starts, ends)
    PROVE  JobInv'
<1>1. /\ UNCHANGED <<pc, local, up, removing>>
      /\ jobs' = jobs \cup {i}
      /\ up
  BY DEF CreateSchedule, runners, system, OnLoop
<1>2. /\ gen'[i] = gen[i] + 1 /\ gen[i] \in Nat
      /\ schedStatus'[i] = "pending"
      /\ \A j \in Schedules \ {i} : gen'[j] = gen[j] /\ schedStatus'[j] = schedStatus[j]
  BY LiveRecordingAssumption DEF CreateSchedule, LiveTyped, SchedulesTyped
<1>3. \A j \in Schedules : gen[j] \in Nat
  BY LiveRecordingAssumption DEF LiveTyped, SchedulesTyped
<1>4. jobs \subseteq Schedules /\ \A u \in Runners : pc[u] # "idle" => local[u].sched \in Schedules
  BY DEF LiveTyped, SchedulesTyped, RunnersKnow
<1>5. \A u \in Runners : local[u].gen \in Nat
  BY LiveRecordingAssumption DEF LiveTyped, RunnersTyped, Local
<1>6. CreatedOnce'
  BY <1>1, <1>2, <1>3, <1>4 DEF JobInv, CreatedOnce
<1>7. JobsAreNewer'
  <2> SUFFICES ASSUME NEW u \in Runners, pc[u] # "idle"
               PROVE  /\ 1 <= local[u].gen /\ local[u].gen <= gen'[local[u].sched]
                      /\ local[u].sched \in jobs' => local[u].gen < gen'[local[u].sched]
    BY <1>1 DEF JobsAreNewer
  <2>1. CASE local[u].sched = i
    BY <1>2, <1>5, <2>1 DEF JobInv, JobsAreNewer
  <2>2. CASE local[u].sched # i
    BY <1>1, <1>2, <1>4, <2>2 DEF JobInv, JobsAreNewer
  <2> QED BY <2>1, <2>2
<1>8. JobsArePending'
  BY <1>1, <1>2, <1>4 DEF JobInv, JobsArePending
<1>9. DownIsIdle' /\ OneRunPerSchedule'
  BY <1>1 DEF JobInv, DownIsIdle, OneRunPerSchedule
<1> QED BY <1>6, <1>7, <1>8, <1>9 DEF JobInv

\* The runner of a job is the newest of its schedule.
LEMMA FiringKeepsJobs ==
    ASSUME LiveTyped, JobInv, NEW i \in Schedules, NEW u \in Runners, JobFires(i, u)
    PROVE  JobInv'
<1>1. /\ UNCHANGED <<schedStatus, up, removing, gen>>
      /\ jobs' = jobs \ {i} /\ i \in jobs
      /\ up
  BY DEF JobFires, schedules, system, OnLoop
<1>2. /\ pc' = [pc EXCEPT ![u] = "fired"]
      /\ local' = [local EXCEPT ![u] = [NoLocal EXCEPT !.sched = i, !.gen = gen[i]]]
  BY DEF JobFires
<1>3. [NoLocal EXCEPT !.sched = i, !.gen = gen[i]].sched = i
  BY DEF NoLocal
<1>4. [NoLocal EXCEPT !.sched = i, !.gen = gen[i]].gen = gen[i]
  BY DEF NoLocal
<1>5. /\ local'[u].sched = i /\ local'[u].gen = gen[i]
      /\ \A t \in Runners \ {u} : pc'[t] = pc[t] /\ local'[t] = local[t]
  BY <1>2, <1>3, <1>4 DEF LiveTyped, RunnersTyped
<1>6. 1 <= gen[i] /\ gen[i] \in Nat
  BY <1>1, LiveRecordingAssumption DEF JobInv, CreatedOnce, LiveTyped, SchedulesTyped
<1>7. CreatedOnce' /\ JobsArePending' /\ DownIsIdle'
  BY <1>1 DEF JobInv, CreatedOnce, JobsArePending, DownIsIdle
<1>8. JobsAreNewer'
  <2> SUFFICES ASSUME NEW t \in Runners, pc'[t] # "idle"
               PROVE  /\ 1 <= local'[t].gen /\ local'[t].gen <= gen[local'[t].sched]
                      /\ local'[t].sched \in jobs' => local'[t].gen < gen[local'[t].sched]
    BY <1>1 DEF JobsAreNewer
  <2>1. CASE t = u
    BY <1>1, <1>5, <1>6, <2>1
  <2>2. CASE t # u
    BY <1>1, <1>5, <2>2 DEF JobInv, JobsAreNewer
  <2> QED BY <2>1, <2>2
<1>9. OneRunPerSchedule'
  <2>1. \A t \in Runners \ {u} :
            pc'[t] # "idle" => ~(local'[t].sched = i /\ local'[t].gen = gen[i])
    BY <1>1, <1>5, <1>6 DEF JobInv, JobsAreNewer
  <2> QED BY <1>5, <2>1 DEF JobInv, OneRunPerSchedule
<1> QED BY <1>7, <1>8, <1>9 DEF JobInv

\* What a runner writes to its schedule cannot reach one that still has its first job.
LEMMA RunnerKeepsJobs ==
    ASSUME LiveTyped, JobInv, NEW u \in Runners, RunnerStep(u)
    PROVE  JobInv'
<1>1. UNCHANGED <<jobs, removing, up, gen>> /\ up
  BY DEF RunnerStep, RunLookup, RunBegin, WakeUp, Resume, RunComplete, OnLoop, system
<1>2. local[u].sched \in Schedules /\ pc[u] # "idle"
  BY LiveRecordingAssumption
  DEF LiveTyped, RunnersKnow, RunnerStep, RunLookup, RunBegin, WakeUp, Resume
<1>3. \/ UNCHANGED schedStatus
      \/ \E new \in {"running", "complete"} : SetSchedStatus(local[u].sched, new)
  BY DEF RunnerStep, RunLookup, RunBegin, WakeUp, Resume, RunComplete, schedules
<1>4. /\ \A t \in Runners \ {u} : pc'[t] = pc[t] /\ local'[t] = local[t]
      /\ \/ pc'[u] = "idle"
         \/ local'[u].sched = local[u].sched /\ local'[u].gen = local[u].gen
  <2>1. CASE RunnerEnds(u)
    BY <2>1 DEF RunnerEnds, LiveTyped, RunnersTyped
  <2>2. CASE RunLookup(u) /\ ~RunnerEnds(u)
    BY <2>2 DEF RunLookup, LiveTyped, RunnersTyped, Local
  <2>3. CASE RunBegin(u) /\ ~RunnerEnds(u)
    <3>1. PICK r \in Rows, w \in Recorders :
            /\ pc' = [pc EXCEPT ![u] = "sleeping"]
            /\ local' = [local EXCEPT ![u].row = r, ![u].worker = w]
      BY <2>3 DEF RunBegin
    <3> QED BY <3>1 DEF LiveTyped, RunnersTyped, Local
  <2>4. CASE WakeUp(u) /\ ~RunnerEnds(u)
    BY <2>4 DEF WakeUp, RunComplete, LiveTyped, RunnersTyped
  <2> QED BY <2>1, <2>2, <2>3, <2>4 DEF RunnerStep, Resume, RunComplete
<1>5. \A i \in Schedules : schedStatus'[i] # "absent" => schedStatus[i] # "absent"
  BY <1>3 DEF SetSchedStatus, ExistingSchedules, LiveTyped, SchedulesTyped
<1>6. \A i \in Schedules \ {local[u].sched} : schedStatus'[i] = schedStatus[i]
  BY <1>3 DEF SetSchedStatus, LiveTyped, SchedulesTyped
<1>7. CreatedOnce' /\ DownIsIdle'
  BY <1>1, <1>5 DEF JobInv, CreatedOnce, DownIsIdle
<1>8. JobsAreNewer'
  BY <1>1, <1>2, <1>4 DEF JobInv, JobsAreNewer
<1>9. OneRunPerSchedule'
  BY <1>1, <1>2, <1>4 DEF JobInv, OneRunPerSchedule
<1>10. JobsArePending'
  <2>1. local[u].sched \in jobs => ~(gen[local[u].sched] <= 1)
    <3>1. local[u].gen \in Nat
      <4>1. local[u] \in Local
        BY DEF LiveTyped, RunnersTyped
      <4>2. local[u].gen \in 0..MaxIssues
        BY <4>1 DEF Local
      <4>3. MaxIssues \in Nat
        BY LiveRecordingAssumption
      <4> QED BY <4>2, <4>3
    <3>2. gen[local[u].sched] \in Nat
      <4>1. gen[local[u].sched] \in 0..MaxIssues
        BY <1>2 DEF LiveTyped, SchedulesTyped
      <4>2. MaxIssues \in Nat
        BY LiveRecordingAssumption
      <4> QED BY <4>1, <4>2
    <3>3. local[u].sched \in jobs => 1 <= local[u].gen /\ local[u].gen < gen[local[u].sched]
      BY <1>2 DEF JobInv, JobsAreNewer
    <3> QED BY <3>1, <3>2, <3>3
  <2>2. jobs \subseteq Schedules
    BY DEF LiveTyped, SchedulesTyped
  <2> QED BY <1>1, <1>6, <2>1, <2>2 DEF JobInv, JobsArePending
<1> QED BY <1>7, <1>8, <1>9, <1>10 DEF JobInv

LEMMA RestartKeepsJobs ==
    ASSUME LiveTyped, JobInv, GoDown \/ Startup
    PROVE  JobInv'
<1>1. CASE GoDown
  BY <1>1 DEF GoDown, schedules, JobInv, CreatedOnce, JobsAreNewer, DownIsIdle, JobsArePending,
              OneRunPerSchedule
<1>2. CASE Startup
  <2>1. /\ \A u \in Runners : pc'[u] = "idle"
        /\ UNCHANGED <<schedStatus, gen>>
        /\ jobs' = Rehydrated
        /\ up'
    BY <1>2 DEF Startup, JobInv, DownIsIdle, runners, schedules
  <2>2. CreatedOnce' /\ JobsArePending'
    BY <2>1 DEF Rehydrated, JobInv, CreatedOnce, JobsArePending
  <2>3. JobsAreNewer' /\ DownIsIdle' /\ OneRunPerSchedule'
    BY <2>1 DEF JobsAreNewer, DownIsIdle, OneRunPerSchedule
  <2> QED BY <2>2, <2>3 DEF JobInv
<1> QED BY <1>1, <1>2

LEMMA StepKeepsJobs == LiveTyped /\ JobInv /\ [Next]_vars => JobInv'
<1> SUFFICES ASSUME LiveTyped, JobInv, [Next]_vars  PROVE JobInv'
  OBVIOUS
<1>1. ASSUME NEW s \in Streams, StreamRequest(s)  PROVE JobInv'
  <2>1. UNCHANGED <<schedules, jobs, removing, runners, system, gen>>
    BY <1>1, StreamRequestTyped
  <2> QED BY <2>1, QuietJobs DEF jobVars, schedules, runners, system
<1>2. ASSUME NEW i \in Schedules, ScheduleRequest(i) \/ JobMissed(i)  PROVE JobInv'
  BY <1>2, PatchKeepsJobs, CreateKeepsJobs DEF ScheduleRequest
<1>3. ASSUME NEW r \in Recorders, Record(r)  PROVE JobInv'
  BY <1>3, QuietJobs DEF Record, jobVars, schedules, system
<1>4. ASSUME NEW r \in Rows, FinalizeRecording(r)  PROVE JobInv'
  BY <1>4, QuietJobs DEF FinalizeRecording, jobVars, schedules, system, runners
<1>5. CASE Tick \/ UNCHANGED vars
  BY <1>5, QuietJobs DEF Tick, vars, jobVars, schedules, system, runners
<1> QED
  BY <1>1, <1>2, <1>3, <1>4, <1>5, FiringKeepsJobs, RunnerKeepsJobs, RestartKeepsJobs DEF Next

LEMMA InitJobs == Init => JobInv
BY DEF Init, JobInv, CreatedOnce, JobsAreNewer, DownIsIdle, JobsArePending, OneRunPerSchedule

LEMMA JobsInvariant == Spec => []JobInv
BY InitJobs, StepKeepsJobs, LiveIsTyped, PTL DEF Spec

\* A job never outlives what it was for.
THEOREM JobsMatchSchedules == Spec => []JobsArePending
<1>1. JobInv => JobsArePending
  BY DEF JobInv
<1> QED BY <1>1, JobsInvariant, PTL

\* A schedule is never run twice at a time, whatever is patched, deleted or
\* created under the same id meanwhile.
THEOREM RunsAreSingle == Spec => []OneRunPerSchedule
<1>1. JobInv => OneRunPerSchedule
  BY DEF JobInv
<1> QED BY <1>1, JobsInvariant, PTL

-----------------------------------------------------------------------------
(***************************************************************************)
(* Rows and recorders.                                                     *)
(***************************************************************************)

\* Rows become "recording" only by being inserted, and startup leaves none.
LEMMA StepKeepsOwnRows ==
    LiveTyped /\ RecordingIsOfThisRun /\ [Next]_vars => RecordingIsOfThisRun'
<1> SUFFICES ASSUME LiveTyped, RecordingIsOfThisRun, [Next]_vars
             PROVE  RecordingIsOfThisRun'
  OBVIOUS
<1>1. ASSUME UNCHANGED up,
             mine \subseteq mine',
             \A r \in Rows : rowStatus'[r] = "recording" => rowStatus[r] = "recording" \/ r \in mine'
      PROVE  RecordingIsOfThisRun'
  BY <1>1 DEF RecordingIsOfThisRun
<1>2. ASSUME NEW r \in Rows, NEW s \in Streams, InsertRow(r, s), UNCHANGED up
      PROVE  RecordingIsOfThisRun'
  BY <1>1, <1>2 DEF InsertRow, LiveTyped, RowsTyped
<1>3. ASSUME NEW s \in Streams, StreamRequest(s)  PROVE RecordingIsOfThisRun'
  <2>1. UNCHANGED up
    BY <1>3, StreamRequestTyped DEF system
  <2>2. CASE UNCHANGED <<rowStatus, mine>>
    BY <1>1, <2>1, <2>2
  <2>3. CASE DeleteStream(s)
    BY <1>1, <2>1, <2>3 DEF DeleteStream, LiveTyped, RowsTyped
  <2>4. UNCHANGED <<rowStatus, mine>> \/ DeleteStream(s) \/ \E r \in Rows : InsertRow(r, s)
    BY <1>3 DEF StreamRequest, PatchWatch, CreateStream, Poll, StartBufferRecording, recordingRows
  <2> QED BY <1>2, <2>1, <2>2, <2>3, <2>4
<1>4. ASSUME NEW i \in Schedules, ScheduleRequest(i) \/ JobMissed(i)
      PROVE  RecordingIsOfThisRun'
  BY <1>1, <1>4 DEF ScheduleRequest, PatchTimes, CreateSchedule, PatchStatus, DeleteSchedule,
                    RemoveJob, JobMissed, recordingRows, system
<1>5. ASSUME NEW i \in Schedules, NEW u \in Runners, JobFires(i, u)
      PROVE  RecordingIsOfThisRun'
  BY <1>1, <1>5 DEF JobFires, recordingRows, system
<1>6. ASSUME NEW u \in Runners, RunnerStep(u)  PROVE RecordingIsOfThisRun'
  <2>1. CASE RunBegin(u)
    <3>1. local[u].stream \in Streams
      BY <2>1, LiveRecordingAssumption DEF RunBegin, LiveTyped, RunnersKnow
    <3> QED BY <1>2, <2>1, <3>1 DEF RunBegin, system
  <2>2. CASE RunComplete(u)
    BY <1>1, <2>2 DEF RunComplete, LiveTyped, RowsTyped, system
  <2>3. CASE UNCHANGED <<rowStatus, mine, up>>
    BY <1>1, <2>3
  <2> QED
    BY <1>6, <2>1, <2>2, <2>3 DEF RunnerStep, RunLookup, WakeUp, Resume, recordingRows, system
<1>7. ASSUME NEW r \in Recorders, Record(r)  PROVE RecordingIsOfThisRun'
  BY <1>1, <1>7 DEF Record, recordingRows, system
<1>8. ASSUME NEW r \in Rows, FinalizeRecording(r)  PROVE RecordingIsOfThisRun'
  BY <1>1, <1>8 DEF FinalizeRecording, LiveTyped, RowsTyped, system
<1>9. CASE Tick \/ GoDown \/ UNCHANGED vars
  BY <1>1, <1>9 DEF Tick, GoDown, vars, RecordingIsOfThisRun, recordingRows, system
<1>10. CASE Startup
  BY <1>10 DEF Startup, Interrupted, LiveTyped, RowsTyped, RecordingIsOfThisRun
<1> QED BY <1>3, <1>4, <1>5, <1>6, <1>7, <1>8, <1>9, <1>10 DEF Next

\* orphan_recovery.py: recovery misses no row of an earlier run of the application.
THEOREM RecoveryIsComplete == Spec => []RecordingIsOfThisRun
<1>1. Init => RecordingIsOfThisRun
  BY DEF Init, RecordingIsOfThisRun
<1> QED BY <1>1, StepKeepsOwnRows, LiveIsTyped, PTL DEF Spec

\* What other steps do to the recorder of a runner: it may end, not begin again.
LEMMA OthersKeepOwnRecorder ==
    ASSUME LiveTyped, OwnRecorder, UNCHANGED <<pc, local>>,
           \A u \in Runners : pc[u] \in InRun =>
              LET w == local[u].worker IN
              /\ rstate'[w] = "unused" \/ (rstate[w] # "unused" /\ rstream'[w] = rstream[w])
              /\ waitsFor'[u] = waitsFor[u] \/ rstate'[w] = "unused" \/ waitsFor[u] # w
    PROVE  OwnRecorder'
BY DEF OwnRecorder, InRun

LEMMA PoolStepKeepsOwnRecorder ==
    ASSUME LiveTyped, OwnRecorder, UNCHANGED <<pc, local, waitsFor>>,
           \/ \E w \in Recorders, s \in Streams : StartWorker(w, s)
           \/ \E s \in Streams : PoolStop(s)
           \/ UNCHANGED poolVars
    PROVE  OwnRecorder'
<1> SUFFICES ASSUME NEW u \in Runners, pc[u] \in InRun
             PROVE  LET w == local[u].worker IN
                    rstate'[w] = "unused" \/ (rstate[w] # "unused" /\ rstream'[w] = rstream[w])
  BY OthersKeepOwnRecorder
<1>1. local[u].worker \in Recorders
  BY DEF LiveTyped, RunnersKnow
<1>2. ASSUME NEW w \in Recorders, NEW s \in Streams, StartWorker(w, s)
      PROVE  /\ rstate'[local[u].worker] = rstate[local[u].worker]
             /\ rstream'[local[u].worker] = rstream[local[u].worker]
  BY <1>1, <1>2 DEF StartWorker, Unreferenced, PoolStart, Register, LiveTyped, PoolInv, PoolTypeOK
<1>3. ASSUME NEW s \in Streams, PoolStop(s)
      PROVE  /\ rstream' = rstream
             /\ rstate'[local[u].worker] = "unused" <=> rstate[local[u].worker] = "unused"
  BY <1>1, <1>3 DEF PoolStop, StopRecorder, Writing, LiveTyped, PoolInv, PoolTypeOK
<1>4. CASE UNCHANGED poolVars
  BY <1>4 DEF poolVars
<1> QED BY <1>2, <1>3, <1>4

LEMMA RecordKeepsOwnRecorder ==
    ASSUME LiveTyped, OwnRecorder, NEW r \in Recorders, Record(r)
    PROVE  OwnRecorder'
<1>1. UNCHANGED <<pc, local>> /\ RecorderStep(r)
  BY DEF Record
<1>2. rstate[r] # "unused"
  BY <1>1 DEF RecorderStep, Spawned, SpawnFails, OutputOverflows, ChildBlocks, BroadcastEnds,
              ChildTerminates, ChildEnds, Reaped
<1>3. rstate'[r] = "unused" \/ rstream'[r] = rstream[r]
  BY <1>1 DEF RecorderStep, Spawned, SpawnFails, OutputOverflows, ChildBlocks, BroadcastEnds,
              ChildTerminates, ChildEnds, Reaped, TaskEnds, LiveTyped, PoolInv, PoolTypeOK
<1>4. \A q \in Recorders \ {r} : rstate'[q] = rstate[q] /\ rstream'[q] = rstream[q]
  BY <1>1 DEF RecorderStep, Spawned, SpawnFails, OutputOverflows, ChildBlocks, BroadcastEnds,
              ChildTerminates, ChildEnds, Reaped, TaskEnds, LiveTyped, PoolInv, PoolTypeOK
<1>5. \A u \in Runners : waitsFor'[u] = waitsFor[u] \/ (waitsFor[u] = r /\ rstate'[r] = "unused")
  BY DEF Record
<1>6. \A u \in Runners : pc[u] \in InRun => local[u].worker \in Recorders
  BY DEF LiveTyped, RunnersKnow
<1> QED BY <1>1, <1>2, <1>3, <1>4, <1>5, <1>6, OthersKeepOwnRecorder

\* A runner that begins has just registered its recorder, no other refers to it;
\* one that stops finds its own recorder or one that came after it.
LEMMA RunnerKeepsOwnRecorder ==
    ASSUME LiveTyped, OwnRecorder, NEW u \in Runners, RunnerStep(u)
    PROVE  OwnRecorder'
<1>1. \A t \in Runners \ {u} :
        pc'[t] = pc[t] /\ local'[t] = local[t] /\ waitsFor'[t] = waitsFor[t]
  BY DEF RunnerStep, RunLookup, RunBegin, WakeUp, Resume, RunComplete, RunnerEnds, LiveTyped,
         RunnersTyped, runners
<1>2. CASE UNCHANGED poolVars /\ pc'[u] \notin InRun
  BY <1>1, <1>2 DEF poolVars, OwnRecorder, InRun
<1>3. CASE RunBegin(u) /\ pc'[u] \in InRun
  <2>1. PICK r \in Rows, w \in Recorders :
          /\ StartWorker(w, local[u].stream)
          /\ pc' = [pc EXCEPT ![u] = "sleeping"]
          /\ local' = [local EXCEPT ![u].row = r, ![u].worker = w]
    BY <1>3 DEF RunBegin, RunnerEnds, InRun, LiveTyped, RunnersTyped
  <2>2. /\ pc'[u] = "sleeping" /\ local'[u].worker = w
        /\ local'[u].stream = local[u].stream
    BY <2>1 DEF LiveTyped, RunnersTyped, Local
  <2>3. rstream'[w] = local[u].stream
    BY <2>1 DEF StartWorker, PoolStart, Register, LiveTyped, PoolInv, PoolTypeOK
  <2>4. ASSUME NEW t \in Runners \ {u}, pc[t] \in InRun
        PROVE  /\ rstate'[local[t].worker] = rstate[local[t].worker]
               /\ rstream'[local[t].worker] = rstream[local[t].worker]
    <3>1. local[t].worker \in Recorders /\ local[t].worker # w
      BY <2>1, <2>4 DEF StartWorker, Unreferenced, LiveTyped, RunnersKnow
    <3>2. /\ rstate' = [rstate EXCEPT ![w] = "scheduled"]
          /\ rstream' = [rstream EXCEPT ![w] = local[u].stream]
      BY <2>1 DEF StartWorker, PoolStart, Register
    <3>3. rstate \in [Recorders -> RecorderState] /\ rstream \in [Recorders -> Streams \cup {NoStream}]
      BY DEF LiveTyped, PoolInv, PoolTypeOK
    <3> QED BY <3>1, <3>2, <3>3
  <2> QED BY <1>1, <2>2, <2>3, <2>4 DEF OwnRecorder, InRun
<1>4. CASE WakeUp(u) /\ PoolStop(local[u].stream) /\ pc'[u] \in InRun
  <2> DEFINE w == local[u].worker
             s == local[u].stream
  <2>1. pc[u] = "sleeping" /\ s \in Streams /\ w \in Recorders
    BY <1>4 DEF WakeUp, LiveTyped, RunnersKnow, InRun
  <2>2. UNCHANGED local /\ waitsFor'[u] = registered[s]
    BY <1>4, <2>1 DEF WakeUp, RunComplete, RunnerEnds, InRun, LiveTyped, RunnersTyped
  <2>3. rstate[w] = "unused" \/ (rstream[w] = s /\ registered[s] = w)
    BY <2>1, InUseIsRegistered DEF OwnRecorder, InRun, LiveTyped
  <2>4. /\ rstream' = rstream
        /\ \A q \in Recorders : rstate'[q] = "unused" <=> rstate[q] = "unused"
    BY <1>4 DEF PoolStop, StopRecorder, Writing, LiveTyped, PoolInv, PoolTypeOK
  <2>5. \A t \in Runners : pc[t] \in InRun => local[t].worker \in Recorders
    BY DEF LiveTyped, RunnersKnow
  <2>6. ASSUME NEW t \in Runners, pc'[t] \in InRun
        PROVE  /\ rstate'[local'[t].worker] = "unused"
                    \/ rstream'[local'[t].worker] = local'[t].stream
               /\ pc'[t] = "stopping" =>
                    waitsFor'[t] = local'[t].worker \/ rstate'[local'[t].worker] = "unused"
    <3>1. CASE t = u
      BY <2>1, <2>2, <2>3, <2>4, <3>1
    <3>2. CASE t # u
      BY <1>1, <2>2, <2>4, <2>5, <2>6, <3>2 DEF OwnRecorder
    <3> QED BY <3>1, <3>2
  <2> QED BY <2>6 DEF OwnRecorder
<1>5. \/ UNCHANGED poolVars /\ pc'[u] \notin InRun
      \/ RunBegin(u)
      \/ WakeUp(u) /\ PoolStop(local[u].stream)
  BY DEF RunnerStep, RunLookup, WakeUp, Resume, RunComplete, RunnerEnds, LiveTyped, RunnersTyped,
         InRun
<1>6. CASE RunBegin(u) /\ pc'[u] \notin InRun
  <2>1. FailToStart(local[u].stream)
    BY <1>6 DEF RunBegin, LiveTyped, RunnersTyped, InRun
  <2> QED BY <1>2, <1>6, <2>1 DEF FailToStart
<1>7. CASE WakeUp(u) /\ PoolStop(local[u].stream) /\ pc'[u] \notin InRun
  <2>1. IsRecording(local[u].stream)
    BY <1>7 DEF PoolStop
  <2> QED BY <1>7, <2>1 DEF WakeUp, LiveTyped, RunnersTyped, InRun
<1> QED BY <1>2, <1>3, <1>4, <1>5, <1>6, <1>7

LEMMA StepKeepsOwnRecorder == LiveTyped /\ OwnRecorder /\ [Next]_vars => OwnRecorder'
<1> SUFFICES ASSUME LiveTyped, OwnRecorder, [Next]_vars  PROVE OwnRecorder'
  OBVIOUS
<1>1. ASSUME NEW s \in Streams, StreamRequest(s)  PROVE OwnRecorder'
  <2>1. UNCHANGED <<pc, local, waitsFor>>
    BY <1>1, StreamRequestTyped DEF runners
  <2>2. \/ \E w \in Recorders : StartWorker(w, s)
        \/ PoolStop(s)
        \/ UNCHANGED poolVars
    BY <1>1 DEF StreamRequest, PatchWatch, CreateStream, Poll, DeleteStream, StartBufferRecording,
                FailToStart
  <2> QED BY <2>1, <2>2, PoolStepKeepsOwnRecorder
<1>2. ASSUME NEW i \in Schedules, ScheduleRequest(i) \/ JobMissed(i)  PROVE OwnRecorder'
  <2>1. UNCHANGED <<pc, local, waitsFor, poolVars>>
    BY <1>2 DEF ScheduleRequest, PatchTimes, CreateSchedule, PatchStatus, DeleteSchedule,
                RemoveJob, JobMissed, runners
  <2> QED BY <2>1, PoolStepKeepsOwnRecorder
<1>3. ASSUME NEW i \in Schedules, NEW u \in Runners, JobFires(i, u)  PROVE OwnRecorder'
  <2>1. UNCHANGED <<poolVars, waitsFor>> /\ pc'[u] \notin InRun
    BY <1>3 DEF JobFires, LiveTyped, RunnersTyped, InRun
  <2>2. \A t \in Runners \ {u} : pc'[t] = pc[t] /\ local'[t] = local[t]
    BY <1>3 DEF JobFires, LiveTyped, RunnersTyped
  <2> QED BY <2>1, <2>2 DEF OwnRecorder, poolVars
<1>4. ASSUME NEW r \in Rows, FinalizeRecording(r)  PROVE OwnRecorder'
  BY <1>4, PoolStepKeepsOwnRecorder DEF FinalizeRecording, runners
<1>5. CASE Tick \/ Startup \/ UNCHANGED vars
  BY <1>5, PoolStepKeepsOwnRecorder DEF Tick, Startup, vars, runners
<1>6. CASE GoDown
  BY <1>6 DEF GoDown, OwnRecorder, InRun
<1> QED
  BY <1>1, <1>2, <1>3, <1>4, <1>5, <1>6, RunnerKeepsOwnRecorder, RecordKeepsOwnRecorder DEF Next

LEMMA OwnRecorderInvariant == Spec => []OwnRecorder
<1>1. Init => OwnRecorder
  BY DEF Init, OwnRecorder, InRun
<1> QED BY <1>1, StepKeepsOwnRecorder, LiveIsTyped, PTL DEF Spec

\* scheduled_runner.py: "complete" is written when the run's own recorder has let
\* go of the directory, although pool.stop is told the stream.
THEOREM CompleteMeansClosed == Spec => CompleteIsClosed
<1>1. ASSUME LiveTyped, OwnRecorder, [Next]_vars,
             NEW u \in Runners, pc[u] \in {"sleeping", "stopping"}, pc'[u] = "idle", up'
      PROVE  rstate'[local[u].worker] \notin Writing
  <2> DEFINE w == local[u].worker
             s == local[u].stream
  <2>1. w \in Recorders /\ s \in Streams
    BY <1>1 DEF LiveTyped, RunnersKnow, InRun
  <2>2. RunnerStep(u)
    <3>1. ~UNCHANGED pc
      BY <1>1
    <3>2. ~GoDown
      BY <1>1 DEF GoDown
    <3>3. \A i \in Schedules, t \in Runners : ~JobFires(i, t)
      BY <1>1 DEF JobFires, LiveTyped, RunnersTyped
    <3>4. ASSUME NEW t \in Runners \ {u}, RunnerStep(t)  PROVE FALSE
      <4>1. pc \in [Runners -> {"idle", "fired", "looked_up", "sleeping", "stopping"}]
        BY <1>1 DEF LiveTyped, RunnersTyped
      <4>2. pc'[u] = pc[u]
        BY <3>4, <4>1 DEF RunnerStep, RunLookup, RunBegin, WakeUp, Resume, RunComplete, RunnerEnds
      <4> QED BY <1>1, <4>2
    <3>5. \A t \in Streams : ~StreamRequest(t)
      BY <1>1, StreamRequestTyped DEF runners
    <3>6. \A i \in Schedules : ~ScheduleRequest(i) /\ ~JobMissed(i)
      BY <1>1, ScheduleRequestTyped DEF JobMissed, runners
    <3> QED
      BY <1>1, <3>1, <3>2, <3>3, <3>4, <3>5, <3>6
      DEF Next, Record, FinalizeRecording, Tick, Startup, vars, runners
  <2>3. /\ UNCHANGED poolVars
        /\ ~IsRecording(s) \/ (pc[u] = "stopping" /\ waitsFor[u] = NoRecorder)
    BY <1>1, <2>2, LiveRecordingAssumption
    DEF RunnerStep, RunLookup, RunBegin, WakeUp, Resume, LiveTyped, RunnersTyped, RunnersKnow
  <2>4. rstate[w] = "unused"
    <3>1. CASE ~IsRecording(s)
      BY <1>1, <2>1, <3>1, InUseIsRegistered, RecorderPoolAssumption
      DEF OwnRecorder, InRun, IsRecording, LiveTyped
    <3>2. CASE pc[u] = "stopping" /\ waitsFor[u] = NoRecorder
      <4>1. w # NoRecorder
        BY <2>1, RecorderPoolAssumption
      <4> QED BY <1>1, <3>2, <4>1 DEF OwnRecorder, InRun
    <3> QED BY <2>3, <3>1, <3>2
  <2> QED BY <2>3, <2>4 DEF poolVars, Writing
<1>2. LiveTyped /\ OwnRecorder /\ [Next]_vars =>
        [\A u \in Runners :
            pc[u] \in {"sleeping", "stopping"} /\ pc'[u] = "idle" /\ up'
                => rstate'[local[u].worker] \notin Writing]_vars
  BY <1>1
<1> QED BY <1>2, LiveIsTyped, OwnRecorderInvariant, PTL DEF Spec, CompleteIsClosed
=============================================================================
