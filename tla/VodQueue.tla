------------------------------ MODULE VodQueue ------------------------------
(***************************************************************************)
(* The VOD download pipeline: the recordings rows of the VOD lifecycle,    *)
(* the in-memory FIFO and its worker tasks (vod_queue.py), the download    *)
(* handler that the application installs (main.py, _vod_handler), the      *)
(* yt-dlp child it supervises (vod_downloader.py), the HTTP operations on  *)
(* a VOD recording, and what survives a restart (vod_recovery.py).         *)
(*                                                                         *)
(* An action is a maximal run of code between two points where the asyncio *)
(* loop may run something else: `await queue.put` on an unbounded queue    *)
(* and the synchronous database sessions do not suspend, so an endpoint    *)
(* such as cancel is one action, while the handler is cut at the spawn, at *)
(* the wait for the child, at ffprobe and at the automatic publication.    *)
(*                                                                         *)
(* Row ids are SQLite rowids of a table without AUTOINCREMENT: the id of a *)
(* new row is one more than the largest id in the table, so an id is given *)
(* out again once the row that held it is gone.  gen[i] counts how often   *)
(* id i was given out; a pair (i, gen[i]) identifies a row for good.       *)
(***************************************************************************)
EXTENDS Integers, Sequences, FiniteSets, Functions

CONSTANTS
    Workers,        \* the worker tasks (settings.max_concurrent_vod_downloads of them)
    NoProc,         \* "no child registered"
    MaxId,          \* bound: the largest row id
    MaxIssues,      \* bound: how often one id is given out
    MaxRestarts     \* bound: how often the application goes down

ASSUME VodQueueAssumption ==
    /\ IsFiniteSet(Workers) /\ Workers # {}
    /\ NoProc \notin Workers
    /\ MaxId \in Nat \ {0}
    /\ MaxIssues \in Nat
    /\ MaxRestarts \in Nat

Ids == 1..MaxId
NoJob == 0
Sentinel == -1

VARIABLES
    status,             \* Recording.status, "absent" when there is no such row
    gen,                \* how often the id has been given out
    orphan,             \* rows whose Stream row is gone
    fifo,               \* VodQueue._queue
    pending,            \* ids committed by a batch request, not yet enqueued (counted)
    cancelledQueued,    \* VodQueue._cancelled_queued
    runningProcs,       \* VodQueue._running_procs: the worker whose child is registered
    pc, job,            \* each worker: where it is, its rec_id
    strays,             \* rows a yt-dlp is downloading that no worker waits for any more
    mode,               \* "up", "stopping" (VodQueue._running is False), "down"
    acked,              \* history: the last answer of a cancel operation, per row
    dropped,            \* history: ids a failed batch request never enqueued
    unwritten,          \* history: rows whose new status could not be written
    again,              \* history: rows retried while a stray of theirs ran
    restarts            \* history: how often the application went down

rows == <<status, gen, orphan>>
memory == <<fifo, pending, cancelledQueued, runningProcs>>
workers == <<pc, job, strays>>
history == <<acked, dropped, unwritten, again, restarts>>
vars == <<rows, memory, workers, mode, history>>

Status == {"absent", "vod_queued", "vod_downloading", "complete", "vod_failed",
           "vod_cancelled"}
InFlight == {"vod_queued", "vod_downloading"}

\* The child of a worker: running, running with SIGTERM sent, or exited with
\* code 0, a positive code, or a signal, and not yet reaped by its worker.
ChildState == {"alive", "terminated", "exit_ok", "exit_error", "exit_signal"}
BusyState == ChildState \cup {"spawning", "probing"}
WorkerState == BusyState \cup {"waiting", "publishing", "exited"}

Acks == {"none", "queued", "running", "not_found", "queued_then_restart"}

TypeOK ==
    /\ status \in [Ids -> Status]
    /\ gen \in [Ids -> 0..MaxIssues]
    /\ orphan \subseteq Ids
    /\ fifo \in Seq(Ids \cup {Sentinel})
    /\ pending \in [Ids -> Nat]
    /\ cancelledQueued \subseteq Ids
    /\ runningProcs \in [Ids -> Workers \cup {NoProc}]
    /\ pc \in [Workers -> WorkerState]
    /\ job \in [Workers -> Ids \cup {NoJob}]
    /\ strays \subseteq Ids
    /\ mode \in {"up", "stopping", "down"}
    /\ acked \in [Ids -> Acks]
    /\ dropped \subseteq Ids
    /\ unwritten \subseteq Ids
    /\ again \subseteq Ids
    /\ restarts \in 0..MaxRestarts

-----------------------------------------------------------------------------
(***************************************************************************)
(* Creating rows.  A row is committed as "vod_queued" and enqueued after   *)
(* its session closes: at once by create_stream and dvr_pull, after the    *)
(* whole loop over the requested videos by the backlog, playlist and       *)
(* poller producers, which await a probe for each video.                   *)
(***************************************************************************)

Exists(i) == status[i] # "absent"

\* The id SQLite gives the next row inserted into a table of statuses st.
NextId(i, st) ==
    /\ \A j \in Ids : st[j] # "absent" => j < i
    /\ i > 1 => st[i - 1] # "absent"
    /\ gen[i] < MaxIssues

Insert(i, st) ==
    /\ NextId(i, st)
    /\ status' = [st EXCEPT ![i] = "vod_queued"]
    /\ gen' = [gen EXCEPT ![i] = @ + 1]
    /\ acked' = [acked EXCEPT ![i] = "none"]
    /\ dropped' = dropped \ {i}
    /\ unwritten' = unwritten \ {i}

Enqueue(i) == fifo' = Append(fifo, i)

\* create_stream for a video, and dvr_pull.
CreateRecording(i) ==
    /\ mode = "up"
    /\ Insert(i, status)
    /\ Enqueue(i)
    /\ UNCHANGED <<orphan, pending, cancelledQueued, runningProcs, workers, mode, again, restarts>>

Without(S) == [i \in Ids |-> IF i \in S THEN "absent" ELSE status[i]]

\* The recordings of one existing stream.
OfOneStream(S) == \A i \in S : Exists(i) /\ i \notin orphan

\* dvr_pull read the stream, then delete_stream, on a threadpool thread,
\* removed it and its rows S, and then dvr_pull inserted its row:
\* foreign keys are not enforced.
DvrPullDuringDelete(i, S) ==
    /\ mode = "up"
    /\ OfOneStream(S)
    /\ Insert(i, Without(S))
    /\ orphan' = orphan \cup {i}
    /\ Enqueue(i)
    /\ UNCHANGED <<pending, cancelledQueued, runningProcs, workers, mode, again, restarts>>

\* One video of a batch request is probed and its row committed.  The channel
\* poller is one of the producers, so this goes on while the queue is stopping.
BatchInsert(i) ==
    /\ mode # "down"
    /\ Insert(i, status)
    /\ pending' = [pending EXCEPT ![i] = @ + 1]
    /\ UNCHANGED <<orphan, fifo, cancelledQueued, runningProcs, workers, mode, again, restarts>>

\* Mutant: the batch enqueues a row twice.
BatchEnqueueTwice(i) ==
    /\ mode # "down"
    /\ pending' = [pending EXCEPT ![i] = @ - 1]
    /\ Enqueue(i)
    /\ UNCHANGED <<rows, cancelledQueued, runningProcs, workers, mode, history>>

\* The loop of a batch request is over and it enqueues what it committed.
BatchEnqueue(i) ==
    /\ mode # "down"
    /\ pending[i] > 0
    /\ pending' = [pending EXCEPT ![i] = @ - 1]
    /\ Enqueue(i)
    /\ UNCHANGED <<rows, cancelledQueued, runningProcs, workers, mode, history>>

\* A batch request raises in the middle of its loop (confirm_playlist: the
\* UNIQUE youtube_id of a stream that appeared during the probe): the rows
\* it has committed stay, and it never enqueues them.
BatchFails(i) ==
    /\ mode # "down"
    /\ pending[i] > 0
    /\ pending' = [pending EXCEPT ![i] = @ - 1]
    /\ dropped' = dropped \cup {i}
    /\ UNCHANGED <<rows, fifo, cancelledQueued, runningProcs, workers, mode,
                   acked, unwritten, again, restarts>>

-----------------------------------------------------------------------------
(***************************************************************************)
(* HTTP operations on existing rows.                                       *)
(***************************************************************************)

RetryFrom(i, from) ==
    /\ mode = "up"
    /\ status[i] \in from
    /\ status' = [status EXCEPT ![i] = "vod_queued"]
    /\ acked' = [acked EXCEPT ![i] = "none"]
    /\ again' = again \cup ({i} \cap strays)
    /\ UNCHANGED <<gen, orphan, pending, cancelledQueued, runningProcs, workers, mode,
                   dropped, unwritten, restarts>>

\* Mutants of retry: the row is not enqueued; a waiting, or a cancelled, row is accepted.
RetryNotEnqueued(i) == RetryFrom(i, {"vod_failed"}) /\ UNCHANGED fifo
RetryWaiting(i) == RetryFrom(i, {"vod_failed", "vod_queued"}) /\ Enqueue(i)
RetryCancelled(i) == RetryFrom(i, {"vod_failed", "vod_cancelled"}) /\ Enqueue(i)

\* POST /recordings/{id}/retry
RetryVod(i) == RetryFrom(i, {"vod_failed"}) /\ Enqueue(i)

\* VodQueue.cancel with a registered child: SIGTERM, which does nothing to a
\* child that has exited and is not reaped yet.
CancelRunning(i) ==
    /\ runningProcs[i] # NoProc
    /\ pc' = [w \in Workers |->
                IF w = runningProcs[i] /\ pc[w] = "alive" THEN "terminated" ELSE pc[w]]
    /\ acked' = [acked EXCEPT ![i] = "running"]
    /\ UNCHANGED cancelledQueued

\* VodQueue.cancel of a row that waits: the worker will skip it.
CancelQueued(i) ==
    /\ runningProcs[i] = NoProc
    /\ status[i] = "vod_queued"
    /\ cancelledQueued' = cancelledQueued \cup {i}
    /\ acked' = [acked EXCEPT ![i] = "queued"]
    /\ UNCHANGED pc

\* VodQueue.cancel finds neither; the endpoint still answers 200.
CancelNotFound(i) ==
    /\ runningProcs[i] = NoProc
    /\ status[i] # "vod_queued"
    /\ acked' = [acked EXCEPT ![i] = "not_found"]
    /\ UNCHANGED <<cancelledQueued, pc>>

\* POST /recordings/{id}/cancel
CancelVodDownload(i) ==
    /\ mode = "up"
    /\ status[i] \in {"vod_queued", "vod_downloading"}
    /\ CancelRunning(i) \/ CancelQueued(i) \/ CancelNotFound(i)
    /\ UNCHANGED <<rows, fifo, pending, runningProcs, job, strays, mode,
                   dropped, unwritten, again, restarts>>

\* POST /recordings/{id}/finalize: no test of the status.
FinalizeRecording(i) ==
    /\ mode = "up"
    /\ Exists(i)
    /\ status' = [status EXCEPT ![i] = "complete"]
    /\ acked' = [acked EXCEPT ![i] = "none"]
    /\ UNCHANGED <<gen, orphan, memory, workers, mode, dropped, unwritten, again, restarts>>

\* DELETE /streams/{id}: the ORM cascade removes the stream's recordings S.
DeleteStream(S) ==
    /\ mode = "up"
    /\ S # {}
    /\ OfOneStream(S)
    /\ status' = Without(S)
    /\ UNCHANGED <<gen, orphan, memory, workers, mode, history>>

\* POST /channel-watchers/{id}/backlog/cancel for the stream of a waiting row:
\* the row goes; cancel_by_youtube_id then finds no stream and returns.
CancelBacklogDownload(i) ==
    /\ mode = "up"
    /\ status[i] = "vod_queued"
    /\ i \notin orphan
    /\ status' = Without({i})
    /\ acked' = [acked EXCEPT ![i] = "none"]
    /\ UNCHANGED <<gen, orphan, memory, workers, mode, dropped, unwritten, again, restarts>>

-----------------------------------------------------------------------------
(***************************************************************************)
(* The worker loop and the handler it calls.                               *)
(***************************************************************************)

\* The top of `while self._running`.
LoopTop == IF mode = "up" THEN "waiting" ELSE "exited"

GoTo(w, state) == pc' = [pc EXCEPT ![w] = state]

\* unregister_running pops whatever child is registered for the id.
Unregister(i) == runningProcs' = [runningProcs EXCEPT ![i] = NoProc]

\* A write to the row that is skipped when the row is gone.
SetStatus(i, new) ==
    status' = IF Exists(i) THEN [status EXCEPT ![i] = new] ELSE status

\* The `finally` of the loop.
LeaveJob(w, next) ==
    /\ Unregister(job[w])
    /\ GoTo(w, next)
    /\ job' = [job EXCEPT ![w] = NoJob]

\* ... and back to its top.
EndJob(w) == LeaveJob(w, LoopTop)

\* The database refuses a write of row i: it is locked, or its disk is full.
NotWritten(i) ==
    /\ unwritten' = unwritten \cup {i}
    /\ UNCHANGED <<acked, dropped, again, restarts>>

Get(w) ==
    /\ mode # "down"
    /\ pc[w] = "waiting"
    /\ fifo # <<>>
    /\ fifo' = Tail(fifo)

TakeSentinel(w) ==
    /\ Get(w)
    /\ Head(fifo) = Sentinel
    /\ GoTo(w, "exited")
    /\ UNCHANGED <<rows, pending, cancelledQueued, runningProcs, job, strays, mode, history>>

SkipCancelled(w, next) ==
    LET i == Head(fifo) IN
    /\ Get(w)
    /\ i \in cancelledQueued
    /\ GoTo(w, next)
    /\ UNCHANGED <<gen, orphan, pending, runningProcs, job, strays, mode>>

MarkCancelled(i) ==
    status' = IF status[i] = "vod_queued"
              THEN [status EXCEPT ![i] = "vod_cancelled"] ELSE status

\* Mutants: the flag is tested but not cleared; the row is skipped but not marked.
TakeCancelledKeepsFlag(w) ==
    SkipCancelled(w, LoopTop) /\ MarkCancelled(Head(fifo)) /\ UNCHANGED <<cancelledQueued, history>>
TakeCancelledUnmarked(w) ==
    SkipCancelled(w, LoopTop) /\ UNCHANGED <<status, history>>
        /\ cancelledQueued' = cancelledQueued \ {Head(fifo)}

\* consume_cancelled_queued is True: skip the handler.
TakeCancelled(w) ==
    /\ SkipCancelled(w, LoopTop)
    /\ MarkCancelled(Head(fifo))
    /\ cancelledQueued' = cancelledQueued \ {Head(fifo)}
    /\ UNCHANGED history

\* The write is not guarded: when it fails, the exception ends the worker.
TakeCancelledFails(w) ==
    /\ SkipCancelled(w, "exited")
    /\ NotWritten(Head(fifo))
    /\ cancelledQueued' = cancelledQueued \ {Head(fifo)}
    /\ UNCHANGED status

\* The handler returns at once: the row is gone, or its stream is.
TakeUnusable(w) ==
    LET i == Head(fifo) IN
    /\ Get(w)
    /\ i \in Ids \ cancelledQueued
    /\ ~Exists(i) \/ i \in orphan
    /\ SetStatus(i, "vod_failed")
    /\ Unregister(i)
    /\ GoTo(w, LoopTop)
    /\ UNCHANGED <<gen, orphan, pending, cancelledQueued, job, strays, mode, history>>

\* The handler raises before it awaits anything: the row cannot be marked, or
\* has been marked and the cookies cannot be looked up.  The loop records
\* vod_failed, unless that write fails too.
TakeFails(w) ==
    LET i == Head(fifo) IN
    /\ Get(w)
    /\ i \in Ids \ cancelledQueued
    /\ \/ SetStatus(i, "vod_failed") /\ UNCHANGED history
       \/ UNCHANGED status /\ NotWritten(i)
       \/ i \notin orphan /\ SetStatus(i, "vod_downloading") /\ NotWritten(i)
    /\ Unregister(i)
    /\ GoTo(w, LoopTop)
    /\ UNCHANGED <<gen, orphan, pending, cancelledQueued, job, strays, mode>>

\* The handler marks the row and awaits the spawn, whatever its status was.
StartJob(w) ==
    LET i == Head(fifo) IN
    /\ Get(w)
    /\ i \in Ids
    /\ Exists(i) /\ i \notin orphan
    /\ status' = [status EXCEPT ![i] = "vod_downloading"]
    /\ GoTo(w, "spawning")
    /\ job' = [job EXCEPT ![w] = i]
    /\ UNCHANGED <<gen, orphan, pending, cancelledQueued, runningProcs, strays, mode, history>>

\* No flag: the handler is called.
TakeJob(w) == StartJob(w) /\ Head(fifo) \notin cancelledQueued

Take(w) ==
    TakeSentinel(w) \/ TakeCancelled(w) \/ TakeCancelledFails(w)
        \/ TakeUnusable(w) \/ TakeFails(w) \/ TakeJob(w)

\* The spawn returns and on_spawn registers the child.
Spawned(w) ==
    /\ pc[w] = "spawning"
    /\ GoTo(w, "alive")
    /\ runningProcs' = [runningProcs EXCEPT ![job[w]] = w]
    /\ UNCHANGED <<rows, fifo, pending, cancelledQueued, job, strays, mode, history>>

\* Any other exception from the handler: the loop records vod_failed.  When
\* that fails too, the loop logs it and goes on, and the row stays as it is.
HandlerRaises(w) ==
    /\ \/ SetStatus(job[w], "vod_failed") /\ UNCHANGED history
       \/ UNCHANGED status /\ NotWritten(job[w])
    /\ EndJob(w)
    /\ UNCHANGED <<gen, orphan, fifo, pending, cancelledQueued, mode>>

SpawnFails(w) ==
    /\ pc[w] = "spawning"
    /\ HandlerRaises(w)
    /\ UNCHANGED strays

\* A reader of the child's output raises (a line longer than the stream
\* reader's limit): download leaves without waiting for the child, which is
\* abandoned unregistered.
DrainRaises(w) ==
    /\ pc[w] \in {"alive", "terminated"}
    /\ HandlerRaises(w)
    /\ strays' = strays \cup {job[w]}

\* The child ends by itself or is killed; a terminated one dies of its signal.
ChildExits(w) ==
    /\ \/ pc[w] = "alive" /\ \E c \in {"exit_ok", "exit_error", "exit_signal"} : GoTo(w, c)
       \/ pc[w] = "terminated" /\ GoTo(w, "exit_signal")
    /\ UNCHANGED <<rows, memory, job, strays, mode, history>>

\* The last abandoned child of the row ends; nobody notices.
StrayExits(i) ==
    /\ i \in strays
    /\ strays' = strays \ {i}
    /\ again' = again \ {i}
    /\ UNCHANGED <<rows, memory, pc, job, mode, acked, dropped, unwritten, restarts>>

\* proc.wait() returns: VodCancelled or VodDownloadError ends the job, ...
ReapFailure(w) ==
    /\ \/ pc[w] = "exit_signal" /\ SetStatus(job[w], "vod_cancelled")
       \/ pc[w] = "exit_error" /\ SetStatus(job[w], "vod_failed")
    /\ EndJob(w)
    /\ UNCHANGED <<gen, orphan, fifo, pending, cancelledQueued, strays, mode, history>>

\* ... and when the loop cannot write vod_cancelled the exception ends the
\* worker.
ReapCancelledFails(w) ==
    /\ pc[w] = "exit_signal"
    /\ LeaveJob(w, "exited")
    /\ NotWritten(job[w])
    /\ UNCHANGED <<rows, fifo, pending, cancelledQueued, strays, mode>>

\* Mutant: the child stays registered while ffprobe runs.
ReapSuccessRegistered(w) ==
    /\ pc[w] = "exit_ok"
    /\ GoTo(w, "probing")
    /\ UNCHANGED <<rows, memory, job, strays, mode, history>>

\* ... and code 0 goes on to ffprobe, with no child registered any more.
ReapSuccess(w) ==
    /\ pc[w] = "exit_ok"
    /\ Unregister(job[w])
    /\ GoTo(w, "probing")
    /\ UNCHANGED <<rows, fifo, pending, cancelledQueued, job, strays, mode, history>>

\* ffprobe is done: the row is complete.  An auto-publish row with segments
\* keeps the worker, any other one frees it.
Completed(w) ==
    /\ pc[w] = "probing"
    /\ SetStatus(job[w], "complete")
    /\ \/ EndJob(w)
       \/ /\ Exists(job[w])
          /\ GoTo(w, "publishing")
          /\ UNCHANGED <<runningProcs, job>>
    /\ UNCHANGED <<gen, orphan, fifo, pending, cancelledQueued, strays, mode, history>>

\* The outcome cannot be written: of a download that failed, in the handler;
\* of one that succeeded, or its file cannot be found, after the child.
OutcomeRaises(w) ==
    /\ pc[w] \in {"exit_error", "probing"}
    /\ HandlerRaises(w)
    /\ UNCHANGED strays

Handle(w) ==
    Spawned(w) \/ SpawnFails(w) \/ DrainRaises(w) \/ ReapFailure(w) \/ ReapCancelledFails(w)
        \/ ReapSuccess(w) \/ Completed(w) \/ OutcomeRaises(w)

\* The last segment has been published, or has failed to.
AutoPublished(w) ==
    /\ pc[w] = "publishing"
    /\ EndJob(w)
    /\ UNCHANGED <<rows, fifo, pending, cancelledQueued, strays, mode, history>>

-----------------------------------------------------------------------------
(***************************************************************************)
(* Shutdown, crash and startup.                                            *)
(***************************************************************************)

\* VodQueue.stop: one sentinel for each worker.
Stop ==
    /\ mode = "up"
    /\ restarts < MaxRestarts
    /\ mode' = "stopping"
    /\ fifo' = fifo \o [k \in 1..Cardinality(Workers) |-> Sentinel]
    /\ UNCHANGED <<rows, pending, cancelledQueued, runningProcs, workers, history>>

\* wait_for gives up after 5 s: CancelledError runs through the handler,
\* which only unregisters; a child that runs is left to itself.
StopTimeout(w) ==
    /\ mode = "stopping"
    /\ pc[w] \in BusyState \cup {"publishing"}
    /\ EndJob(w)
    /\ strays' = IF pc[w] \in {"alive", "terminated"} THEN strays \cup {job[w]} ELSE strays
    /\ UNCHANGED <<rows, fifo, pending, cancelledQueued, mode, history>>

\* The process ends: a crash, a kill, or the end of an orderly shutdown.  It is
\* the container's own, so every child ends with it.
GoDown ==
    /\ mode # "down"
    /\ restarts < MaxRestarts
    /\ mode' = "down"
    /\ restarts' = restarts + 1
    /\ fifo' = <<>>
    /\ pending' = [i \in Ids |-> 0]
    /\ cancelledQueued' = {}
    /\ runningProcs' = [i \in Ids |-> NoProc]
    /\ pc' = [w \in Workers |-> "exited"]
    /\ job' = [w \in Workers |-> NoJob]
    /\ strays' = {}
    /\ acked' = [i \in Ids |-> IF acked[i] = "queued" THEN "queued_then_restart" ELSE acked[i]]
    /\ dropped' = {} /\ unwritten' = {} /\ again' = {}
    /\ UNCHANGED rows

\* Mutant: interrupted downloads are not recovered.
NotRecovered == status

\* mark_vod_downloads_interrupted_on_startup
Recovered == [i \in Ids |-> IF status[i] = "vod_downloading" THEN "vod_queued" ELSE status[i]]

\* rehydrate_from_db: the waiting rows in the order of their ids.
Rehydrated(st) ==
    LET Q == {i \in Ids : st[i] = "vod_queued"} IN
    {s \in [1..Cardinality(Q) -> Q] :
        /\ \A j, k \in 1..Cardinality(Q) : j < k => s[j] < s[k]
        /\ \A i \in Q : \E j \in 1..Cardinality(Q) : s[j] = i}

StartupWith(queue) ==
    /\ mode = "down"
    /\ mode' = "up"
    /\ status' = Recovered
    /\ fifo' \in queue
    /\ pc' = [w \in Workers |-> "waiting"]
    /\ UNCHANGED <<gen, orphan, pending, cancelledQueued, runningProcs, job, strays, history>>

Startup == StartupWith(Rehydrated(Recovered))

-----------------------------------------------------------------------------
\* The first start, on an empty database.
Init ==
    /\ status = [i \in Ids |-> "absent"]
    /\ gen = [i \in Ids |-> 0]
    /\ orphan = {}
    /\ fifo = <<>>
    /\ pending = [i \in Ids |-> 0]
    /\ cancelledQueued = {}
    /\ runningProcs = [i \in Ids |-> NoProc]
    /\ pc = [w \in Workers |-> "waiting"]
    /\ job = [w \in Workers |-> NoJob]
    /\ strays = {}
    /\ mode = "up"
    /\ acked = [i \in Ids |-> "none"]
    /\ dropped = {} /\ unwritten = {} /\ again = {}
    /\ restarts = 0

Produce(i) ==
    \/ CreateRecording(i)
    \/ \E S \in SUBSET Ids : DvrPullDuringDelete(i, S)
    \/ BatchInsert(i) \/ BatchEnqueue(i) \/ BatchFails(i)

Request(i) ==
    RetryVod(i) \/ CancelVodDownload(i) \/ FinalizeRecording(i) \/ CancelBacklogDownload(i)

Next ==
    \/ \E i \in Ids : Produce(i) \/ Request(i)
    \/ \E S \in SUBSET Ids : DeleteStream(S)
    \/ \E w \in Workers :
        Take(w) \/ Handle(w) \/ AutoPublished(w) \/ ChildExits(w) \/ StopTimeout(w)
    \/ \E i \in Ids : StrayExits(i)
    \/ Stop \/ GoDown \/ Startup

Spec == Init /\ [][Next]_vars

\* What the asyncio loop runs without anybody's help, that yt-dlp and ffprobe
\* end, that a batch request ends, and that the container is restarted.  That
\* a publication ends is not assumed: ffmpeg may block for good (Publisher).
Fairness ==
    /\ \A w \in Workers : /\ WF_vars(Take(w))
                          /\ WF_vars(Handle(w))
                          /\ WF_vars(ChildExits(w))
    /\ \A i \in Ids : WF_vars(BatchEnqueue(i) \/ BatchFails(i))
    /\ WF_vars(Startup)
    /\ WF_vars(mode = "stopping" /\ GoDown)

LiveSpec == Spec /\ Fairness
-----------------------------------------------------------------------------
(***************************************************************************)
(* Properties.                                                             *)
(***************************************************************************)

InFifo(i) == \E k \in 1..Len(fifo) : fifo[k] = i

\* The id has been given out at most once, so whatever the queue's memory
\* says about it is about the row that has it now.
OnceIssued(i) == gen[i] <= 1

\* A row that waits for a slot is on its way to a worker: its id is in the
\* FIFO or a batch request is about to put it there, unless the request failed
\* or the worker that had it could not write.  Retry, recovery, rehydration
\* and the stale ids of deleted rows must all keep this.
QueuedIsScheduled ==
    mode = "up" => \A i \in Ids : status[i] = "vod_queued" =>
        InFifo(i) \/ pending[i] > 0 \/ i \in dropped \cup unwritten

\* A row that says vod_downloading is in the hands of a worker: no exit of
\* the handler, no cancellation and no restart leaves one behind, even with
\* stale ids in the FIFO and several workers on one id.  The one way to be left
\* is that the database refuses the write of the outcome, in both attempts
\* where there are two; the next start sees to those rows, too.
DownloadingHasWorker ==
    mode = "up" => \A i \in Ids : status[i] = "vod_downloading" =>
        i \in unwritten \/ \E w \in Workers : pc[w] \in BusyState /\ job[w] = i

\* Two yt-dlp never write the file of one row: the handler has no guard, it is
\* the single entry per id that keeps other workers away while one, or a child
\* that its worker abandoned, is at it.  What it does not keep from coming is
\* the row that somebody retried while such a child still ran.
ExclusiveDownload ==
    \A w \in Workers : job[w] # NoJob /\ OnceIssued(job[w]) =>
        /\ \A v \in Workers : job[v] = job[w] => v = w
        /\ job[w] \in strays => job[w] \in again

\* _running_procs is exact: the child a worker waits for is registered under
\* its row until it is reaped, and nothing else is registered, so cancel()
\* never signals the wrong child.  It cannot reach one that is being spawned or
\* has been abandoned.
RegistryExact ==
    \A i \in Ids : OnceIssued(i) =>
        \A w \in Workers :
            runningProcs[i] = w <=> pc[w] \in ChildState /\ job[w] = i

\* A cancel flag is consumed with the id it was set for: none survives to
\* kill a later retry of the row.
NoStaleFlag ==
    \A i \in cancelledQueued :
        OnceIssued(i) => InFifo(i) \/ pending[i] > 0 \/ i \in dropped \cup unwritten

\* After the cancel endpoint answered "queued", the row is not downloaded
\* for as long as the application stays up.
QueuedCancelHonoured ==
    \A i \in Ids :
        acked[i] = "queued" /\ OnceIssued(i) =>
            status[i] \in {"vod_queued", "vod_cancelled", "absent"}

\* vod_cancelled is final: no retry, recovery or left-over queue entry brings
\* the row back.  Only finalize and deletion touch it.
CancelledIsTerminal ==
    [][\A i \in Ids :
        status[i] = "vod_cancelled" /\ gen'[i] <= 1 =>
            status'[i] \in {"vod_cancelled", "complete", "absent"}]_vars

\* Every worker publishes or has ended.
NoWorkerLeft == \A w \in Workers : pc[w] \in {"publishing", "exited"}

\* Every scheduled row is settled in the end, through failures of others,
\* cancellations, shutdowns and crashes, unless nobody enqueued it, its status
\* could not be written, or there is no worker left for good: each waits for a
\* publication that does not end, or died of a failed write.
EverySettles ==
    \A i \in Ids :
        \/ <>[]NoWorkerLeft
        \/ status[i] \in InFlight /\ i \notin dropped \cup unwritten
              ~> status[i] \notin InFlight \/ i \in dropped \cup unwritten

\* A download is asked for once, begun at most once, and by one worker: the
\* queue implements DownloadJobs, for the rows that have an id of their own.
waitingJobs == {i \in Ids : OnceIssued(i) /\ (InFifo(i) \/ pending[i] > 0)}
workingJobs ==
    {<<w, job[w]>> : w \in {v \in Workers : job[v] # NoJob /\ OnceIssued(job[v])}}
Jobs == INSTANCE DownloadJobs WITH Rows <- Ids, due <- waitingJobs, atWork <- workingJobs
ImplementsJobs == Jobs!Spec

\* What the documentation says and the code does not do (see the README).

\* api/recordings.py: cancelling a queued row "marks the row vod_cancelled;
\* the queue worker skips it when its turn comes".
QueuedCancelSurvives ==
    \A i \in Ids :
        acked[i] \in {"queued", "queued_then_restart"} /\ OnceIssued(i) =>
            status[i] \notin {"vod_downloading", "complete"}
=============================================================================
