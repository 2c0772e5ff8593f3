# ConcertPVR in TLA+

ConcertPVR records live concert streams with yt-dlp, downloads finished ones, cuts
them into segments and publishes the result to a media library. It is one FastAPI
process: one asyncio loop, a SQLite database, child processes, and endpoints of
which some are coroutines on the loop and some are plain functions on a thread
pool. These modules model the parts in which order matters, check them with TLC
on small instances, and prove the most important facts with TLAPS for every value
of the constants.

Paths below are relative to `src/concertpvr/` unless they say otherwise.

## 1. The system

| Component | State it keeps | Operations | Module |
| --- | --- | --- | --- |
| VOD queue (`vod_queue.py`, `vod_downloader.py`, `vod_recovery.py`, handler in `main.py`) | FIFO, `_running_procs`, `_cancelled_queued`, `_running`; rows `vod_*` | enqueue, cancel, worker loop, download, stop, recovery, rehydration | `VodQueue`, `DownloadJobs` |
| VOD producers and recording requests (`api/streams.py`, `api/schedules.py`, `api/channel_watchers.py`, `api/playlists.py`, `api/recordings.py`, `channel_poller.py`) | recording rows | create, pull, batch download, retry, cancel, finalize, delete | `VodQueue` (rows and queue), `VodIngest` (lists and videos) |
| Stream ingest (the same producers, before the row exists) | stream rows, UNIQUE `youtube_id`, each request's list | look, probe, look again or not, insert, enqueue | `VodIngest` |
| Recorder pool (`pool.py`, `recorder.py`, `process.py`) | `_workers`, `_tasks`, `_stop_requested`, the child | start, stop, spawn, end | `RecorderPool`, `RecordingSlots` |
| Live rows, watch toggle, poller (`recording_starter.py`, `api/streams.py`, `channel_poller.py`, `orphan_recovery.py`) | rows `recording/complete/interrupted`, `last_live_id` | start a buffer recording, toggle, poll, finalize, recover | `LiveRecording` |
| Schedules (`api/schedules.py`, `schedule_manager.py`, `scheduled_runner.py`) | schedule rows, scheduler jobs, running coroutines | create, patch, delete, fire, miss, run, rehydrate | `LiveRecording` |
| Backlog cache (`backlog_cache.py`, `api/channel_watchers.py`) | cache row, `_cancel_requests`, refresh tasks | fast and slow refresh, resume, cancel, expire | `BacklogCache` |
| Publisher and source deletion (`publisher.py`, `api/segments.py`, `api/recordings.py`, `ffmpeg.py`) | segment status, media files, the source file | publish one, in bulk or automatically, cut, delete the source | `Publisher` |
| Draft segments (`auto_segment.py`, `segmenter.py`, `api/setlists.py`) | segment rows, setlist rows | derive at completion, paste or send a setlist | `Publisher` (beside publishing and editing), `Setlists` and `SetlistInputs` (which, and once) |
| Buffer retention (`buffer.py`, `retention.py`) | fragments on disk, `retention_days`, `auto_prune_when_full` | prune by age, prune by space | `Retention` |
| Setlist detection and parsing (`setlist_detector.py`, `setlist_parser.py`, the review page's parser) | none | pure functions | `Setlists`, in part, over the inputs of `SetlistInputs` |
| Broadcaster (`ws.py`), session and password (`auth.py`, `session.py`), settings, schemas, external clients, migrations, web frontend | - | - | not modelled (section 7) |

**How they interact.** Endpoints write a row, commit, and then call the queue or
the pool in the same run of code. The queue calls the handler in `main.py`, which
writes the row and supervises yt-dlp. A scheduler job runs a coroutine that writes
rows, starts a recorder, sleeps, and stops whatever the pool has for the stream.
At startup the rows left by the previous run are repaired first, and then the queue
and the scheduler are filled from the database. Everything in memory is lost by a
restart; everything committed stays.

**What is hard.** Four things recur:

* The memory (FIFO, flags, registry, jobs) and the rows are two copies of one fact,
  changed by different actors, and a restart erases one of them.
* Code looks rows up by id again after an await. SQLite gives the id of a deleted
  last row out again (no table uses AUTOINCREMENT) and foreign keys are not
  enforced (`db.py` sets no pragma), so the row found may be another one.
* A request may come while a child is being spawned: neither queued nor running.
* A session rolls back everything it wrote when the block raises, a failure status
  written just before the raise included.

**What makes each component correct.** Queue: every waiting row gets to a worker,
every downloading row has one, never two; a cancellation is honoured and never hits
a later attempt. Ingest: one stream and one recording per video, no recording for one
that came with a schedule, and whatever was inserted is enqueued. Pool: one recorder per stream, at most the capacity, a stop
always works. Live rows and schedules: rows do not claim what is not so, a job exists
only for a schedule that waits for it, a run ends and closes its file. Backlog cache:
a status of `fetching` has someone who will change it, what was paid for is kept, a
complete refresh has asked for everything. Publisher: a published segment has its
file, and the source goes only when nothing needs it. Retention: the oldest go first,
no more than needed, what is counted as free is gone, and what has expired goes.
Drafts: derived once, from one source. Text: the functions do what a plain
definition of the answer says.

## 2. Modules

`VodQueue` An action is a maximal run of code between two points at which the loop
may run something else. `cancel`, `retry` and `enqueue` are one action each, with
their database session and the call of the queue. The handler is cut at the spawn
(`pc = "spawning"`), the wait for the child (`alive`, `terminated`, `exit_*`),
ffprobe (`probing`) and the automatic publication (`publishing`). A batch request
is three actions: `BatchInsert` commits a row, `BatchEnqueue` enqueues it,
`BatchFails` is an exception in between, after which the id is in `dropped`.

The worker loop has a guarded and two unguarded writes. An exception of the handler
is recorded as `vod_failed`, and when that write is refused too, the loop logs it and
goes on: `TakeFails`, `HandlerRaises` and `OutcomeRaises` have both outcomes, at the
start, the spawn, the readers, the write of the outcome and the completion. The two
writes of `vod_cancelled` are not guarded: when the database refuses one, the exception
ends the worker (`TakeCancelledFails`, `ReapCancelledFails`). Rows whose status could
not be written are in `unwritten`. A reader that raises leaves its child running
(`DrainRaises`), and so does the timeout of `stop`; `strays` holds the rows of such
children, `StrayExits` is their end, which nobody notices, and `again` holds the rows
that somebody retried while theirs still ran.

`Stop`, `StopTimeout` and `GoDown` are the shutdown of `main.py`, `GoDown` on its own a
crash, which takes the children along, since the process is the container's own; `Startup` is recovery followed by rehydration in the order of
the ids. `gen[i]` counts how often id `i` was given out, so that a worker's job can be told from a new row of the same id. `orphan` are rows
inserted for a stream that a thread has just deleted.

`DownloadJobs` is what the queue promises, without FIFO, flags, statuses or children:
a download that was asked for is begun at most once and by one worker, and is not
asked for again before it has ended or was withdrawn. `VodQueue` implements it with
the entries of the FIFO and of unfinished requests as `due` (`waitingJobs`) and the
workers' jobs as `atWork` (`workingJobs`), for the rows that have an id of their own:
an id that is given out again leaves the promise (`Forget`). `VodIngest` implements it
too, with what a producer has inserted and not yet enqueued among the rows that are
`due`; a deletion withdraws what it takes away, and a request that raises withdraws
all of its rows at once.

`RecorderPool` A recorder is a `RecorderWorker` with its task. `_workers` and
`_tasks` are written by the same code and are one variable, `registered`. The
child's output goes to pipes that `run()` never reads. asyncio buffers it up to a
limit and then stops reading (`overflowed`); then the pipe fills up and the child
blocks (`blocked`). asyncio wakes up `Process.wait()` only after all pipes have
reported their end, which a pipe that is not read never does, so a recorder that
overflowed is never `Reaped`: the child is dead and the task goes on. This is how
the asyncio of Python 3.11 and 3.12 works and its documentation warns of it; a
Python that woke up the waiters at the exit would make `Reaped` possible. `PoolStop` is
`pool.stop` up to its `await task`; what follows is the awaiter's business.

`RecordingSlots` is what a pool promises: pairs of a recorder and a stream, at most
`MaxConcurrent` of them, one per stream. `RecorderPool` implements it with the
children that hold the directory as `active`. `LiveRecording`, in which the process of
the pool goes down and comes up again, implements its `RestartSpec`.

`LiveRecording` EXTENDS the pool with the rows, the watch toggle, one channel
watcher, the schedules, the scheduler's jobs and the runners. `DELETE` and `PATCH`
of a schedule and `DELETE` of a stream are thread-pool endpoints; they may fall
between the two sessions of `run_scheduled_recording`, which is why a runner can
hold `loop`. `DeleteSchedule` and `RemoveJob` are two actions because the job goes
after the commit. A job that is due now fires; the scheduler may look too late
(`JobMissed`, APScheduler's misfire grace time).

`VodIngest` models the five producers that turn videos into streams and recordings:
the smart paste, a schedule made from a URL, the backlog download, the playlist and the
poll. A request works through a list; the code between two probes is one action. A
schedule inserts the stream of whatever its probe has found, a finished video
included, and no recording (`InsertStream`); so does the paste of a broadcast. The
history variable `bare` holds the videos without a download: those, and the ones whose
queued download was cancelled while their stream had a recorder's recording
(`CancelBacklog`). The paste, the schedule, the backlog download and the poll look
again after the probe (`AlreadyThere`), the playlist does not and raises on the UNIQUE constraint
(`InsertRaises`), leaving what it has committed in `dropped`. The poll has a snapshot
of the known ids (`known`). Downloads are here for the files they write; how a row is
cancelled and retried is left to `VodQueue`. `orphaned` are the workers whose row was
deleted under them.

`BacklogCache` models one watcher id. A refresh is a task: `created` until the loop
first runs it, `listing` while it awaits the channel's list, `probing` while it awaits
the gather of a batch. `LoopTop` is the head of the batch loop (all done, cancelled,
one more batch) and is reached from a resumption, from the listing and from the end
of a batch. The order of the videos in `items_json` is abstracted: a batch is any
subset of the right size. A session of a task may raise, at any of its
writes: `_bg` logs it and the task is over (`SessionRaises`), with what earlier
sessions have written (`WrittenUncancelled`, `WrittenCancelled`). The history variable
`alone` holds the tasks that never ran beside another one, `abandoned` is set when a
restart or such a session cuts a fetch short, and `cuts` counts the two.

`Publisher` models the segments of one recording id. `publish()` is cut at its awaits
(`spawning`, `cutting`, `thumbnail`, `scanning`); `blocked` is an ffmpeg that has
filled the pipe nobody reads. `out[s]` is the file the row *as it is now* describes,
`current[w]` says whether the row is still the one a worker has read. `delete_source`
is a thread-pool endpoint and two actions, `DeleteSourceChecks` and
`DeleteSourceRemoves`. `muddled` are the segments that were patched, published twice
at once, or touched while the source was being deleted. A publish that fails, and
whose failure cannot be recorded either, leaves its segment `publishing`
(`PublishUnrecorded`), like a restart: both are `abandoned`, and `cuts` counts them. The
id may be given to the next recording (`NewRecording`) while a publish has its lookups
still to come; what is left out is a new recording during the cut of a deleted one, or
during the two steps of `delete_source`.

`Retention` models the pruning job file by file. The job awaits nothing, so no handler
of the loop runs in it, but the yt-dlp children and the threads do: they open, extend,
close, rename and remove fragments and change the subscriptions between any two of
its steps. A modification time is an age, and `Ageing` is the passing of time. A
fragment that is unlinked while open keeps its space until its writer closes it. The
cutoff of an age pass is taken once: `cut` holds the listed fragments that were last
written before it, which ageing does not change and a write does. `Denied` are
fragments that the system does not let the job unlink: they end an age pass and are
skipped by a space pass (`Raises`, `FreeFile`). `written` counts what the children have
written since the space pass read the free space, so that its own count can be compared
with what is there. A period may be any integer, as the interface has it; a negative
one puts the cutoff in the future.

`Setlists` holds the detector, the ranking of the comments, the review page's parser,
the paste parser and the derivation of drafts, as operators on lines reduced to their
numbers and to one of the forms the regular expressions tell apart. A comprehension is
`Picked`, what a list has at some of its positions; Python's `sorted` is `StableSort`;
both are `Arranged` by an `Order` of the positions, since the provers cannot expand
`SelectSeq` and `SortSeq`. `Turn` is one turn of the detector's loop, and the loop the
fold of it. `Stored` and `PostPaste` are the rows after the two requests that replace
them, `AutoSegment` the hook that derives drafts when the status of a recording without
segments changes to `complete`. `SetlistInputs` is a driver: a behaviour lets one kind
of input grow by an element a step, and the properties compare each function with a
definition that works differently. For drafts it is the life of one recording: its
setlist is pasted or sent (`PostSetlistPaste`, `PostSetlist`), it is completed, with
chapters or without (`Completes`), and a download opens it again (`TakenByWorker`), in
any order; `basis` is what there was when it was last completed without segments. Its
inputs are parameters (`Lines`, `Comments`, `Chapters`, `Pasted`, `Entries`,
`Durations` and bounds on their numbers), which `MCSetlists` gives for the run and the theorems leave open.

`MCVodQueue`, `MCVodIngest`, `MCRecorderPool`, `MCLiveRecording`, `MCBacklogCache`,
`MCPublisher`, `MCRetention` declare the model values and symmetry sets, `MCSetlists`
the inputs. The modules named `...Proofs` hold the theorems.

Operators commented as *Mutant* are plausible defects of the definition that
follows them (a missing test, a lost reset, a swapped order). They belong to no
specification; putting one in place of its definition must make a property fail,
which shows that the property depends on that line of the code.

### What is abstracted

Video ids, rows and workers are small sets. Titles, paths, cookies, progress events
and probe results are left out: no modelled decision depends on them. A probe or a
spawn succeeds or fails. One channel watcher. The subscription row behind the watch
toggle is not state: nothing reads it to decide. `Schedule.recording_id` is written
and never read by these parts. An orderly shutdown writes no live row, so for
`LiveRecording` it is one more way of going down; it is modelled in `VodQueue`,
where it does write. Threads are only interleaved at the points where a coroutine
is between two sessions; a thread and the loop in the same session are serialised by
SQLite. A write that the database refuses is modelled where the code goes on after it:
in the worker loop, a refresh and a publish. In a request it means that nothing has
happened.

In `BacklogCache`, view and like counts are only there or not; how a page of the
cache is sorted, filtered and labelled changes no state. In `Publisher`, folder names,
the NFO file, the artwork and the scan are left out, so the file of a segment is told
apart by the segment alone. In `Setlists` a song's title is left out: the functions
carry it along and decide nothing by it, except that a title which is stripped to
nothing is one of the forms of a line.

## 3. Runs

| Run | Shows | Result |
| --- | --- | --- |
| `vod_safety` | Rows scheduled, owned, downloaded once; registry and flags exact; cancellation honoured while up and final once written; every row settled while a worker is left; the refinement of `DownloadJobs` | holds |
| `ingest` | Overlapping producers: every recording reaches the queue, one stream and one recording per video, one writer per file; the refinement of `DownloadJobs` | holds |
| `pool` | Exact dictionary, one writer per stream, the refinement; every stop ends the child, and the task unless its output overflowed | holds |
| `live_safety` | Recovery complete, jobs only for pending schedules, one run per schedule, `complete` only after the run's own child is done | holds |
| `live_live` | Every run that started ends, unless it waits for a recorder that overflowed | holds |
| `backlog` | `fetching` has a task, counts are kept, a lone slow refresh is thorough, a fetch ends, a cancel between batches is taken up | holds |
| `publisher` | `publishing` has a request, `published` has a file, the source goes last, also when the id is given to the next recording under a publish | holds |
| `retention` | Oldest first; what is counted as free is not in the buffer; expired fragments go, unless a pass meets one that cannot be unlinked | holds |
| `setlists` | Detector, review page, comment ranking and drafts against definitions of their own | holds |
| `vod_queued_cancel` | `api/recordings.py:252` says a cancelled queued row is marked and skipped | refuted |
| `live_complete` | `docs/release-checklist.md:33` says that a schedule goes from running to complete | refuted |
| `publisher_cascade` | `models.py:206` says that the segments of a recording go with it | refuted |

### The refuted statements

* *Queued cancel.* `VodQueue.cancel` puts the id into a set in memory; the row stays
  `vod_queued` until its turn. A restart forgets the set, rehydration enqueues the
  row, and it is downloaded although the client was told `vod_cancelled`.
* *Complete.* yt-dlp prints a line per progress report. When the output that nobody
  reads is past asyncio's limit, stopping the recorder kills the child and waits for
  ever: the schedule stays `running`, its stream "already recording", the slot taken,
  and an orderly shutdown never finishes (`wait_all`).
* *Cascade.* The foreign key of `Segment` is declared with `ondelete="CASCADE"`, but
  SQLite does not enforce foreign keys unless a connection asks for it, and the
  session has no relationship to cascade over. The segments of a deleted recording
  appear under the next recording that is given the id, keep it from having drafts of
  its own, and can be published from its file.

## 4. Bounds and fairness

* `vod_safety`: two workers, two ids, each given out once, one restart. Two workers
  and two rows are needed for two entries of one id to be taken at once and for one
  row to fail while another waits; one restart reaches every crash point with every
  recovery after it. A third row adds no kind of conflict: the rows only meet in the
  FIFO and in the workers. Ids that are given out again are covered by the theorems,
  which hold for every `MaxIssues`; what is about the last answer or a flag is stated
  for ids that were given out once (`OnceIssued`), because with reuse the code really
  mixes the rows up (section 8).
* `ingest`: two producers, one of them the poll, two videos, two workers, three rows,
  one deletion, one restart. Two producers and two videos make one lose the race for
  the first video while it still has the second to insert; the third row leaves room
  for a DVR pull or for a video that was deleted and added again.
* `pool`: three recorders and streams, capacity two: both limits can be met at once
  and by different recorders.
* `live_safety`: one stream, two recorders and two runners, two rows, one schedule,
  one restart, and a clock of three instants with a lead of one. A job can be early,
  due and missed, an end can move over `now`. `live_live` has one recorder and one
  runner. The row table is bounded as well: `RoomToRun` keeps a runner from taking
  the loop when no row id is left; without it the bound would look like a deadlock
  of the loop.
* `backlog`: two tasks, three videos, a batch of two, one restart or session that
  raises. Three videos are
  two batches, the second one short; a cancel, an expiry, a resumption and a second
  refresh can each fall between them. One watcher: the model lets an id be given out
  again (`MaxChannels`), and the theorems cover it.
* `publisher`: two requests, two segments, two recordings that are given the one id,
  one restart or failure that cannot be recorded. A request names one segment; the
  publication after a download goes through both. Two of each give two cuts of one
  file, a cut beside the last publication, a deletion of the source beside either, and
  an id that changes hands between the cut of a publish and its end.
  `publisher_cascade` has one request and no restart.
* `retention`: two streams, three fragments of size one on a disk of three, ages up
  to one. Two fragments may share an age or a stream while the third does not, the
  disk can be full, and the second of the three names is one that cannot be unlinked,
  so that there is one before it and one after it. Sizes differ only in the theorems.
  That leaves two fragments to delete, which the target needs, so that the pass stops
  in time (`NoMoreThanNeeded`) is left to its theorem.
* `setlists`: four lines of eight kinds, three comments with the best two looked at,
  two chapters, setlists of two lines or entries. Four lines make two blocks of equal
  length; the eight kinds hold one line for every case of the expressions and of the
  conversion. Two songs can be sent out of order and at one time, and two chapters can
  hold one that is of no use.

Deadlock is checked for the pool and for retention. The other instances may stop: a
server without requests, at the end of the bounds, has nothing to do.

Fairness is weak, and only where the code gives it:

* the loop runs its ready tasks: `Take`, `Handle`, the runners' steps, `Spawned`,
  `Reaped`, a refresh's `TaskStep`. `AutoPublished` is not one of them: `publish()`
  may wait for ever for an ffmpeg that is blocked (`ffmpeg.py:79`);
* yt-dlp (for a download, a listing or a probe) and ffprobe end (`ChildExits`); a
  *live* child need not end, only one that was sent SIGTERM (`ChildTerminates`);
* a batch request ends, in success or failure;
* the pruning job is fired by its interval trigger again and again, and waits for
  nothing (`Prune`);
* a stopping process goes down and the container comes up again
  (`docker-compose.yml`: `restart: unless-stopped`);
* the clock advances.

No request is fair, and `Publisher` and `VodIngest` assume no fairness at all.
`EverySettles` leaves out the rows in `dropped` and `unwritten`: those of a failed batch,
and those whose status the database refused, really wait until the next restart. It
promises nothing once every worker waits for a publication or has died of a refused
write for good (`NoWorkerLeft`). `FetchingEnds` and `CancelTakesEffect` leave out a fetch
that a restart or a raising session cut short: nothing repairs the status, and every
later refresh is refused. `ExpiredGo` leaves out a pass that finds an expired fragment
which cannot be unlinked (section 8), and depends on the fragments
being finitely many: a fragment that vanishes under the age pass
ends the whole job, and a pass that were disturbed like this every time would never
come to the streams after it.

## 5. Proofs

Every theorem holds for every value of the constants. The assumptions are those of
the modules: finite sets, special values outside them, natural bounds, for retention
`0 < Low < Target <= Capacity`, fragments of any size up to a bound and days of
retention that are integers, and for the texts what a line, a comment, a chapter, a
pasted line and an entry are made of. TLC evaluates them in the runs.

`VodQueueProofs`: `TypeCorrect`, `DownloadingNeverStuck`, `QueuedNeverLost`,
`OneEntryPerRow`, `DownloadIsExclusive`. The types are inductive only together with
two facts: a worker at work has a job (`WorkerHasJob`), and nothing of the memory
survives while the application is down (`DownIsEmpty`), since `Startup` does not reset
it. A worker leaves its job in one way, to the top of its loop or to its end
(`LeaveJob`), which is a lemma in each part (`LeaveJobType`, `LeaveJobEntry`, ...).
`DownloadingHasWorker` and `QueuedIsScheduled` are then inductive on top of them.
`ExclusiveDownload` is not: nothing in the handler prevents a second worker. What does
is that an id has a single entry, counted over the FIFO, `pending` and the workers'
jobs, and that a row whose status allows a retry, or whose abandoned child still runs
and nobody has retried it, has none. The same fact carries
`QueueImplementsJobs`, the refinement of `DownloadJobs`: a creation, a retry and
`Startup` ask, `Take` begins, a skipped entry and a failed request withdraw, the end
of a job ends, `GoDown` loses both sets, and everything else is a stutter.

Its last part is about cancellation: `RegistryIsExact`, `FlagsAreFresh`,
`CancelledStaysCancelled`, `QueuedCancelIsHonoured`. With one entry per row, the row
of a worker's job never waits (`BusyNotQueued`), so the flag of a waiting row is met
by its own entry and by no other. `FlaggedWhileQueued` says where a row with a
confirmed cancellation can be.

`VodIngestProofs`: `TypeCorrect`, `QueuedIsEnqueued`, `OneRecording`, `OneWriter`,
`OneEntryPerRecording`, `IngestImplementsJobs`. The strengthening says that a request without a list holds no recording it has still to
enqueue (`HoldsNothing`), and that a job has a row of its own which is downloading
unless it was deleted under the job (`JobsOwnRows`). The refinement of `DownloadJobs`
needs in addition that a recording is in one place, an entry of the FIFO, a worker, or
one unfinished request (`SingleEntry`); then an insertion asks, the end of a list
passes rows from the request to the FIFO and is a stutter, and everything a request
loses by raising is withdrawn in one step. `OneRecordingPerVideo` is inductive with the
rows: a video is in `bare` from the insertion of a stream without a recording, or the
withdrawal of the last one, until its stream goes.

`RecorderPoolProofs`: `PoolTypeCorrect`, `RegistryIsExact`, `NoTwoWriters`,
`CapacityHolds`, `PoolImplementsSlots`. The invariant is the types, `InUseHasStream`
and `RegistryExact`: a task that ends pops the entry of its stream, which empties the
right one only if that entry is its own. One writer per stream follows, since two
recorders of one stream would be registered under one key. For the capacity,
`pool.start` bounds the *entries*; the children map injectively to the entries by
their streams. In the refinement only `Spawned` begins a recording and only the end of
a child ends one; `PoolStart`, `PoolStop` and the end of a task are stutters.

`LiveRecordingProofs`: `TypeCorrect`, `NoTwoLiveWriters`, `LiveImplementsSlots`,
`JobsMatchSchedules`, `RunsAreSingle`, `RecoveryIsComplete`, `CompleteMeansClosed`. Every step of the module
is a step of the pool, leaves it alone, or starts it afresh, so the pool's invariant
carries over, its capacity and its refinement too: going down ends every recording at
once. That a schedule runs once needs that a job is newer than every runner
of the same id (`JobsAreNewer`) and that nothing runs while the application is down
(`DownIsIdle`); that `complete` means closed needs what the runner's local variables
say of its recorder.

`BacklogCacheProofs`: `TypeCorrect`, `FetchingIsFetched`, `CountsAreKept`,
`RefreshIsThorough`. A task that is alone is the only active one (`AloneApart`), so
nobody changes the items under it, and what it knows agrees with them: a video that is
still bare is in its batch, after it, or was asked for in vain (`AloneKnows`). The ways
in which a session raises have one effect for all of this (`RaisesEffect`).

`PublisherProofs`: `TypeCorrect`, `PublishingIsAttended`, `PublishedIsWhole`,
`SourceIsLast`. A segment that nobody has muddled is published by one worker only,
and its file is whole from the end of the cut on (`OwnedByOne`); between the two steps
of `delete_source` nobody publishes it (`SettledForDeletion`).

`RetentionProofs`: `TypeCorrect`, `OnlyWhatIsNeeded`, `OldestGoFirst`,
`CountIsHonest`. The free space is a sum over the fragments, and its type and what a
step does to it rest on lemmas about sums: such a sum exists (`SumsExist`), is a
natural number (`SumNatural`) and changes by what changed (`SumChange`). `CountedIsGone` compares two
counts that differ: when the pass reads the free space, what the fragments show is no
more than what they take (`SumBelow`); after that a write adds to `written` what it adds
to the fragment, a deletion adds to the count what leaves the buffer, and a skipped
fragment adds nothing (`FreeLeavesVisible`). `OldestFirst`
compares what was deleted with what is left and says nothing of the order of the
list; the invariant adds that the list falls in age (`Falling`), by the ages it was
sorted by, and that what was deleted is no younger than what is to come (`Passed`).

`SetlistsProofs`: `BlockOfTimes`, `LongestBlockKept`, `SavedWhenRising`,
`BestCommentWins`, `OneSourceOfDrafts`. The driver's only invariant says what the
inputs are, that the rows are those of the setlist saved last, and that the drafts are
those of `basis` (`TypedInputs`); the rest is about the functions, for lists of any length. The
detector's loop has an invariant of its own (`Held`): the current run ends here and
cannot be longer to the left, the best one is the first longest of those that ended
before it. A run that starts before the current one and ends in it would have to rise
where the current one began by falling (`LongerIsBest`). For the comments, candidates
are a list of all of them in which an earlier one is ahead of a later one
(`CommentsInOrder`), so the k-th has k - 1 ahead of it (`RankOfPosition`).

*Induction over data.* The induction theorems of the library take an operator and are
out of the provers' reach. `WFMin` and `NatLessThanWellFounded` take none: a nonempty
set of naturals has a least member (`LeastNumber`), and with the predicate as a set
that gives induction up to a number (`InductionUpTo`) and over the subsets of a finite
set (`SubsetInduction`). The function that a fold is defined by exists by the former,
on the sizes of the subsets (`FoldExists`).

The types of `VodQueue` are proved only; a run of them would add nothing to
`vod_safety`. Those of the pool are proved for the pool and checked in `live_safety`,
whose `TypeOK` has them as its first part.

**Only model-checked.** Liveness, which the prover does not cover: `EverySettles`,
`StopHonoured`, `RunsEnd`, `FetchingEnds`, `CancelTakesEffect`, `ExpiredGo`. The
refuted statements, which are counterexamples. Every safety invariant, every action
property on steps and every refinement that a run checks is also a theorem.

## 6. What is left

In the order in which it would add most:

1. The names of the media folders in `Publisher`, to tell two segments that share
   one apart from two that do not.
2. `Broadcaster`, if anything but the display comes to depend on it.

## 7. Not modelled

* *Broadcaster.* A dictionary of unbounded queues. Only the progress display depends
  on it, and that a queue keeps its order holds by construction. A subscriber that
  has gone away is noticed when the next message cannot be sent.
* *Password and session.* Hashing and token libraries behind requests of one
  statement; there is no protocol of several steps.
* *Settings, configuration, database, schemas, logging.* Declarations and a single
  row. What the modules need of them is in the actions: settings that are read at
  startup, sessions that commit or roll back, cascades of the session and not of the
  database.
* *yt-dlp, ffmpeg, Emby and setlist.fm clients.* Success, failure, blocking and the
  answer are choices in the actions of the callers.
* *Artist extraction.* String handling with patterns the user writes.
* *Migrations* add columns. *The web frontend* polls and calls the interface; its one
  function with logic of its own, the parser of the review page, is in `Setlists`.

## 8. The code against its documents, without a run

What was met while modelling and is in the actions (or, where it says so, is left
out), and has no run of its own:

* *Running cancel* (`api/recordings.py:253`). Between the write of `vod_downloading`
  and the registration of the child, and while ffprobe runs, nothing is registered.
  `cancel` does nothing, the endpoint answers `vod_cancelled`, the download runs on.
* *Own row* (`models.py:139`). The handler loads the row by id again after the
  download. If the row was deleted and the id given to a new row, the new row becomes
  `complete` with the old video's file.
* *Active* (`models.py:129`). A buffer row is inserted as `recording` before
  `pool.start` may refuse, and nobody writes it when the child ends or is stopped.
* *Future job* (`CHANGELOG.md:378`). `PATCH` moves a job that exists and never adds
  one, so a missed or cancelled schedule that is moved to a later time and set to
  `pending` never fires. A schedule created while a delete request of the same id is
  between its commit and its `remove` loses its job too.
* *Backlog cancel.* `CancelBacklogDownload` looks the stream up after deleting it, so
  it never drops the queue entry.
* *Failed schedule.* The `failed` written for a schedule whose stream is missing is
  rolled back by the exception that follows (`RunLookup`).
* *Deleted stream.* Its schedules stay (`DeleteStream`), and so do its segments, its
  setlist rows and the fragments in the buffer, which no subscription ages any more.
* *Extended schedule.* The runner sleeps until the end time it read at its start
  (`WakeUp`), so a schedule that is extended while it runs is cut at the old end.
* *Playlist* (`docs/release-checklist.md:85`, "N downloads queued"). A playlist
  request that meets a video added meanwhile answers with an error; the rows it has
  committed wait for a restart (`InsertRaises`).
* *Idle cancel* (`api/channel_watchers.py:220`, "if no refresh is running, the request
  is dropped"). The id stays in `_cancel_requests`, and the next slow refresh is
  cancelled at its first batch (`CancelRefresh`, `ConsumeCancel`).
* *Inherited cache.* The cache row of a deleted watcher stays; a watcher that is given
  the id sees the other channel's list, until it expires.
* *Publish under deletion.* A segment that is made or published again between the two
  steps of `delete_source` loses its source (`muddled`).
* *Same folder* (left out). Two segments whose folder pattern gives one name overwrite
  each other's file.
* *Failed writes.* A row whose `vod_failed` cannot be written stays `vod_downloading`
  with no worker until the next start (`vod_queue.py:193`, `HandlerRaises`); a
  `vod_cancelled` that cannot be written ends the worker, and the pool is one smaller
  (`vod_queue.py:166`, `177`). A refresh whose session raises leaves `fetching`, a
  publish whose failure cannot be written leaves `publishing`, and nothing repairs
  either.
* *Abandoned child* (`vod_queue.py:1`, "concurrency-capped"). A line of the child's
  output that is longer than the stream reader takes makes `download()` leave without
  its child (`vod_downloader.py:156`, `DrainRaises`). The row is `vod_failed`, the worker
  takes the next entry, and one slot has two yt-dlp. If the row is retried, two children
  write one file (`again`). No cancellation reaches the first one.
* *Waiting publication.* An automatic publication that never ends takes a download
  worker with it; when all of them wait, nothing is downloaded (`NoWorkerLeft`).
* *Scheduled video.* A schedule made from the URL of a finished video inserts its
  stream, and from then on the poll, the backlog and the playlist take the video for
  known and never download it (`InsertStream`, `bare`).
* *Always runs* (`retention.py:25`). `prune_older_than` does not guard its `unlink`
  (`prune_oldest_until_free` does). One expired fragment that cannot be unlinked ends
  every run of the job at its place: the fragments after it, those of the streams after
  it and the free-space pass never have their turn (`Raises`).
* *Until free* (`buffer.py:56`). The space pass adds up the sizes of what it unlinks, and
  does not ask the file system again. A fragment that a recorder has open counts and
  frees nothing: the pass stops with fragments left and the file system as full as it
  was (`FreeFile`, `TakenBy`).
* *Vanished fragment.* A fragment that vanishes between the listing of the space pass
  and its sort ends the pass with nothing tried (`buffer.py:52`, `FreeSorts`).
* *Retention of a watcher.* `ChannelWatcher.retention_days` can be set and is shown;
  the pruning job reads `WatchSubscription.retention_days` only.
* *Review page.* It reads the stored text by rules of its own: bracketed times are
  lost, every line counts and not only the chosen block, the text is cut at 2000
  characters, and a setlist found in chapters has no text at all. Two songs at one
  time make it send a draft that `create_segment` refuses, after the drafts before it
  have been saved.
