------------------------------ MODULE VodIngest ------------------------------
(***************************************************************************)
(* How videos become streams, recordings and entries of the VOD queue:     *)
(* the smart paste and dvr-pull of api/streams.py, the backlog download of *)
(* api/channel_watchers.py, the playlists of api/playlists.py, the upload  *)
(* path of channel_poller.py, and the stream that a schedule brings along  *)
(* (api/schedules.py), which has no recording.                             *)
(*                                                                         *)
(* A request goes through a list of videos.  For each it looks whether the *)
(* video is known, awaits a probe of it, and inserts a stream with its     *)
(* recording; the recordings are enqueued when the list is done.  The code *)
(* from one probe to the next is one action.  Streams.youtube_id is        *)
(* UNIQUE: two requests that probe the same video both come to the insert. *)
(*                                                                         *)
(* The downloads are here for the files they write: a job writes the path  *)
(* of its row until it ends, whatever becomes of the row.  How a row is    *)
(* cancelled, retried and recovered is VodQueue's subject.  Row ids are    *)
(* not given out again here (VodQueue does that too).  The recordings that *)
(* recorders make of a stream are LiveRecording's: Rows are downloads.     *)
(***************************************************************************)
EXTENDS Integers, FiniteSets

CONSTANTS
    Videos,         \* YouTube ids
    Producers,      \* requests and polls that may run at once
    Workers,        \* VOD workers
    Rows,           \* recordings, in the order of their ids
    Poller,         \* the producer that the scheduler's interval job is (max_instances 1)
    MaxDeletes,     \* bound: streams deleted
    MaxRestarts,    \* bound: how often the application goes down
    NoVideo, NoRow

ASSUME IngestAssumption ==
    /\ Rows \subseteq Nat
    /\ Poller \in Producers
    /\ NoVideo \notin Videos
    /\ NoRow \notin Rows
    /\ MaxDeletes \in Nat
    /\ MaxRestarts \in Nat

VARIABLES
    stream,         \* Stream.kind of each video, "none" when there is no row
    video, dvr,     \* each recording: its video, and whether dvr-pull made it
    status,         \* each recording: Recording.status, as far as it matters here
    fifo,           \* recordings in the VOD queue
    job,            \* each worker: the recording it downloads
    kind,           \* each producer: what it does, or "idle"
    todo,           \* each producer: videos still to be looked at
    probing,        \* each producer: the video it probes, or NoVideo
    new,            \* each producer: new_rec_ids
    known,          \* the poll: known_ids
    bare,           \* history: video streams without a download: they came with a
                    \* schedule, or theirs was withdrawn
    dropped,        \* history: rows whose playlist request raised before it enqueued them
    orphaned,       \* history: jobs whose row was deleted
    deletes, restarts

requests == <<kind, todo, probing, new, known>>
rows == <<stream, bare, video, dvr, status>>
vars == <<rows, fifo, job, requests, dropped, orphaned, deletes, restarts>>

TypeOK ==
    /\ stream \in [Videos -> {"none", "live", "video"}]
    /\ video \in [Rows -> Videos \cup {NoVideo}]
    /\ dvr \in [Rows -> BOOLEAN]
    /\ status \in [Rows -> {"unused", "vod_queued", "vod_downloading", "settled", "deleted"}]
    /\ fifo \subseteq Rows
    /\ job \in [Workers -> Rows \cup {NoRow}]
    /\ kind \in [Producers ->
                 {"idle", "paste", "schedule", "backlog", "playlist", "listing", "poll"}]
    /\ todo \in [Producers -> SUBSET Videos]
    /\ probing \in [Producers -> Videos \cup {NoVideo}]
    /\ new \in [Producers -> SUBSET Rows]
    /\ known \subseteq Videos
    /\ bare \subseteq Videos
    /\ dropped \subseteq Rows
    /\ orphaned \subseteq Workers
    /\ deletes \in 0..MaxDeletes
    /\ restarts \in 0..MaxRestarts
    /\ \A p \in Producers : kind[p] \in {"idle", "listing"} => new[p] = {}

KnownStreams == {v \in Videos : stream[v] # "none"}

Used == {r \in Rows : status[r] # "unused"}
IsNextRow(r) == status[r] = "unused" /\ \A q \in Rows : q < r => q \in Used

-----------------------------------------------------------------------------
(***************************************************************************)
(* The loop over a list of videos.                                         *)
(***************************************************************************)

\* The recordings of a request are enqueued, and the request answers.
Answer(p, recs) ==
    /\ fifo' = fifo \cup recs
    /\ kind' = [kind EXCEPT ![p] = "idle"]
    /\ todo' = [todo EXCEPT ![p] = {}]
    /\ probing' = [probing EXCEPT ![p] = NoVideo]
    /\ new' = [new EXCEPT ![p] = {}]

\* Mutant: every recording is enqueued at once, and all again at the end.
GoOnEnqueues(p, rest, skipped, recs) ==
    IF rest \subseteq skipped
    THEN Answer(p, recs)
    ELSE \E v \in rest \ skipped : \E passed \in SUBSET (rest \cap skipped) :
            /\ probing' = [probing EXCEPT ![p] = v]
            /\ todo' = [todo EXCEPT ![p] = rest \ (passed \cup {v})]
            /\ new' = [new EXCEPT ![p] = recs]
            /\ fifo' = fifo \cup recs
            /\ UNCHANGED kind

\* On to the next video that is not skipped, or to the end of the list.  What
\* comes before it and is skipped has been looked at.
GoOn(p, rest, skipped, recs) ==
    IF rest \subseteq skipped
    THEN Answer(p, recs)
    ELSE \E v \in rest \ skipped : \E passed \in SUBSET (rest \cap skipped) :
            /\ probing' = [probing EXCEPT ![p] = v]
            /\ todo' = [todo EXCEPT ![p] = rest \ (passed \cup {v})]
            /\ new' = [new EXCEPT ![p] = recs]
            /\ UNCHANGED <<fifo, kind>>

\* What a list skips without a probe: known streams, for a poll those that
\* were known when it began or that it has added.
Skipped(p, streams) == IF kind[p] = "poll" THEN known ELSE streams

\* create_stream with the URL of a video: one probe, then setlist detection.
\* create_schedule with a URL: one probe.
UrlPosted(p, k, v) ==
    /\ kind[p] = "idle" /\ p # Poller
    /\ kind' = [kind EXCEPT ![p] = k]
    /\ probing' = [probing EXCEPT ![p] = v]
    /\ UNCHANGED <<rows, fifo, job, todo, new, known, dropped, orphaned, deletes, restarts>>

\* download_backlog_items and confirm_playlist begin alike.
ListPosted(p, k, S) ==
    /\ kind[p] = "idle" /\ p # Poller
    /\ S \ KnownStreams # {}
    /\ \E v \in S \ KnownStreams : \E passed \in SUBSET (S \cap KnownStreams) :
        /\ probing' = [probing EXCEPT ![p] = v]
        /\ todo' = [todo EXCEPT ![p] = S \ (passed \cup {v})]
    /\ kind' = [kind EXCEPT ![p] = k]
    /\ UNCHANGED <<rows, fifo, job, new, known, dropped, orphaned, deletes, restarts>>

\* The poll awaits the list of recent uploads of a watcher.
PollBegins ==
    /\ kind[Poller] = "idle"
    /\ kind' = [kind EXCEPT ![Poller] = "listing"]
    /\ UNCHANGED <<rows, fifo, job, todo, probing, new, known, dropped, orphaned, deletes, restarts>>

\* It has them: S are those that are not live, were uploaded after the day of
\* the subscription, and match the filter.
PollLists(S) ==
    /\ kind[Poller] = "listing"
    /\ known' = KnownStreams
    /\ IF S \subseteq known'
       THEN kind' = [kind EXCEPT ![Poller] = "idle"] /\ UNCHANGED <<todo, probing>>
       ELSE /\ kind' = [kind EXCEPT ![Poller] = "poll"]
            /\ \E v \in S \ known' : \E passed \in SUBSET (S \cap known') :
                /\ probing' = [probing EXCEPT ![Poller] = v]
                /\ todo' = [todo EXCEPT ![Poller] = S \ (passed \cup {v})]
    /\ UNCHANGED <<rows, fifo, job, new, dropped, orphaned, deletes, restarts>>

-----------------------------------------------------------------------------
(***************************************************************************)
(* The answer of a probe.                                                  *)
(***************************************************************************)

\* The probe fails, or a poll finds that the video is live after all: a list
\* goes on without it, a paste or a schedule is answered with 400.
ProbeFails(p) ==
    /\ probing[p] # NoVideo
    /\ GoOn(p, todo[p], Skipped(p, KnownStreams), new[p])
    /\ UNCHANGED <<rows, job, known, dropped, orphaned, deletes, restarts>>

\* Mutant: a second recording is made for the stream that is there.
InsertAnyway(p, r) ==
    LET v == probing[p]
    IN  /\ v # NoVideo
        /\ kind[p] # "schedule"
        /\ IsNextRow(r)
        /\ stream' = [stream EXCEPT ![v] = "video"]
        /\ video' = [video EXCEPT ![r] = v]
        /\ dvr' = [dvr EXCEPT ![r] = FALSE]
        /\ status' = [status EXCEPT ![r] = "vod_queued"]
        /\ known' = IF kind[p] = "poll" THEN known \cup {v} ELSE known
        /\ GoOn(p, todo[p], IF kind[p] = "poll" THEN known' ELSE KnownStreams \cup {v},
                new[p] \cup {r})
        /\ UNCHANGED <<bare, job, dropped, orphaned, deletes, restarts>>

\* A stream and its recording are inserted in one session.
Insert(p, r) ==
    LET v == probing[p]
    IN  /\ v # NoVideo
        /\ kind[p] # "schedule"
        /\ stream[v] = "none"
        /\ IsNextRow(r)
        /\ stream' = [stream EXCEPT ![v] = "video"]
        /\ video' = [video EXCEPT ![r] = v]
        /\ dvr' = [dvr EXCEPT ![r] = FALSE]
        /\ status' = [status EXCEPT ![r] = "vod_queued"]
        /\ known' = IF kind[p] = "poll" THEN known \cup {v} ELSE known
        /\ GoOn(p, todo[p], IF kind[p] = "poll" THEN known' ELSE KnownStreams \cup {v},
                new[p] \cup {r})
        /\ UNCHANGED <<bare, job, dropped, orphaned, deletes, restarts>>

\* A stream without a recording: create_stream of a broadcast, and
\* create_schedule of whatever the probe has found.
InsertStream(p, k) ==
    LET v == probing[p]
    IN  /\ kind[p] = "schedule" \/ (kind[p] = "paste" /\ k = "live")
        /\ v # NoVideo
        /\ stream[v] = "none"
        /\ stream' = [stream EXCEPT ![v] = k]
        /\ bare' = IF k = "video" THEN bare \cup {v} ELSE bare
        /\ Answer(p, {})
        /\ UNCHANGED <<video, dvr, status, job, known, dropped, orphaned, deletes, restarts>>

\* Mutant: the poll and the backlog do not look again either.
AlreadyThereRaises(p) ==
    /\ probing[p] # NoVideo
    /\ stream[probing[p]] # "none"
    /\ kind[p] # "playlist"
    /\ Answer(p, {})
    /\ UNCHANGED <<rows, job, known, dropped, orphaned, deletes, restarts>>

\* The video was added during the probe: the poll and the backlog look again
\* and go on, a paste is answered with 409, a schedule takes the stream.
AlreadyThere(p) ==
    /\ probing[p] # NoVideo
    /\ stream[probing[p]] # "none"
    /\ kind[p] # "playlist"
    /\ GoOn(p, todo[p], Skipped(p, KnownStreams), new[p])
    /\ UNCHANGED <<rows, job, known, dropped, orphaned, deletes, restarts>>

\* The playlist does not look again.  Its insert violates UNIQUE, and the
\* request ends with what it has inserted committed, and not enqueued.
InsertRaises(p) ==
    /\ kind[p] = "playlist" /\ probing[p] # NoVideo
    /\ stream[probing[p]] # "none"
    /\ dropped' = dropped \cup new[p]
    /\ Answer(p, {})
    /\ UNCHANGED <<rows, job, known, orphaned, deletes, restarts>>

-----------------------------------------------------------------------------
(***************************************************************************)
(* Everything else that touches these rows.                                *)
(***************************************************************************)

\* _ensure_stream of the poll's live path; it awaits nothing.
BroadcastSeen(v) ==
    /\ kind[Poller] = "idle"
    /\ stream[v] = "none"
    /\ stream' = [stream EXCEPT ![v] = "live"]
    /\ UNCHANGED <<bare, video, dvr, status, fifo, job, requests, dropped, orphaned, deletes, restarts>>

DvrPull(v, r) ==
    /\ stream[v] = "live"
    /\ IsNextRow(r)
    /\ video' = [video EXCEPT ![r] = v]
    /\ dvr' = [dvr EXCEPT ![r] = TRUE]
    /\ status' = [status EXCEPT ![r] = "vod_queued"]
    /\ fifo' = fifo \cup {r}
    /\ UNCHANGED <<stream, bare, job, requests, dropped, orphaned, deletes, restarts>>

RowsOf(v) == {r \in Used : video[r] = v /\ status[r] # "deleted"}

\* delete_stream; the recordings go too, their downloads and queue entries do
\* not.
DeleteStream(v) ==
    /\ stream[v] # "none"
    /\ deletes < MaxDeletes
    /\ deletes' = deletes + 1
    /\ stream' = [stream EXCEPT ![v] = "none"]
    /\ bare' = bare \ {v}
    /\ status' = [r \in Rows |-> IF r \in RowsOf(v) THEN "deleted" ELSE status[r]]
    /\ dropped' = dropped \ RowsOf(v)
    /\ orphaned' = orphaned \cup {w \in Workers : job[w] \in RowsOf(v)}
    /\ UNCHANGED <<video, dvr, fifo, job, requests, restarts>>

\* cancel_backlog_downloads deletes what is queued of a video, and its stream
\* unless it has other recordings (recorded: of a recorder).
CancelBacklog(v, recorded) ==
    LET queued == {r \in RowsOf(v) : status[r] = "vod_queued"}
        alone == queued = RowsOf(v) /\ ~recorded
    IN  /\ queued # {}
        /\ deletes < MaxDeletes
        /\ deletes' = deletes + 1
        /\ status' = [r \in Rows |-> IF r \in queued THEN "deleted" ELSE status[r]]
        /\ stream' = IF alone THEN [stream EXCEPT ![v] = "none"] ELSE stream
        /\ bare' = IF stream[v] = "video" /\ ~alone THEN bare \cup {v} ELSE bare
        /\ dropped' = dropped \ queued
        /\ UNCHANGED <<video, dvr, fifo, job, requests, orphaned, restarts>>

\* A worker takes an entry; an entry whose row is gone is passed over.
TakeEntry(w, r) ==
    /\ job[w] = NoRow
    /\ r \in fifo
    /\ fifo' = fifo \ {r}
    /\ IF status[r] \notin {"unused", "deleted"}
       THEN /\ job' = [job EXCEPT ![w] = r]
            /\ status' = [status EXCEPT ![r] = "vod_downloading"]
       ELSE UNCHANGED <<job, status>>
    /\ UNCHANGED <<stream, bare, video, dvr, requests, dropped, orphaned, deletes, restarts>>

\* A download ends, well or not.
DownloadEnds(w) ==
    /\ job[w] # NoRow
    /\ job' = [job EXCEPT ![w] = NoRow]
    /\ status' = IF status[job[w]] = "vod_downloading"
                 THEN [status EXCEPT ![job[w]] = "settled"] ELSE status
    /\ orphaned' = orphaned \ {w}
    /\ UNCHANGED <<stream, bare, video, dvr, fifo, requests, dropped, deletes, restarts>>

\* The application goes down and comes up: what was downloading is queued
\* again, and the queue is filled with all that is queued.
Restart ==
    /\ restarts < MaxRestarts
    /\ restarts' = restarts + 1
    /\ status' = [r \in Rows |-> IF status[r] = "vod_downloading" THEN "vod_queued" ELSE status[r]]
    /\ fifo' = {r \in Rows : status'[r] = "vod_queued"}
    /\ job' = [w \in Workers |-> NoRow]
    /\ kind' = [p \in Producers |-> "idle"]
    /\ todo' = [p \in Producers |-> {}]
    /\ probing' = [p \in Producers |-> NoVideo]
    /\ new' = [p \in Producers |-> {}]
    /\ dropped' = {} /\ orphaned' = {}
    /\ UNCHANGED <<stream, bare, video, dvr, known, deletes>>

-----------------------------------------------------------------------------
Init ==
    /\ stream = [v \in Videos |-> "none"]
    /\ video = [r \in Rows |-> NoVideo]
    /\ dvr = [r \in Rows |-> FALSE]
    /\ status = [r \in Rows |-> "unused"]
    /\ fifo = {}
    /\ job = [w \in Workers |-> NoRow]
    /\ kind = [p \in Producers |-> "idle"]
    /\ todo = [p \in Producers |-> {}]
    /\ probing = [p \in Producers |-> NoVideo]
    /\ new = [p \in Producers |-> {}]
    /\ known = {} /\ bare = {} /\ dropped = {} /\ orphaned = {}
    /\ deletes = 0 /\ restarts = 0

ProbeAnswers(p) ==
    \/ ProbeFails(p)
    \/ \E r \in Rows : Insert(p, r)
    \/ \E k \in {"live", "video"} : InsertStream(p, k)
    \/ AlreadyThere(p)
    \/ InsertRaises(p)

Next ==
    \/ \E p \in Producers :
        \/ \E k \in {"paste", "schedule"}, v \in Videos : UrlPosted(p, k, v)
        \/ \E k \in {"backlog", "playlist"}, S \in SUBSET Videos : ListPosted(p, k, S)
        \/ ProbeAnswers(p)
    \/ PollBegins
    \/ \E S \in SUBSET Videos : PollLists(S)
    \/ \E v \in Videos :
        \/ BroadcastSeen(v)
        \/ \E r \in Rows : DvrPull(v, r)
        \/ DeleteStream(v)
        \/ \E recorded \in BOOLEAN : CancelBacklog(v, recorded)
    \/ \E w \in Workers :
        \/ \E r \in Rows : TakeEntry(w, r)
        \/ DownloadEnds(w)
    \/ Restart

Spec == Init /\ [][Next]_vars

-----------------------------------------------------------------------------
(***************************************************************************)
(* Properties.                                                             *)
(***************************************************************************)

\* A queued recording is in the queue, or its request is still at its list
\* and will enqueue it, or its playlist request raised on a UNIQUE conflict.
QueuedReachesQueue ==
    \A r \in Rows : status[r] = "vod_queued" =>
        \/ r \in fifo
        \/ r \in dropped
        \/ \E p \in Producers : r \in new[p] /\ probing[p] # NoVideo

\* A stream and its downloads agree, whatever requests overlap: a video has
\* exactly one recording to download, a live stream only DVR pulls, no stream
\* nothing.  A video that came with a schedule has none, and neither has one
\* whose download was withdrawn while it had a recorder's recording: a stream
\* that is there is known to every producer, so none of them makes it up.
OneRecordingPerVideo ==
    \A v \in Videos :
        /\ stream[v] = "none" => RowsOf(v) = {}
        /\ stream[v] = "live" => \A r \in RowsOf(v) : dvr[r]
        /\ v \in bare => RowsOf(v) = {} /\ stream[v] = "video"
        /\ stream[v] = "video" /\ v \notin bare =>
               \E r \in RowsOf(v) : ~dvr[r] /\ RowsOf(v) = {r}

\* Two workers write one file only if it is a DVR pull, of which a stream may
\* have several, or if the stream was deleted under one of them and added again.
OneWriterPerFile ==
    \A w, x \in Workers :
        w # x /\ job[w] # NoRow /\ job[x] # NoRow
        /\ video[job[w]] = video[job[x]] /\ dvr[job[w]] = dvr[job[x]]
        => dvr[job[w]] \/ w \in orphaned \/ x \in orphaned

\* A recording that was committed is asked for from its insertion on, however
\* producers, deletions and workers overlap: no list hands a recording to the
\* queue twice, no two lists hold one recording, and no worker begins one that
\* another list has still to enqueue.
waitingJobs == fifo \cup UNION {new[p] : p \in Producers}
workingJobs == {<<w, job[w]>> : w \in {x \in Workers : job[x] # NoRow}}
Jobs == INSTANCE DownloadJobs WITH due <- waitingJobs, atWork <- workingJobs
ImplementsJobs == Jobs!Spec
=============================================================================
