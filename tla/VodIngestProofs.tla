-------------------------- MODULE VodIngestProofs --------------------------
(***************************************************************************)
(* Theorems about VodIngest, for any videos, producers, workers and rows.  *)
(*                                                                         *)
(* Three facts make the invariants inductive.  A request without a list    *)
(* (idle, waiting for the uploads, a smart paste, a schedule) holds no     *)
(* recording that it still has to enqueue (HoldsNothing).  A job has a row *)
(* of its own, which is downloading unless it was deleted under the job    *)
(* (JobsOwnRows).  A recording has one entry at most, in the queue or in   *)
(* one list, and one that has an entry is queued or gone (SingleEntry): a  *)
(* worker takes whatever row is there, and finds no download under way.    *)
(***************************************************************************)
EXTENDS VodIngest, TLAPS

HoldsNothing ==
    \A p \in Producers :
        /\ kind[p] \in {"idle", "listing", "paste", "schedule"} => todo[p] = {} /\ new[p] = {}
        /\ kind[p] \in {"idle", "listing"} => probing[p] = NoVideo

UsedHaveVideo == \A r \in Rows : status[r] # "unused" => video[r] \in Videos

JobsOwnRows ==
    \A w \in Workers :
        /\ w \in orphaned => job[w] # NoRow
        /\ job[w] # NoRow =>
             /\ status[job[w]] = IF w \in orphaned THEN "deleted" ELSE "vod_downloading"
             /\ \A x \in Workers : x # w => job[x] # job[w]

\* A recording is in the queue or held by one request, and is queued or gone.
Enterable == {r \in Rows : status[r] \in {"vod_queued", "deleted"}}

SingleEntry ==
    /\ waitingJobs \subseteq Enterable
    /\ \A p \in Producers : new[p] \cap fifo = {}
    /\ \A p, q \in Producers : p # q => new[p] \cap new[q] = {}

IInv ==
    /\ TypeOK /\ HoldsNothing /\ UsedHaveVideo /\ JobsOwnRows /\ SingleEntry
    /\ QueuedReachesQueue /\ OneRecordingPerVideo

-----------------------------------------------------------------------------
(***************************************************************************)
(* The loop over a list: what the end of one turn does to the request.     *)
(***************************************************************************)

RequestsTyped ==
    /\ fifo \subseteq Rows
    /\ kind \in [Producers ->
                 {"idle", "paste", "schedule", "backlog", "playlist", "listing", "poll"}]
    /\ todo \in [Producers -> SUBSET Videos]
    /\ probing \in [Producers -> Videos \cup {NoVideo}]
    /\ new \in [Producers -> SUBSET Rows]
    /\ HoldsNothing

RowsTyped ==
    /\ stream \in [Videos -> {"none", "live", "video"}]
    /\ video \in [Rows -> Videos \cup {NoVideo}]
    /\ dvr \in [Rows -> BOOLEAN]
    /\ status \in [Rows -> {"unused", "vod_queued", "vod_downloading", "settled", "deleted"}]
    /\ known \subseteq Videos
    /\ bare \subseteq Videos
    /\ dropped \subseteq Rows

\* No recording that some request holds, or that is in recs, is lost.
NoneLost(p, recs) ==
    \A r \in Rows :
        r \in fifo \/ r \in recs \/ (\E q \in Producers \ {p} : r \in new[q] /\ probing[q] # NoVideo)
        => r \in fifo' \/ \E q \in Producers : r \in new'[q] /\ probing'[q] # NoVideo

LEMMA AnswerEffect ==
    ASSUME TypeOK, HoldsNothing, NEW p \in Producers, NEW recs \in SUBSET Rows, Answer(p, recs)
    PROVE  RequestsTyped' /\ NoneLost(p, recs)
<1>1. RequestsTyped'
    BY DEF Answer, TypeOK, HoldsNothing, RequestsTyped
<1>2. NoneLost(p, recs)
    BY DEF Answer, TypeOK, NoneLost
<1> QED
    BY <1>1, <1>2

LEMMA GoOnEffect ==
    ASSUME TypeOK, HoldsNothing, NEW p \in Producers, NEW recs \in SUBSET Rows,
           NEW skipped, kind[p] \in {"paste", "schedule", "backlog", "playlist", "poll"},
           GoOn(p, todo[p], skipped, recs)
    PROVE  RequestsTyped' /\ NoneLost(p, recs)
<1>1. CASE Answer(p, recs)
    BY <1>1, AnswerEffect
<1>2. CASE ~(todo[p] \subseteq skipped)
    <2>1. PICK v \in todo[p] \ skipped, passed \in SUBSET (todo[p] \cap skipped) :
            /\ probing' = [probing EXCEPT ![p] = v]
            /\ todo' = [todo EXCEPT ![p] = todo[p] \ (passed \cup {v})]
            /\ new' = [new EXCEPT ![p] = recs]
            /\ UNCHANGED <<fifo, kind>>
        BY <1>2 DEF GoOn
    <2>2. v \in Videos /\ v # NoVideo /\ kind[p] \notin {"paste", "schedule"}
        BY <2>1, IngestAssumption DEF TypeOK, HoldsNothing
    <2>3. RequestsTyped'
        BY <2>1, <2>2 DEF TypeOK, HoldsNothing, RequestsTyped
    <2>4. NoneLost(p, recs)
        BY <2>1, <2>2 DEF TypeOK, NoneLost
    <2> QED
        BY <2>3, <2>4
<1> QED
    BY <1>1, <1>2 DEF GoOn

\* A request that probes has a list, or is a smart paste or a schedule.
LEMMA ProbingKind ==
    ASSUME TypeOK, HoldsNothing, NEW p \in Producers, probing[p] # NoVideo
    PROVE  kind[p] \in {"paste", "schedule", "backlog", "playlist", "poll"}
BY DEF TypeOK, HoldsNothing

\* What the answer of a probe does to the requests and to the queue; recs are
\* the recordings it enqueues or keeps.
LEMMA ProbeEffect ==
    ASSUME TypeOK, HoldsNothing, NEW p \in Producers, ProbeAnswers(p)
    PROVE  /\ RequestsTyped'
           /\ \/ UNCHANGED rows /\ UNCHANGED dropped /\ NoneLost(p, new[p])
              \/ UNCHANGED rows /\ dropped' = dropped \cup new[p] /\ NoneLost(p, {})
              \/ \E r \in Rows : Insert(p, r) /\ NoneLost(p, new[p] \cup {r})
              \/ \E k \in {"live", "video"} : InsertStream(p, k) /\ NoneLost(p, new[p])
<1>0. new[p] \in SUBSET Rows /\ {} \in SUBSET Rows
    BY DEF TypeOK
<1>1. CASE ProbeFails(p)
    BY <1>0, <1>1, ProbingKind, GoOnEffect DEF ProbeFails
<1>2. ASSUME NEW r \in Rows, Insert(p, r)
      PROVE  RequestsTyped' /\ NoneLost(p, new[p] \cup {r})
    <2> DEFINE skipped == IF kind[p] = "poll" THEN known' ELSE KnownStreams \cup {probing[p]}
    <2>1. probing[p] # NoVideo /\ GoOn(p, todo[p], skipped, new[p] \cup {r})
        BY <1>2 DEF Insert
    <2> HIDE DEF skipped
    <2>2. new[p] \cup {r} \in SUBSET Rows
        BY <1>0
    <2> QED
        BY <2>1, <2>2, ProbingKind, GoOnEffect
<1>3. ASSUME NEW k \in {"live", "video"}, InsertStream(p, k)
      PROVE  RequestsTyped' /\ NoneLost(p, new[p])
    <2>1. Answer(p, {}) /\ kind[p] \in {"paste", "schedule"}
        BY <1>3 DEF InsertStream
    <2>2. new[p] = {}
        BY <2>1 DEF HoldsNothing
    <2>3. RequestsTyped' /\ NoneLost(p, {})
        BY <1>0, <2>1, AnswerEffect
    <2> QED
        BY <1>3, <2>2, <2>3
<1>4. CASE AlreadyThere(p)
    BY <1>0, <1>4, ProbingKind, GoOnEffect DEF AlreadyThere
<1>5. CASE InsertRaises(p)
    <2>1. RequestsTyped' /\ NoneLost(p, {})
        BY <1>0, <1>5, AnswerEffect DEF InsertRaises
    <2> QED
        BY <1>5, <2>1 DEF InsertRaises
<1> QED
    BY <1>1, <1>2, <1>3, <1>4, <1>5 DEF ProbeAnswers

-----------------------------------------------------------------------------
\* Types are kept by every request, answer, download and restart.
LEMMA TypeStep ==
    ASSUME TypeOK, HoldsNothing, [Next]_vars
    PROVE  TypeOK' /\ HoldsNothing'
<1>0. /\ MaxDeletes \in Nat /\ MaxRestarts \in Nat /\ NoVideo \notin Videos
      /\ Poller \in Producers
    BY IngestAssumption
<1>1. ASSUME NEW p \in Producers, NEW k \in {"paste", "schedule"}, NEW v \in Videos,
             UrlPosted(p, k, v)
      PROVE  TypeOK' /\ HoldsNothing'
    BY <1>1 DEF UrlPosted, TypeOK, HoldsNothing, rows
<1>2. ASSUME NEW p \in Producers, NEW k \in {"backlog", "playlist"}, NEW S \in SUBSET Videos,
             ListPosted(p, k, S)
      PROVE  TypeOK' /\ HoldsNothing'
    <2>1. /\ kind' = [kind EXCEPT ![p] = k] /\ kind[p] = "idle"
          /\ UNCHANGED <<rows, fifo, job, new, known, dropped, orphaned, deletes, restarts>>
        BY <1>2 DEF ListPosted
    <2>2. PICK v \in Videos, T \in SUBSET Videos : /\ probing' = [probing EXCEPT ![p] = v]
                                                   /\ todo' = [todo EXCEPT ![p] = T]
        BY <1>2 DEF ListPosted
    <2> QED
        BY <2>1, <2>2 DEF TypeOK, HoldsNothing, rows
<1>3. ASSUME NEW p \in Producers, ProbeAnswers(p)
      PROVE  TypeOK' /\ HoldsNothing'
    <2>1. RequestsTyped'
        BY <1>3, ProbeEffect
    <2>2. RowsTyped'
        <3>1. ASSUME NEW r \in Rows, Insert(p, r)
              PROVE  RowsTyped'
            <4>1. probing[p] \in Videos
                BY <3>1 DEF Insert, TypeOK
            <4>2. /\ stream' = [stream EXCEPT ![probing[p]] = "video"]
                  /\ video' = [video EXCEPT ![r] = probing[p]]
                  /\ dvr' = [dvr EXCEPT ![r] = FALSE]
                  /\ status' = [status EXCEPT ![r] = "vod_queued"]
                  /\ known' = (IF kind[p] = "poll" THEN known \cup {probing[p]} ELSE known)
                  /\ UNCHANGED <<bare, dropped>>
                BY <3>1 DEF Insert
            <4> QED
                BY <4>1, <4>2 DEF TypeOK, RowsTyped
        <3>2. ASSUME NEW k \in {"live", "video"}, InsertStream(p, k)
              PROVE  RowsTyped'
            <4>1. probing[p] \in Videos
                BY <3>2 DEF InsertStream, TypeOK
            <4> QED
                BY <3>2, <4>1 DEF InsertStream, TypeOK, RowsTyped
        <3>3. CASE ProbeFails(p) \/ AlreadyThere(p)
            BY <3>3 DEF ProbeFails, AlreadyThere, TypeOK, RowsTyped, rows
        <3>4. CASE InsertRaises(p)
            BY <3>4 DEF InsertRaises, TypeOK, RowsTyped, rows
        <3> QED
            BY <1>3, <3>1, <3>2, <3>3, <3>4 DEF ProbeAnswers
    <2>4. UNCHANGED <<job, orphaned, deletes, restarts>>
        BY <1>3 DEF ProbeAnswers, ProbeFails, Insert, InsertStream, AlreadyThere, InsertRaises
    <2> QED
        BY <2>1, <2>2, <2>4 DEF TypeOK, RequestsTyped, RowsTyped, HoldsNothing
<1>4. CASE PollBegins
    BY <1>0, <1>4 DEF PollBegins, TypeOK, HoldsNothing, rows
<1>5. ASSUME NEW S \in SUBSET Videos, PollLists(S)
      PROVE  TypeOK' /\ HoldsNothing'
    <2>1. /\ known' = KnownStreams /\ kind[Poller] = "listing"
          /\ UNCHANGED <<rows, fifo, job, new, dropped, orphaned, deletes, restarts>>
        BY <1>5 DEF PollLists
    <2>2. ASSUME RequestsTyped'
          PROVE  TypeOK' /\ HoldsNothing'
        <3>1. known' \subseteq Videos
            BY <2>1 DEF KnownStreams
        <3>2. UNCHANGED rows
            BY <2>1
        <3> QED
            BY <2>1, <2>2, <3>1, <3>2 DEF TypeOK, RequestsTyped, HoldsNothing, rows
    <2>3. CASE kind' = [kind EXCEPT ![Poller] = "idle"] /\ UNCHANGED <<todo, probing>>
        <3>1. RequestsTyped'
            BY <1>0, <2>1, <2>3 DEF TypeOK, HoldsNothing, RequestsTyped
        <3> QED
            BY <2>2, <3>1
    <2>4. CASE ~(S \subseteq known')
        <3>1. PICK v \in S \ known', passed \in SUBSET (S \cap known') :
                /\ probing' = [probing EXCEPT ![Poller] = v]
                /\ todo' = [todo EXCEPT ![Poller] = S \ (passed \cup {v})]
            BY <1>5, <2>4 DEF PollLists
        <3>2. kind' = [kind EXCEPT ![Poller] = "poll"]
            BY <1>5, <2>4 DEF PollLists
        <3>3. RequestsTyped'
            BY <1>0, <2>1, <3>1, <3>2 DEF TypeOK, HoldsNothing, RequestsTyped
        <3> QED
            BY <2>2, <3>3
    <2> QED
        BY <1>5, <2>3, <2>4 DEF PollLists
<1>6. ASSUME NEW v \in Videos, BroadcastSeen(v)
      PROVE  TypeOK' /\ HoldsNothing'
    BY <1>6 DEF BroadcastSeen, TypeOK, HoldsNothing, requests
<1>7. ASSUME NEW v \in Videos, NEW r \in Rows, DvrPull(v, r)
      PROVE  TypeOK' /\ HoldsNothing'
    BY <1>7 DEF DvrPull, TypeOK, HoldsNothing, requests
<1>8. ASSUME NEW v \in Videos, DeleteStream(v)
      PROVE  TypeOK' /\ HoldsNothing'
    BY <1>0, <1>8 DEF DeleteStream, TypeOK, HoldsNothing, requests
<1>13. ASSUME NEW v \in Videos, NEW recorded \in BOOLEAN, CancelBacklog(v, recorded)
       PROVE  TypeOK' /\ HoldsNothing'
    BY <1>0, <1>13 DEF CancelBacklog, TypeOK, HoldsNothing, requests
<1>9. ASSUME NEW w \in Workers, NEW r \in Rows, TakeEntry(w, r)
      PROVE  TypeOK' /\ HoldsNothing'
    BY <1>9 DEF TakeEntry, TypeOK, HoldsNothing, requests
<1>10. ASSUME NEW w \in Workers, DownloadEnds(w)
       PROVE  TypeOK' /\ HoldsNothing'
    <2>1. job[w] \in Rows
        BY <1>10 DEF DownloadEnds, TypeOK
    <2> QED
        BY <1>10, <2>1 DEF DownloadEnds, TypeOK, HoldsNothing, requests
<1>11. CASE Restart
    <2>1. status' \in [Rows -> {"unused", "vod_queued", "vod_downloading", "settled", "deleted"}]
        BY <1>11 DEF Restart, TypeOK
    <2>2. RequestsTyped'
        BY <1>11 DEF Restart, RequestsTyped, HoldsNothing
    <2>3. restarts' \in 0..MaxRestarts /\ job' \in [Workers -> Rows \cup {NoRow}]
          /\ dropped' \subseteq Rows /\ orphaned' \subseteq Workers
        BY <1>0, <1>11 DEF Restart, TypeOK
    <2> QED
        BY <1>11, <2>1, <2>2, <2>3 DEF Restart, TypeOK, RequestsTyped, HoldsNothing
<1>12. CASE UNCHANGED vars
    BY <1>12 DEF vars, rows, requests, TypeOK, HoldsNothing
<1> QED
    BY <1>1, <1>2, <1>3, <1>4, <1>5, <1>6, <1>7, <1>8, <1>9, <1>10, <1>11, <1>12, <1>13
    DEF Next

-----------------------------------------------------------------------------
\* What an insert does to the rows.
LEMMA InsertRow ==
    ASSUME TypeOK, NEW p \in Producers, NEW r \in Rows, Insert(p, r)
    PROVE  /\ probing[p] \in Videos /\ stream[probing[p]] = "none" /\ status[r] = "unused"
           /\ stream' = [stream EXCEPT ![probing[p]] = "video"]
           /\ video' = [video EXCEPT ![r] = probing[p]]
           /\ dvr' = [dvr EXCEPT ![r] = FALSE]
           /\ status' = [status EXCEPT ![r] = "vod_queued"]
           /\ UNCHANGED <<bare, job, dropped, orphaned>>
<1>1. probing[p] \in Videos
    BY DEF Insert, TypeOK
<1> QED
    BY <1>1 DEF Insert, IsNextRow

\* A recording that is queued and not in the queue is held by its request: the
\* request keeps it until it answers, and then enqueues it.
LEMMA QueuedStep ==
    ASSUME TypeOK, HoldsNothing, QueuedReachesQueue, [Next]_vars
    PROVE  QueuedReachesQueue'
<1>1. ASSUME NEW p \in Producers, NEW k \in {"paste", "schedule"}, NEW v \in Videos,
             UrlPosted(p, k, v)
      PROVE  QueuedReachesQueue'
    BY <1>1, IngestAssumption DEF UrlPosted, QueuedReachesQueue, TypeOK, HoldsNothing, rows
<1>2. ASSUME NEW p \in Producers, NEW k \in {"backlog", "playlist"}, NEW S \in SUBSET Videos,
             ListPosted(p, k, S)
      PROVE  QueuedReachesQueue'
    <2>1. new[p] = {} /\ UNCHANGED <<rows, fifo, new, dropped>>
        BY <1>2 DEF ListPosted, HoldsNothing
    <2>2. \A q \in Producers \ {p} : probing'[q] = probing[q]
        BY <1>2 DEF ListPosted, TypeOK
    <2> QED
        BY <2>1, <2>2 DEF QueuedReachesQueue, rows
<1>3. ASSUME NEW p \in Producers, ProbeAnswers(p)
      PROVE  QueuedReachesQueue'
    <2>1. CASE UNCHANGED rows /\ UNCHANGED dropped /\ NoneLost(p, new[p])
        BY <2>1 DEF QueuedReachesQueue, NoneLost, rows
    <2>2. CASE UNCHANGED rows /\ dropped' = dropped \cup new[p] /\ NoneLost(p, {})
        BY <2>2 DEF QueuedReachesQueue, NoneLost, rows
    <2>3. ASSUME NEW r \in Rows, Insert(p, r), NoneLost(p, new[p] \cup {r})
          PROVE  QueuedReachesQueue'
        <3>1. \A q \in Rows : status'[q] = "vod_queued" => q = r \/ status[q] = "vod_queued"
            BY <2>3, InsertRow DEF TypeOK
        <3> QED
            BY <2>3, <3>1, InsertRow DEF QueuedReachesQueue, NoneLost
    <2>4. ASSUME NEW k \in {"live", "video"}, InsertStream(p, k), NoneLost(p, new[p])
          PROVE  QueuedReachesQueue'
        BY <2>4 DEF InsertStream, QueuedReachesQueue, NoneLost
    <2> QED
        BY <1>3, ProbeEffect, <2>1, <2>2, <2>3, <2>4
<1>4. CASE PollBegins
    BY <1>4 DEF PollBegins, QueuedReachesQueue, rows
<1>5. ASSUME NEW S \in SUBSET Videos, PollLists(S)
      PROVE  QueuedReachesQueue'
    <2>1. new[Poller] = {} /\ UNCHANGED <<rows, fifo, new, dropped>>
        BY <1>5, IngestAssumption DEF PollLists, HoldsNothing
    <2>2. \A q \in Producers \ {Poller} : probing'[q] = probing[q]
        BY <1>5 DEF PollLists, TypeOK
    <2> QED
        BY <2>1, <2>2 DEF QueuedReachesQueue, rows
<1>6. ASSUME NEW v \in Videos, BroadcastSeen(v)
      PROVE  QueuedReachesQueue'
    BY <1>6 DEF BroadcastSeen, QueuedReachesQueue, requests
<1>7. ASSUME NEW v \in Videos, NEW r \in Rows, DvrPull(v, r)
      PROVE  QueuedReachesQueue'
    BY <1>7 DEF DvrPull, QueuedReachesQueue, TypeOK, requests
<1>8. ASSUME NEW v \in Videos, DeleteStream(v)
      PROVE  QueuedReachesQueue'
    BY <1>8 DEF DeleteStream, QueuedReachesQueue, requests
<1>13. ASSUME NEW v \in Videos, NEW recorded \in BOOLEAN, CancelBacklog(v, recorded)
       PROVE  QueuedReachesQueue'
    BY <1>13 DEF CancelBacklog, QueuedReachesQueue, requests
<1>9. ASSUME NEW w \in Workers, NEW r \in Rows, TakeEntry(w, r)
      PROVE  QueuedReachesQueue'
    BY <1>9 DEF TakeEntry, QueuedReachesQueue, TypeOK, requests
<1>10. ASSUME NEW w \in Workers, DownloadEnds(w)
       PROVE  QueuedReachesQueue'
    BY <1>10 DEF DownloadEnds, QueuedReachesQueue, TypeOK, requests
<1>11. CASE Restart
    BY <1>11 DEF Restart, QueuedReachesQueue
<1>12. CASE UNCHANGED vars
    BY <1>12 DEF vars, rows, requests, QueuedReachesQueue
<1> QED
    BY <1>1, <1>2, <1>3, <1>4, <1>5, <1>6, <1>7, <1>8, <1>9, <1>10, <1>11, <1>12, <1>13
    DEF Next

-----------------------------------------------------------------------------
\* OneRecordingPerVideo of one video.
Agree(v) ==
    /\ stream[v] = "none" => RowsOf(v) = {}
    /\ stream[v] = "live" => \A r \in RowsOf(v) : dvr[r]
    /\ v \in bare => RowsOf(v) = {} /\ stream[v] = "video"
    /\ stream[v] = "video" /\ v \notin bare =>
           \E r \in RowsOf(v) : ~dvr[r] /\ RowsOf(v) = {r}

\* The steps that leave streams and recordings as they are.
LEMMA RowsUntouched ==
    ASSUME UNCHANGED rows, UsedHaveVideo, OneRecordingPerVideo
    PROVE  UsedHaveVideo' /\ OneRecordingPerVideo'
BY DEF rows, UsedHaveVideo, OneRecordingPerVideo, RowsOf, Used

\* The steps that change the status of recordings of no stream's account.
LEMMA StatusOnly ==
    ASSUME TypeOK, UNCHANGED <<stream, bare, video, dvr>>, UsedHaveVideo, OneRecordingPerVideo,
           \A r \in Rows : /\ status'[r] = "unused" <=> status[r] = "unused"
                           /\ status'[r] = "deleted" <=> status[r] = "deleted"
    PROVE  UsedHaveVideo' /\ OneRecordingPerVideo'
<1>1. \A v \in Videos : RowsOf(v)' = RowsOf(v)
    BY DEF RowsOf, Used
<1> QED
    BY <1>1 DEF UsedHaveVideo, OneRecordingPerVideo

LEMMA RowsStep ==
    ASSUME TypeOK, HoldsNothing, UsedHaveVideo, OneRecordingPerVideo, [Next]_vars
    PROVE  UsedHaveVideo' /\ OneRecordingPerVideo'
<1>1. ASSUME NEW p \in Producers, ProbeAnswers(p)
      PROVE  UsedHaveVideo' /\ OneRecordingPerVideo'
    <2>1. ASSUME NEW r \in Rows, Insert(p, r)
          PROVE  UsedHaveVideo' /\ OneRecordingPerVideo'
        <3>1. \A v \in Videos : RowsOf(v)' = IF v = probing[p] THEN {r} ELSE RowsOf(v)
            BY <2>1, InsertRow DEF RowsOf, Used, TypeOK, OneRecordingPerVideo
        <3>2. UsedHaveVideo'
            BY <2>1, InsertRow DEF UsedHaveVideo, TypeOK
        <3>3. ~dvr'[r] /\ \A q \in Rows : q # r => dvr'[q] = dvr[q]
            BY <2>1, InsertRow DEF TypeOK
        <3>4. r \notin RowsOf(probing[p]) /\ \A v \in Videos : r \notin RowsOf(v)
            BY <2>1, InsertRow DEF RowsOf, Used
        <3>5. \A v \in Videos : RowsOf(v) \subseteq Rows
            BY DEF RowsOf, Used
        <3>6. /\ stream'[probing[p]] = "video" /\ bare' = bare /\ probing[p] \notin bare
              /\ \A v \in Videos : v # probing[p] => stream'[v] = stream[v]
            BY <2>1, InsertRow DEF TypeOK, OneRecordingPerVideo
        <3>7. ASSUME NEW v \in Videos
              PROVE  Agree(v)'
            <4>1. CASE v = probing[p]
                BY <3>1, <3>3, <3>6, <4>1 DEF Agree
            <4>2. CASE v # probing[p]
                BY <3>1, <3>3, <3>4, <3>5, <3>6, <4>2 DEF OneRecordingPerVideo, Agree
            <4> QED
                BY <4>1, <4>2
        <3> QED
            BY <3>2, <3>7 DEF OneRecordingPerVideo, Agree
    <2>2. ASSUME NEW k \in {"live", "video"}, InsertStream(p, k)
          PROVE  UsedHaveVideo' /\ OneRecordingPerVideo'
        <3>1. probing[p] \in Videos /\ stream[probing[p]] = "none"
            BY <2>2 DEF InsertStream, TypeOK
        <3>2. \A v \in Videos : RowsOf(v)' = RowsOf(v)
            BY <2>2 DEF InsertStream, RowsOf, Used
        <3>3. RowsOf(probing[p]) = {}
            BY <3>1 DEF OneRecordingPerVideo
        <3>4. /\ stream' = [stream EXCEPT ![probing[p]] = k]
              /\ bare' = (IF k = "video" THEN bare \cup {probing[p]} ELSE bare)
              /\ UNCHANGED <<video, dvr, status>>
            BY <2>2 DEF InsertStream
        <3>5. UsedHaveVideo'
            BY <3>4 DEF UsedHaveVideo
        <3>6. ASSUME NEW v \in Videos
              PROVE  Agree(v)'
            <4>1. CASE v = probing[p]
                BY <3>1, <3>2, <3>3, <3>4, <4>1 DEF OneRecordingPerVideo, TypeOK, Agree
            <4>2. CASE v # probing[p]
                BY <3>1, <3>2, <3>4, <4>2 DEF OneRecordingPerVideo, TypeOK, Agree
            <4> QED
                BY <4>1, <4>2
        <3> QED
            BY <3>5, <3>6 DEF OneRecordingPerVideo, Agree
    <2>3. CASE UNCHANGED rows
        BY <2>3, RowsUntouched
    <2> QED
        BY <1>1, <2>1, <2>2, <2>3 DEF ProbeAnswers, ProbeFails, AlreadyThere, InsertRaises
<1>2. ASSUME NEW v \in Videos, BroadcastSeen(v)
      PROVE  UsedHaveVideo' /\ OneRecordingPerVideo'
    <2>1. \A u \in Videos : RowsOf(u)' = RowsOf(u)
        BY <1>2 DEF BroadcastSeen, RowsOf, Used
    <2> QED
        BY <1>2, <2>1 DEF BroadcastSeen, UsedHaveVideo, OneRecordingPerVideo, TypeOK
<1>3. ASSUME NEW v \in Videos, NEW r \in Rows, DvrPull(v, r)
      PROVE  UsedHaveVideo' /\ OneRecordingPerVideo'
    <2>1. \A u \in Videos : RowsOf(u)' = IF u = v THEN RowsOf(u) \cup {r} ELSE RowsOf(u)
        BY <1>3 DEF DvrPull, IsNextRow, RowsOf, Used, TypeOK
    <2>2. \A u \in Videos : r \notin RowsOf(u) /\ RowsOf(u) \subseteq Rows
        BY <1>3 DEF DvrPull, IsNextRow, RowsOf, Used
    <2>3. dvr'[r] /\ \A q \in Rows : q # r => dvr'[q] = dvr[q]
        BY <1>3 DEF DvrPull, TypeOK
    <2>4. UsedHaveVideo'
        BY <1>3 DEF DvrPull, UsedHaveVideo, TypeOK
    <2>5. stream[v] = "live" /\ UNCHANGED <<stream, bare>>
        BY <1>3 DEF DvrPull
    <2>6. ASSUME NEW u \in Videos
          PROVE  Agree(u)'
        <3>1. CASE u = v
            BY <2>1, <2>2, <2>3, <2>5, <3>1 DEF OneRecordingPerVideo, Agree
        <3>2. CASE u # v
            BY <2>1, <2>2, <2>3, <2>5, <3>2 DEF OneRecordingPerVideo, Agree
        <3> QED
            BY <3>1, <3>2
    <2> QED
        BY <2>4, <2>6 DEF OneRecordingPerVideo, Agree
<1>4. ASSUME NEW v \in Videos, DeleteStream(v)
      PROVE  UsedHaveVideo' /\ OneRecordingPerVideo'
    <2>1. \A u \in Videos : RowsOf(u)' = IF u = v THEN {} ELSE RowsOf(u)
        BY <1>4 DEF DeleteStream, RowsOf, Used, TypeOK
    <2>2. UsedHaveVideo'
        BY <1>4 DEF DeleteStream, UsedHaveVideo, RowsOf, Used
    <2> QED
        BY <1>4, <2>1, <2>2 DEF DeleteStream, OneRecordingPerVideo, TypeOK
<1>9. ASSUME NEW v \in Videos, NEW recorded \in BOOLEAN, CancelBacklog(v, recorded)
      PROVE  UsedHaveVideo' /\ OneRecordingPerVideo'
    <2> DEFINE queued == {r \in RowsOf(v) : status[r] = "vod_queued"}
               alone == queued = RowsOf(v) /\ ~recorded
    <2>1. /\ queued # {} /\ UNCHANGED <<video, dvr>>
          /\ status' = [r \in Rows |-> IF r \in queued THEN "deleted" ELSE status[r]]
          /\ stream' = IF alone THEN [stream EXCEPT ![v] = "none"] ELSE stream
          /\ bare' = IF stream[v] = "video" /\ ~alone THEN bare \cup {v} ELSE bare
        BY <1>9 DEF CancelBacklog
    <2>2. queued \subseteq RowsOf(v) /\ RowsOf(v) \subseteq Rows
        BY DEF RowsOf, Used
    <2>3. \A u \in Videos : RowsOf(u)' = RowsOf(u) \ queued
        BY <2>1, <2>2 DEF RowsOf, Used, TypeOK
    <2>4. \A u \in Videos : u # v => RowsOf(u)' = RowsOf(u)
        BY <2>1, <2>2, <2>3 DEF RowsOf, Used
    <2>5. UsedHaveVideo'
        BY <2>1, <2>2 DEF UsedHaveVideo, RowsOf, Used
    <2> HIDE DEF queued
    <2>6. ASSUME NEW u \in Videos, u # v
          PROVE  Agree(u)'
        BY <2>1, <2>4, <2>6 DEF OneRecordingPerVideo, TypeOK, Agree
    <2>7. v \notin bare /\ stream[v] \in {"live", "video"}
        BY <2>1, <2>2 DEF OneRecordingPerVideo, TypeOK
    <2>8. Agree(v)'
        <3>1. CASE alone
            BY <2>1, <2>3, <2>7, <3>1 DEF TypeOK, Agree
        <3>2. CASE ~alone
            <4>1. stream[v] = "video" => RowsOf(v) = queued
                BY <2>1, <2>2, <2>7 DEF OneRecordingPerVideo
            <4> QED
                BY <2>1, <2>3, <2>7, <3>2, <4>1 DEF OneRecordingPerVideo, Agree
        <3> QED
            BY <3>1, <3>2
    <2> QED
        BY <2>5, <2>6, <2>8 DEF OneRecordingPerVideo, Agree
<1>5. ASSUME NEW w \in Workers, NEW r \in Rows, TakeEntry(w, r)
      PROVE  UsedHaveVideo' /\ OneRecordingPerVideo'
    <2>1. \A q \in Rows : /\ status'[q] = "unused" <=> status[q] = "unused"
                          /\ status'[q] = "deleted" <=> status[q] = "deleted"
        BY <1>5 DEF TakeEntry, TypeOK
    <2> QED
        BY <1>5, <2>1, StatusOnly DEF TakeEntry
<1>6. ASSUME NEW w \in Workers, DownloadEnds(w)
      PROVE  UsedHaveVideo' /\ OneRecordingPerVideo'
    <2>1. \A q \in Rows : /\ status'[q] = "unused" <=> status[q] = "unused"
                          /\ status'[q] = "deleted" <=> status[q] = "deleted"
        BY <1>6 DEF DownloadEnds, TypeOK
    <2> QED
        BY <1>6, <2>1, StatusOnly DEF DownloadEnds
<1>7. CASE Restart
    <2>1. \A q \in Rows : /\ status'[q] = "unused" <=> status[q] = "unused"
                          /\ status'[q] = "deleted" <=> status[q] = "deleted"
        BY <1>7 DEF Restart
    <2> QED
        BY <1>7, <2>1, StatusOnly DEF Restart
<1>8. CASE UNCHANGED rows
    BY <1>8, RowsUntouched
<1> QED
    BY <1>1, <1>2, <1>3, <1>4, <1>5, <1>6, <1>7, <1>8, <1>9
    DEF Next, UrlPosted, ListPosted, PollBegins, PollLists, vars

-----------------------------------------------------------------------------
\* A worker takes a row that has an entry, and no job's row has one.
LEMMA JobsStep ==
    ASSUME TypeOK, UsedHaveVideo, JobsOwnRows, SingleEntry, [Next]_vars
    PROVE  JobsOwnRows'
<1>0. NoRow \notin Rows
    BY IngestAssumption
<1>1. ASSUME NEW p \in Producers, ProbeAnswers(p)
      PROVE  JobsOwnRows'
    <2>1. ASSUME NEW r \in Rows, Insert(p, r)
          PROVE  JobsOwnRows'
        <3>1. status[r] = "unused" /\ status' = [status EXCEPT ![r] = "vod_queued"]
              /\ UNCHANGED <<job, orphaned>>
            BY <2>1, InsertRow
        <3>2. \A w \in Workers : job[w] # NoRow => job[w] # r /\ status'[job[w]] = status[job[w]]
            BY <3>1 DEF JobsOwnRows, TypeOK
        <3> QED
            BY <3>1, <3>2 DEF JobsOwnRows
    <2>2. CASE UNCHANGED <<status, job, orphaned>>
        BY <2>2 DEF JobsOwnRows
    <2> QED
        BY <1>1, <2>1, <2>2 DEF ProbeAnswers, ProbeFails, InsertStream, AlreadyThere,
                                InsertRaises, rows
<1>2. ASSUME NEW v \in Videos, NEW r \in Rows, DvrPull(v, r)
      PROVE  JobsOwnRows'
    <2>1. status[r] = "unused" /\ status' = [status EXCEPT ![r] = "vod_queued"]
          /\ UNCHANGED <<job, orphaned>>
        BY <1>2 DEF DvrPull, IsNextRow
    <2>2. \A w \in Workers : job[w] # NoRow => job[w] # r /\ status'[job[w]] = status[job[w]]
        BY <2>1 DEF JobsOwnRows, TypeOK
    <2> QED
        BY <2>1, <2>2 DEF JobsOwnRows
<1>3. ASSUME NEW v \in Videos, DeleteStream(v)
      PROVE  JobsOwnRows'
    <2>1. UNCHANGED job /\ \A w \in Workers : w \in orphaned' => job[w] # NoRow
        BY <1>0, <1>3 DEF DeleteStream, JobsOwnRows, RowsOf, Used
    <2>2. ASSUME NEW w \in Workers, job[w] # NoRow
          PROVE  status'[job[w]] = IF w \in orphaned' THEN "deleted" ELSE "vod_downloading"
        <3>1. job[w] \in Rows
            BY <2>2 DEF TypeOK
        <3>2. status'[job[w]] = IF job[w] \in RowsOf(v) THEN "deleted" ELSE status[job[w]]
            BY <1>3, <3>1 DEF DeleteStream
        <3>3. w \in orphaned' <=> w \in orphaned \/ job[w] \in RowsOf(v)
            BY <1>3 DEF DeleteStream
        <3>4. status[job[w]] = IF w \in orphaned THEN "deleted" ELSE "vod_downloading"
            BY <2>2 DEF JobsOwnRows
        <3> QED
            BY <3>2, <3>3, <3>4
    <2> QED
        BY <2>1, <2>2 DEF JobsOwnRows
<1>4. ASSUME NEW w \in Workers, NEW r \in Rows, TakeEntry(w, r)
      PROVE  JobsOwnRows'
    <2>0. status[r] \in {"vod_queued", "deleted"}
        BY <1>4 DEF TakeEntry, SingleEntry, Enterable, waitingJobs
    <2>1. CASE status[r] = "vod_queued"
        <3>1. /\ job' = [job EXCEPT ![w] = r] /\ job[w] = NoRow
              /\ status' = [status EXCEPT ![r] = "vod_downloading"]
              /\ UNCHANGED orphaned
            BY <1>4, <2>1 DEF TakeEntry
        <3>2. \A x \in Workers : job[x] # NoRow => job[x] # r /\ status'[job[x]] = status[job[x]]
            BY <2>1, <3>1 DEF JobsOwnRows, TypeOK
        <3>3. w \notin orphaned
            BY <3>1 DEF JobsOwnRows
        <3> QED
            BY <3>1, <3>2, <3>3 DEF JobsOwnRows, TypeOK
    <2>2. CASE status[r] # "vod_queued"
        BY <1>4, <2>0, <2>2 DEF TakeEntry, JobsOwnRows
    <2> QED
        BY <2>1, <2>2
<1>5. ASSUME NEW w \in Workers, DownloadEnds(w)
      PROVE  JobsOwnRows'
    <2>1. job' = [job EXCEPT ![w] = NoRow] /\ job[w] # NoRow /\ orphaned' = orphaned \ {w}
        BY <1>5 DEF DownloadEnds
    <2>2. \A x \in Workers : x # w /\ job[x] # NoRow => status'[job[x]] = status[job[x]]
        BY <1>5, <2>1 DEF DownloadEnds, JobsOwnRows, TypeOK
    <2> QED
        BY <2>1, <2>2 DEF JobsOwnRows, TypeOK
<1>8. ASSUME NEW v \in Videos, NEW recorded \in BOOLEAN, CancelBacklog(v, recorded)
      PROVE  JobsOwnRows'
    <2>1. /\ UNCHANGED <<job, orphaned>>
          /\ \A r \in Rows : status[r] # "vod_queued" => status'[r] = status[r]
        BY <1>8 DEF CancelBacklog
    <2>2. \A w \in Workers : job[w] # NoRow => job[w] \in Rows /\ status[job[w]] # "vod_queued"
        BY DEF JobsOwnRows, TypeOK
    <2> QED
        BY <2>1, <2>2 DEF JobsOwnRows
<1>6. CASE Restart
    BY <1>6 DEF Restart, JobsOwnRows
<1>7. CASE UNCHANGED <<status, job, orphaned>>
    BY <1>7 DEF JobsOwnRows
<1> QED
    BY <1>1, <1>2, <1>3, <1>4, <1>5, <1>6, <1>7, <1>8
    DEF Next, UrlPosted, ListPosted, PollBegins, PollLists, BroadcastSeen, vars, rows

-----------------------------------------------------------------------------
(***************************************************************************)
(* The entries of a recording, and the steps of DownloadJobs.              *)
(***************************************************************************)

\* What a turn of the loop does with the recordings recs of its request: it
\* enqueues them, or keeps them; the others stay where they are.
Passes(p, recs) ==
    /\ \A q \in Producers \ {p} : new'[q] = new[q]
    /\ \/ fifo' = fifo \cup recs /\ new'[p] = {}
       \/ fifo' = fifo /\ new'[p] = recs

LEMMA GoOnPasses ==
    ASSUME TypeOK, NEW p \in Producers, NEW recs, NEW rest, NEW skipped,
           Answer(p, recs) \/ GoOn(p, rest, skipped, recs)
    PROVE  Passes(p, recs)
BY DEF Answer, GoOn, Passes, TypeOK

\* What waits after such a turn, when nobody else holds recs.
LEMMA PassedWaits ==
    ASSUME TypeOK, SingleEntry, NEW p \in Producers, NEW recs, Passes(p, recs),
           recs \cap fifo = {}, \A q \in Producers \ {p} : recs \cap new[q] = {}
    PROVE  /\ waitingJobs' = (waitingJobs \ new[p]) \cup recs
           /\ \A q \in Producers : new'[q] \cap fifo' = {}
           /\ \A q, s \in Producers : q # s => new'[q] \cap new'[s] = {}
<1> USE DEF Passes, SingleEntry
<1>1. \A r \in waitingJobs' : r \in waitingJobs \ new[p] \/ r \in recs
    <2> SUFFICES ASSUME NEW r \in waitingJobs', r \notin recs
                 PROVE  r \in waitingJobs \ new[p]
        OBVIOUS
    <2>1. CASE r \in fifo'
        BY <2>1 DEF waitingJobs
    <2>2. ASSUME NEW q \in Producers, r \in new'[q]
          PROVE  r \in waitingJobs \ new[p]
        <3>1. q # p /\ r \in new[q]
            BY <2>2
        <3> QED
            BY <3>1 DEF waitingJobs
    <2> QED
        BY <2>1, <2>2 DEF waitingJobs
<1>2. \A r \in (waitingJobs \ new[p]) \cup recs : r \in waitingJobs'
    <2> SUFFICES ASSUME NEW r \in (waitingJobs \ new[p]) \cup recs
                 PROVE  r \in fifo' \/ \E q \in Producers : r \in new'[q]
        BY DEF waitingJobs
    <2> QED
        BY DEF waitingJobs
<1>3. waitingJobs' = (waitingJobs \ new[p]) \cup recs
    BY <1>1, <1>2
<1>4. \A q \in Producers : new'[q] \cap fifo' = {}
    <2> SUFFICES ASSUME NEW q \in Producers  PROVE new'[q] \cap fifo' = {}
        OBVIOUS
    <2>1. CASE q = p
        BY <2>1
    <2>2. CASE q # p
        BY <2>2
    <2> QED
        BY <2>1, <2>2
<1>5. \A q, s \in Producers : q # s => new'[q] \cap new'[s] = {}
    <2> SUFFICES ASSUME NEW q \in Producers, NEW s \in Producers, q # s
                 PROVE  new'[q] \cap new'[s] = {}
        OBVIOUS
    <2>1. CASE q = p
        BY <2>1
    <2>2. CASE s = p
        BY <2>2
    <2>3. CASE q # p /\ s # p
        BY <2>3
    <2> QED
        BY <2>1, <2>2, <2>3
<1> QED
    BY <1>3, <1>4, <1>5

\* The steps that leave the recordings of the requests alone.
LEMMA EntriesStutter ==
    ASSUME UNCHANGED <<fifo, new, job>>
    PROVE  UNCHANGED <<waitingJobs, workingJobs>>
BY DEF waitingJobs, workingJobs

\* Steps that keep the entries and take no row up keep an entry per recording.
LEMMA EntriesKept ==
    ASSUME SingleEntry, UNCHANGED <<fifo, new>>, Enterable \subseteq Enterable'
    PROVE  SingleEntry'
BY DEF SingleEntry, waitingJobs

\* A row that is not used yet is asked for by nobody, and nobody works for it.
LEMMA NextRowIsFree ==
    ASSUME TypeOK, JobsOwnRows, SingleEntry, NEW r \in Rows, status[r] = "unused"
    PROVE  /\ r \notin waitingJobs /\ r \notin fifo
           /\ \A p \in Producers : r \notin new[p]
           /\ ~Jobs!HasWorker(r)
<1>1. r \notin waitingJobs
    BY DEF SingleEntry, Enterable
<1>2. \A w \in Workers : job[w] # r
    BY IngestAssumption DEF JobsOwnRows, TypeOK
<1> QED
    BY <1>1, <1>2 DEF waitingJobs, workingJobs, Jobs!HasWorker

\* The answer of a probe asks for the row it inserts, or withdraws the list.
LEMMA ProbeAsks ==
    ASSUME IInv, NEW p \in Producers, ProbeAnswers(p)
    PROVE  SingleEntry' /\ [Jobs!Next]_<<waitingJobs, workingJobs>>
<1>0. /\ TypeOK /\ HoldsNothing /\ JobsOwnRows /\ SingleEntry
      /\ new[p] \subseteq Rows /\ new[p] \subseteq waitingJobs
    BY DEF IInv, TypeOK, waitingJobs
<1>1. new[p] \cap fifo = {} /\ \A q \in Producers \ {p} : new[p] \cap new[q] = {}
    BY <1>0 DEF SingleEntry
<1>2. CASE UNCHANGED rows /\ UNCHANGED job /\ Passes(p, new[p])
    <2>1. waitingJobs' = waitingJobs /\ workingJobs' = workingJobs
        BY <1>0, <1>1, <1>2, PassedWaits DEF workingJobs
    <2>2. SingleEntry'
        BY <1>0, <1>1, <1>2, <2>1, PassedWaits DEF SingleEntry, Enterable, rows
    <2> QED
        BY <2>1, <2>2
<1>3. ASSUME NEW r \in Rows, Insert(p, r)
      PROVE  SingleEntry' /\ [Jobs!Next]_<<waitingJobs, workingJobs>>
    <2>1. status[r] = "unused" /\ status' = [status EXCEPT ![r] = "vod_queued"] /\ job' = job
        BY <1>0, <1>3, InsertRow
    <2>2. /\ r \notin waitingJobs /\ r \notin fifo /\ ~Jobs!HasWorker(r)
          /\ \A q \in Producers : r \notin new[q]
        BY <1>0, <2>1, NextRowIsFree
    <2>3. Passes(p, new[p] \cup {r})
        <3> DEFINE skipped == IF kind[p] = "poll" THEN known' ELSE KnownStreams \cup {probing[p]}
        <3>1. GoOn(p, todo[p], skipped, new[p] \cup {r})
            BY <1>3 DEF Insert
        <3> HIDE DEF skipped
        <3> QED
            BY <1>0, <3>1, GoOnPasses
    <2>4. /\ waitingJobs' = waitingJobs \cup {r}
          /\ \A q \in Producers : new'[q] \cap fifo' = {}
          /\ \A q, t \in Producers : q # t => new'[q] \cap new'[t] = {}
        <3> DEFINE recs == new[p] \cup {r}
        <3>1. recs \cap fifo = {} /\ \A q \in Producers \ {p} : recs \cap new[q] = {}
            BY <1>1, <2>2
        <3>2. Passes(p, recs)
            BY <2>3
        <3>3. (waitingJobs \ new[p]) \cup recs = waitingJobs \cup {r}
            BY <1>0
        <3> HIDE DEF recs
        <3> QED
            BY <1>0, <3>1, <3>2, <3>3, PassedWaits
    <2>5. waitingJobs' \subseteq Enterable'
        <3>1. Enterable' = Enterable \cup {r}
            BY <1>0, <2>1 DEF Enterable, TypeOK
        <3> QED
            BY <1>0, <2>4, <3>1 DEF SingleEntry
    <2>6. Jobs!Ask({r})
        BY <2>1, <2>2, <2>4 DEF Jobs!Ask, workingJobs
    <2> QED
        BY <2>4, <2>5, <2>6 DEF SingleEntry, Jobs!Next
<1>4. ASSUME NEW k \in {"live", "video"}, InsertStream(p, k)
      PROVE  SingleEntry' /\ [Jobs!Next]_<<waitingJobs, workingJobs>>
    <2>1. Passes(p, {}) /\ kind[p] \in {"paste", "schedule"}
        BY <1>0, <1>4, GoOnPasses DEF InsertStream
    <2>2. new[p] = {}
        BY <1>0, <2>1 DEF HoldsNothing
    <2>3. status' = status /\ job' = job
        BY <1>4 DEF InsertStream
    <2>4. waitingJobs' = waitingJobs /\ workingJobs' = workingJobs
        BY <1>0, <2>1, <2>2, <2>3, PassedWaits DEF workingJobs
    <2>5. SingleEntry'
        BY <1>0, <2>1, <2>2, <2>3, <2>4, PassedWaits DEF SingleEntry, Enterable
    <2> QED
        BY <2>4, <2>5
<1>5. CASE InsertRaises(p)
    <2>1. Passes(p, {}) /\ UNCHANGED rows /\ job' = job
        BY <1>0, <1>5, GoOnPasses DEF InsertRaises
    <2>2. waitingJobs' = waitingJobs \ new[p]
        BY <1>0, <2>1, PassedWaits
    <2>3. SingleEntry'
        BY <1>0, <2>1, <2>2, PassedWaits DEF SingleEntry, Enterable, rows
    <2>4. Jobs!Withdraw(new[p])
        BY <1>0, <2>1, <2>2 DEF Jobs!Withdraw, workingJobs
    <2> QED
        BY <1>0, <2>3, <2>4 DEF Jobs!Next
<1>6. CASE ProbeFails(p) \/ AlreadyThere(p)
    BY <1>0, <1>2, <1>6, GoOnPasses DEF ProbeFails, AlreadyThere
<1> QED
    BY <1>3, <1>4, <1>5, <1>6 DEF ProbeAnswers

\* Taking an entry begins its download, or withdraws a row that is gone.
LEMMA TakeBegins ==
    ASSUME IInv, NEW w \in Workers, NEW r \in Rows, TakeEntry(w, r)
    PROVE  SingleEntry' /\ [Jobs!Next]_<<waitingJobs, workingJobs>>
<1>0. TypeOK /\ JobsOwnRows /\ SingleEntry /\ NoRow \notin Rows
    BY IngestAssumption DEF IInv
<1>1. r \in fifo /\ fifo' = fifo \ {r} /\ new' = new /\ job[w] = NoRow
    BY DEF TakeEntry, requests
<1>2. waitingJobs' = waitingJobs \ {r} /\ r \in waitingJobs
    BY <1>0, <1>1 DEF waitingJobs, SingleEntry
<1>3. SingleEntry'
    <2>1. Enterable \ {r} \subseteq Enterable'
        BY <1>0 DEF TakeEntry, Enterable, TypeOK
    <2> QED
        BY <1>0, <1>1, <1>2, <2>1 DEF SingleEntry
<1>6. status[r] \in {"vod_queued", "deleted"}
    BY <1>0, <1>2 DEF SingleEntry, Enterable
<1>4. CASE status[r] = "vod_queued"
    <2>1. job' = [job EXCEPT ![w] = r]
        BY <1>4 DEF TakeEntry
    <2>2. workingJobs' = workingJobs \cup {<<w, r>>}
        BY <1>0, <1>1, <2>1 DEF workingJobs, TypeOK
    <2>3. ~Jobs!Busy(w)
        BY <1>1 DEF Jobs!Busy, workingJobs
    <2>4. ~Jobs!HasWorker(r)
        BY <1>0, <1>4 DEF Jobs!HasWorker, workingJobs, JobsOwnRows
    <2>5. Jobs!Begin(w, r)
        BY <1>2, <2>2, <2>3, <2>4 DEF Jobs!Begin
    <2> QED
        BY <1>3, <2>5 DEF Jobs!Next
<1>5. CASE status[r] # "vod_queued"
    <2>1. job' = job
        BY <1>5, <1>6 DEF TakeEntry
    <2>2. Jobs!Withdraw({r})
        BY <1>2, <2>1 DEF Jobs!Withdraw, workingJobs
    <2> QED
        BY <1>3, <2>2 DEF Jobs!Next
<1> QED
    BY <1>4, <1>5

\* Every other step asks for one row, ends one job, or starts afresh.
LEMMA OthersAsk ==
    ASSUME IInv, [Next]_vars
    PROVE  SingleEntry' /\ [Jobs!Next]_<<waitingJobs, workingJobs>>
<1>0. TypeOK /\ JobsOwnRows /\ SingleEntry /\ NoRow \notin Rows
    BY IngestAssumption DEF IInv
<1>1. ASSUME NEW v \in Videos, NEW r \in Rows, DvrPull(v, r)
      PROVE  SingleEntry' /\ [Jobs!Next]_<<waitingJobs, workingJobs>>
    <2>1. /\ status[r] = "unused" /\ status' = [status EXCEPT ![r] = "vod_queued"]
          /\ fifo' = fifo \cup {r} /\ job' = job /\ new' = new
        BY <1>1 DEF DvrPull, IsNextRow, requests
    <2>2. /\ r \notin waitingJobs /\ ~Jobs!HasWorker(r)
          /\ \A q \in Producers : r \notin new[q]
        BY <1>0, <2>1, NextRowIsFree
    <2>3. waitingJobs' = waitingJobs \cup {r} /\ workingJobs' = workingJobs
        BY <2>1 DEF waitingJobs, workingJobs
    <2>4. Enterable' = Enterable \cup {r}
        BY <1>0, <2>1 DEF Enterable, TypeOK
    <2>5. SingleEntry'
        BY <1>0, <2>1, <2>2, <2>3, <2>4 DEF SingleEntry
    <2>6. Jobs!Ask({r})
        BY <2>2, <2>3 DEF Jobs!Ask
    <2> QED
        BY <2>5, <2>6 DEF Jobs!Next
<1>2. ASSUME NEW w \in Workers, DownloadEnds(w)
      PROVE  SingleEntry' /\ [Jobs!Next]_<<waitingJobs, workingJobs>>
    <2>1. /\ job[w] \in Rows /\ job' = [job EXCEPT ![w] = NoRow]
          /\ UNCHANGED <<fifo, new>>
        BY <1>0, <1>2 DEF DownloadEnds, TypeOK, requests
    <2>2. Enterable \subseteq Enterable'
        BY <1>0, <1>2 DEF DownloadEnds, Enterable, TypeOK
    <2>3. waitingJobs' = waitingJobs
        BY <2>1 DEF waitingJobs
    <2>4. workingJobs' = workingJobs \ {<<w, job[w]>>} /\ <<w, job[w]>> \in workingJobs
        BY <1>0, <2>1 DEF workingJobs, TypeOK
    <2>5. Jobs!End(w, job[w])
        BY <2>3, <2>4 DEF Jobs!End
    <2> QED
        BY <1>0, <2>1, <2>2, <2>5, EntriesKept DEF Jobs!Next
<1>3. CASE Restart
    <2>1. /\ fifo' \subseteq Enterable' /\ fifo' \subseteq Rows
          /\ \A p \in Producers : new'[p] = {}
          /\ \A w \in Workers : job'[w] = NoRow
        BY <1>3 DEF Restart, Enterable
    <2>2. waitingJobs' = fifo' /\ workingJobs' = {}
        BY <2>1 DEF waitingJobs, workingJobs
    <2>3. SingleEntry'
        BY <2>1, <2>2 DEF SingleEntry
    <2>4. Jobs!Restart(fifo')
        BY <2>2 DEF Jobs!Restart
    <2> QED
        BY <2>1, <2>3, <2>4 DEF Jobs!Next
<1>4. CASE UNCHANGED <<fifo, new, job>> /\ Enterable \subseteq Enterable'
    BY <1>0, <1>4, EntriesStutter, EntriesKept
<1>5. ASSUME NEW v \in Videos, DeleteStream(v)
      PROVE  UNCHANGED <<fifo, new, job>> /\ Enterable \subseteq Enterable'
    BY <1>5 DEF DeleteStream, requests, Enterable
<1>8. ASSUME NEW v \in Videos, NEW recorded \in BOOLEAN, CancelBacklog(v, recorded)
      PROVE  UNCHANGED <<fifo, new, job>> /\ Enterable \subseteq Enterable'
    BY <1>8 DEF CancelBacklog, requests, Enterable
<1>6. ASSUME NEW v \in Videos, BroadcastSeen(v)
      PROVE  UNCHANGED <<fifo, new, job>> /\ Enterable \subseteq Enterable'
    BY <1>6 DEF BroadcastSeen, requests, Enterable
<1>7. ASSUME \/ \E p \in Producers, k \in {"paste", "schedule"}, v \in Videos : UrlPosted(p, k, v)
             \/ \E p \in Producers, k \in {"backlog", "playlist"}, S \in SUBSET Videos :
                    ListPosted(p, k, S)
             \/ PollBegins
             \/ \E S \in SUBSET Videos : PollLists(S)
             \/ UNCHANGED vars
      PROVE  UNCHANGED <<fifo, new, job>> /\ Enterable \subseteq Enterable'
    BY <1>7 DEF UrlPosted, ListPosted, PollBegins, PollLists, vars, rows, requests, Enterable
<1> QED
    BY <1>1, <1>2, <1>3, <1>4, <1>5, <1>6, <1>7, <1>8, ProbeAsks, TakeBegins DEF Next

-----------------------------------------------------------------------------
LEMMA InitIInv == Init => IInv
<1> SUFFICES ASSUME Init
             PROVE  IInv
    OBVIOUS
<1>1. TypeOK
    <2>1. deletes \in 0..MaxDeletes /\ restarts \in 0..MaxRestarts
        BY IngestAssumption DEF Init
    <2> QED
        BY <2>1 DEF Init, TypeOK
<1>2. HoldsNothing /\ UsedHaveVideo /\ JobsOwnRows /\ QueuedReachesQueue
    BY DEF Init, HoldsNothing, UsedHaveVideo, JobsOwnRows, QueuedReachesQueue
<1>3. OneRecordingPerVideo
    BY DEF Init, OneRecordingPerVideo, RowsOf, Used
<1>4. SingleEntry
    BY DEF Init, SingleEntry, waitingJobs
<1> QED
    BY <1>1, <1>2, <1>3, <1>4 DEF IInv

LEMMA Inductive == Spec => []IInv
<1>1. IInv /\ [Next]_vars => IInv'
    BY TypeStep, QueuedStep, RowsStep, JobsStep, OthersAsk DEF IInv
<1> QED
    BY InitIInv, <1>1, PTL DEF Spec

\* Every row, request and job keeps its type, whatever producers overlap.
THEOREM TypeCorrect == Spec => []TypeOK
<1>1. IInv => TypeOK
    BY DEF IInv
<1> QED
    BY Inductive, <1>1, PTL

\* A queued recording is in the queue, or will be, unless its playlist request
\* has raised; no other producer loses what it has committed.
THEOREM QueuedIsEnqueued == Spec => []QueuedReachesQueue
<1>1. IInv => QueuedReachesQueue
    BY DEF IInv
<1> QED
    BY Inductive, <1>1, PTL

\* Whatever producers race for a video, it has one download: none if a schedule
\* brought the video along, or if its download was withdrawn beside a recorder's
\* recording.
THEOREM OneRecording == Spec => []OneRecordingPerVideo
<1>1. IInv => OneRecordingPerVideo
    BY DEF IInv
<1> QED
    BY Inductive, <1>1, PTL

\* Two downloads never write one file, DVR pulls and streams that were deleted
\* under a download set aside.
THEOREM OneWriter == Spec => []OneWriterPerFile
<1>1. IInv => OneWriterPerFile
    <2> SUFFICES ASSUME IInv, NEW w \in Workers, NEW x \in Workers,
                        w # x, job[w] # NoRow, job[x] # NoRow,
                        video[job[w]] = video[job[x]], dvr[job[w]] = dvr[job[x]],
                        w \notin orphaned, x \notin orphaned, ~dvr[job[w]]
                 PROVE  FALSE
        BY DEF OneWriterPerFile
    <2>1. job[w] \in Rows /\ job[x] \in Rows /\ job[w] # job[x]
        BY DEF IInv, TypeOK, JobsOwnRows
    <2>2. status[job[w]] = "vod_downloading" /\ status[job[x]] = "vod_downloading"
        BY DEF IInv, JobsOwnRows
    <2>3. PICK v \in Videos : v = video[job[w]]
        BY <2>1, <2>2 DEF IInv, UsedHaveVideo
    <2>4. job[w] \in RowsOf(v) /\ job[x] \in RowsOf(v)
        BY <2>1, <2>2, <2>3 DEF RowsOf, Used
    <2>5. stream[v] \in {"none", "live", "video"}
        BY DEF IInv, TypeOK
    <2> QED
        BY <2>1, <2>4, <2>5 DEF IInv, OneRecordingPerVideo
<1> QED
    BY Inductive, <1>1, PTL

\* A recording has one entry, in the queue or in the list of one request,
\* through every race of producers and every restart.
THEOREM OneEntryPerRecording == Spec => []SingleEntry
<1>1. IInv => SingleEntry
    BY DEF IInv
<1> QED
    BY Inductive, <1>1, PTL

\* The producers keep the promise of DownloadJobs: what they insert is asked
\* for once, begun at most once and by one worker, whatever lists, deletions
\* and restarts overlap.
THEOREM IngestImplementsJobs == Spec => ImplementsJobs
<1>1. Init => Jobs!Init
    BY DEF Init, Jobs!Init, waitingJobs, workingJobs
<1>2. IInv /\ [Next]_vars => [Jobs!Next]_<<waitingJobs, workingJobs>>
    BY OthersAsk
<1> QED
    BY <1>1, <1>2, Inductive, PTL DEF ImplementsJobs, Jobs!Spec, Spec
=============================================================================
