------------------------------ MODULE Publisher ------------------------------
(***************************************************************************)
(* Segments of one recording id: when drafts are derived (auto_segment.py), *)
(* how they are published (publisher.py, api/segments.py, the automatic    *)
(* publication of main.py) and how the source file goes away               *)
(* (publisher.py, api/recordings.py).  Which drafts are derived depends on *)
(* chapters and on setlist rows, which the user may replace at any time:   *)
(* here any number of them (Setlists has the choice itself).              *)
(*                                                                         *)
(* A request is a worker with a queue of segments.  publish() is cut where *)
(* it awaits: the spawn of the cut, the cut, the thumbnail with what is    *)
(* made of it, and the scan.  The endpoints that are plain functions run   *)
(* on threads: delete_source reads the segments and removes the file in    *)
(* two steps.                                                              *)
(*                                                                         *)
(* Segments refer to their recording by a foreign key, without a           *)
(* relationship on its side, and SQLite is never told to enforce foreign   *)
(* keys: deleting the stream leaves them, and the next recording may be    *)
(* given the id.                                                           *)
(***************************************************************************)
EXTENDS Integers, FiniteSets, Sequences

CONSTANTS
    SegIds,         \* ids of segments, an initial part of the positive integers
    Workers,        \* requests that may publish at once
    MaxBulk,        \* bound: segments one request may name
    MaxEntries,     \* bound: drafts that are derived from one recording
    MaxRecordings,  \* bound: how many recordings get the id, one after another
    MaxCuts         \* bound: crashes, and failures that cannot be written

ASSUME PublisherAssumption ==
    /\ SegIds \subseteq Nat \ {0}
    /\ IsFiniteSet(SegIds)
    /\ MaxBulk \in Nat
    /\ MaxEntries \in Nat
    /\ MaxRecordings \in Nat
    /\ MaxCuts \in Nat

VARIABLES
    rec,            \* Recording.status: no row, not complete yet, complete
    issued,         \* history: recordings that were given the id so far
    downloading,    \* the VOD queue has a download of the recording
    source,         \* the file at Recording.path is there
    sourceDeleted,  \* Recording.source_deleted
    seg,            \* Segment.status, "absent" when there is no row
    out,            \* the media file of the segment as its row now describes it
    owner,          \* history: the recording each row was made for
    req,            \* each worker: the segments it has still to publish
    at,             \* each worker: where it is in publish() of the first of them
    current,        \* each worker: its row has not changed since session 1 read it
    deleting,       \* delete_source has found all segments published
    muddled,        \* history: segments published twice at once or under a deletion
    abandoned,      \* history: segments left publishing by a crash or an unwritable failure
    cuts            \* history: crashes, and failures that could not be written

recording == <<rec, issued, downloading, source, sourceDeleted>>
segments == <<seg, out, owner>>
work == <<req, at, current>>
vars == <<recording, segments, work, deleting, muddled, abandoned, cuts>>

Status == {"absent", "draft", "publishing", "published", "publish_failed"}
Phase == {"idle", "next", "spawning", "cutting", "thumbnail", "blocked", "scanning"}
InPublish == {"spawning", "cutting", "thumbnail", "blocked", "scanning"}

TypeOK ==
    /\ rec \in {"absent", "open", "complete"}
    /\ issued \in 0..MaxRecordings
    /\ downloading \in BOOLEAN
    /\ source \in BOOLEAN
    /\ sourceDeleted \in BOOLEAN
    /\ seg \in [SegIds -> Status]
    /\ out \in [SegIds -> {"none", "partial", "whole"}]
    /\ owner \in [SegIds -> 0..MaxRecordings]
    /\ req \in [Workers -> Seq(SegIds)]
    /\ at \in [Workers -> Phase]
    /\ \A w \in Workers : at[w] = "idle" <=> req[w] = <<>>
    /\ current \in [Workers -> BOOLEAN]
    /\ deleting \in BOOLEAN
    /\ muddled \subseteq SegIds
    /\ abandoned \subseteq SegIds
    /\ cuts \in 0..MaxCuts

Rows == {s \in SegIds : seg[s] # "absent"}

NextId == CHOOSE n \in {1} \cup {s + 1 : s \in Rows} : \A s \in Rows : s < n

\* Worker w is in publish() of segment s.
Publishing(w, s) == at[w] \in InPublish /\ Head(req[w]) = s

-----------------------------------------------------------------------------
(***************************************************************************)
(* Rows of segments.                                                       *)
(***************************************************************************)

\* n rows are inserted, as drafts.
InsertDrafts(n) ==
    LET new == NextId..(NextId + n - 1)
    IN  /\ new \subseteq SegIds
        /\ seg' = [s \in SegIds |-> IF s \in new THEN "draft" ELSE seg[s]]
        /\ out' = [s \in SegIds |-> IF s \in new THEN "none" ELSE out[s]]
        /\ owner' = [s \in SegIds |-> IF s \in new THEN issued ELSE owner[s]]
        /\ muddled' = (muddled \ new)
                      \cup {s \in new : deleting \/ \E w \in Workers : Publishing(w, s)}
        /\ abandoned' = abandoned \ new

\* What a worker in publish() has read is no longer the row.
Outdates(s) == current' = [w \in Workers |-> current[w] /\ ~Publishing(w, s)]

CreateSegment ==
    /\ rec # "absent"
    /\ InsertDrafts(1)
    /\ UNCHANGED <<recording, work, deleting, cuts>>

PatchSegment(s) ==
    /\ s \in Rows
    /\ out' = [out EXCEPT ![s] = "none"]
    /\ Outdates(s)
    /\ muddled' = muddled \cup {s}
    /\ UNCHANGED <<recording, seg, owner, req, at, deleting, abandoned, cuts>>

DeleteSegment(s) ==
    /\ s \in Rows
    /\ seg' = [seg EXCEPT ![s] = "absent"]
    /\ out' = [out EXCEPT ![s] = "none"]
    /\ owner' = [owner EXCEPT ![s] = 0]
    /\ Outdates(s)
    /\ muddled' = muddled \ {s}
    /\ abandoned' = abandoned \ {s}
    /\ UNCHANGED <<recording, req, at, deleting, cuts>>

-----------------------------------------------------------------------------
(***************************************************************************)
(* The recording.                                                          *)
(***************************************************************************)

\* A stream is recorded or downloaded under the id.  A download has no file
\* yet.  (Bound: the id is given out again only while nobody holds the path of
\* the old file.  A worker that has its segments still to look up, or has only
\* session 2 to come, finds the new recording under the id.)
NewRecording(vod, file) ==
    /\ rec = "absent"
    /\ issued < MaxRecordings
    /\ ~deleting /\ \A w \in Workers : at[w] \notin {"spawning", "cutting", "thumbnail"}
    /\ vod => ~file
    /\ rec' = "open"
    /\ issued' = issued + 1
    /\ downloading' = vod
    /\ source' = file
    /\ sourceDeleted' = FALSE
    /\ UNCHANGED <<segments, work, deleting, muddled, abandoned, cuts>>

\* delete_stream: the segments and the setlist rows stay, and the file.
DeleteStream ==
    /\ rec # "absent"
    /\ rec' = "absent"
    /\ downloading' = FALSE
    /\ UNCHANGED <<issued, source, sourceDeleted, segments, work, deleting, muddled, abandoned,
                   cuts>>

\* _before_flush: only when the status changes, and there is no segment.
DeriveDrafts(n) ==
    IF rec # "complete" /\ Rows = {}
    THEN InsertDrafts(n)
    ELSE n = 0 /\ UNCHANGED <<segments, muddled, abandoned>>

\* By hand, or by a scheduled run that ends.
Finalize(n) ==
    /\ rec # "absent"
    /\ rec' = "complete"
    /\ DeriveDrafts(n)
    /\ UNCHANGED <<issued, downloading, source, sourceDeleted, work, deleting, cuts>>

\* The VOD handler ends: with auto_publish it goes on to publish the segments
\* that have an artist.
Ascending(S) ==
    {q \in [1..Cardinality(S) -> S] : \A i, j \in 1..Cardinality(S) : i < j => q[i] < q[j]}

VodCompletes(w, n, P) ==
    /\ rec # "absent" /\ downloading
    /\ at[w] = "idle"
    /\ downloading' = FALSE
    /\ source' = TRUE
    /\ rec' = "complete"
    /\ DeriveDrafts(n)
    /\ P \subseteq Rows'
    /\ IF P = {} THEN UNCHANGED work
       ELSE /\ \E q \in Ascending(P) : req' = [req EXCEPT ![w] = q]
            /\ at' = [at EXCEPT ![w] = "next"]
            /\ UNCHANGED current
    /\ UNCHANGED <<issued, sourceDeleted, deleting, cuts>>

-----------------------------------------------------------------------------
(***************************************************************************)
(* Publishing.                                                             *)
(***************************************************************************)

\* publish_segment with one segment, bulk_publish with any.
RequestPublish(w, list) ==
    /\ at[w] = "idle"
    /\ req' = [req EXCEPT ![w] = list]
    /\ at' = [at EXCEPT ![w] = "next"]
    /\ UNCHANGED <<recording, segments, current, deleting, muddled, abandoned, cuts>>

\* The worker is done with its segment, whatever came of it.
Advance(w) ==
    /\ req' = [req EXCEPT ![w] = Tail(@)]
    /\ at' = [at EXCEPT ![w] = IF Tail(req[w]) = <<>> THEN "idle" ELSE "next"]
    /\ current' = [current EXCEPT ![w] = FALSE]

\* LookupError: what session 1 wrote is rolled back.
PublishRefused(w) ==
    /\ at[w] = "next"
    /\ Head(req[w]) \notin Rows \/ rec = "absent"
    /\ Advance(w)
    /\ UNCHANGED <<recording, segments, deleting, muddled, abandoned, cuts>>

\* Session 1.
PublishBegins(w) ==
    LET s == Head(req[w])
    IN  /\ at[w] = "next"
        /\ s \in Rows /\ rec # "absent"
        /\ seg' = [seg EXCEPT ![s] = "publishing"]
        /\ at' = [at EXCEPT ![w] = "spawning"]
        /\ current' = [current EXCEPT ![w] = TRUE]
        /\ muddled' = IF deleting \/ \E u \in Workers : Publishing(u, s)
                      THEN muddled \cup {s} ELSE muddled \ {s}
        /\ abandoned' = abandoned \ {s}
        /\ UNCHANGED <<recording, out, owner, req, deleting, cuts>>

SetOut(w, o) == out' = IF current[w] THEN [out EXCEPT ![Head(req[w])] = o] ELSE out

\* ffmpeg has opened the source, and emptied the output (-y).
CutStarts(w) ==
    /\ at[w] = "spawning"
    /\ source
    /\ at' = [at EXCEPT ![w] = "cutting"]
    /\ SetOut(w, "partial")
    /\ UNCHANGED <<recording, seg, owner, req, current, deleting, muddled, abandoned, cuts>>

\* Mutant: the answer of ffmpeg is not waited for.
CutEndsEarly(w) ==
    /\ at[w] = "cutting"
    /\ at' = [at EXCEPT ![w] = "thumbnail"]
    /\ UNCHANGED <<recording, segments, req, current, deleting, muddled, abandoned, cuts>>

\* The file it has open is read to the end even if it was removed meanwhile.
\* Two ffmpeg that write one file leave no usable one.
CutEnds(w) ==
    /\ at[w] = "cutting"
    /\ at' = [at EXCEPT ![w] = "thumbnail"]
    /\ SetOut(w, IF \E u \in Workers \ {w} : at[u] = "cutting" /\ Head(req[u]) = Head(req[w])
                 THEN "partial" ELSE "whole")
    /\ UNCHANGED <<recording, seg, owner, req, current, deleting, muddled, abandoned, cuts>>

\* stdout is read to its end before stderr is read at all: an ffmpeg that
\* fills the pipe of stderr waits for ever, and so does publish().
CutBlocks(w) ==
    /\ at[w] = "cutting"
    /\ at' = [at EXCEPT ![w] = "blocked"]
    /\ UNCHANGED <<recording, segments, req, current, deleting, muddled, abandoned, cuts>>

\* thumbnail() reads the source again; then NFO, poster and fanart.
ThumbnailDone(w) ==
    /\ at[w] = "thumbnail"
    /\ source
    /\ at' = [at EXCEPT ![w] = "scanning"]
    /\ UNCHANGED <<recording, segments, req, current, deleting, muddled, abandoned, cuts>>

\* Mutant: the failure is recorded in the session that it rolls back.
PublishFailsUnrecorded(w) ==
    /\ at[w] \in {"spawning", "cutting", "thumbnail"}
    /\ Advance(w)
    /\ UNCHANGED <<recording, segments, deleting, muddled, abandoned, cuts>>

\* The row of Head(req[w]) gets the status st, if it is there.
SetStatus(w, st) ==
    seg' = IF Head(req[w]) \in Rows THEN [seg EXCEPT ![Head(req[w])] = st] ELSE seg

PublishFails(w) ==
    /\ at[w] \in {"spawning", "cutting", "thumbnail"}
    /\ SetStatus(w, "publish_failed")
    /\ Advance(w)
    /\ UNCHANGED <<recording, out, owner, deleting, muddled, abandoned, cuts>>

\* Mutant: the failed segments are left to themselves.
AllPublishedOrFailed(s) ==
    /\ s \in Rows /\ rec # "absent" /\ ~sourceDeleted
    /\ \A t \in Rows \ {s} : seg[t] \in {"published", "publish_failed"}

\* Once s is published, the source is not needed any more.
AllPublished(s) ==
    /\ s \in Rows /\ rec # "absent" /\ ~sourceDeleted
    /\ \A t \in Rows \ {s} : seg[t] = "published"

\* Session 2, with del the preference of the watcher or of the settings.  An
\* OSError leaves the source as if there were no preference.
PublishEnds(w, del) ==
    /\ at[w] = "scanning"
    /\ SetStatus(w, "published")
    /\ IF del /\ AllPublished(Head(req[w]))
       THEN source' = FALSE /\ sourceDeleted' = TRUE
       ELSE UNCHANGED <<source, sourceDeleted>>
    /\ Advance(w)
    /\ UNCHANGED <<rec, issued, downloading, out, owner, deleting, muddled,
                   abandoned, cuts>>

\* Session 2 cannot commit; a source that it has removed is gone all the same.
PublishRollsBack(w, del) ==
    /\ at[w] = "scanning"
    /\ source' = (source /\ ~(del /\ AllPublished(Head(req[w]))))
    /\ SetStatus(w, "publish_failed")
    /\ Advance(w)
    /\ UNCHANGED <<rec, issued, downloading, sourceDeleted, out, owner,
                   deleting, muddled, abandoned, cuts>>

\* publish_failed cannot be written either: the row goes on saying publishing,
\* and what session 2 may have removed is gone.
PublishUnrecorded(w, del) ==
    /\ at[w] \in {"spawning", "cutting", "thumbnail", "scanning"}
    /\ cuts < MaxCuts
    /\ cuts' = cuts + 1
    /\ source' = (source /\ ~(del /\ at[w] = "scanning" /\ AllPublished(Head(req[w]))))
    /\ abandoned' = abandoned \cup (Rows \cap {Head(req[w])})
    /\ Advance(w)
    /\ UNCHANGED <<rec, issued, downloading, sourceDeleted, segments, deleting, muddled>>

-----------------------------------------------------------------------------
(***************************************************************************)
(* delete_source, on its thread.                                           *)
(***************************************************************************)

DeleteSourceChecks ==
    /\ rec # "absent" /\ ~sourceDeleted
    /\ ~deleting
    /\ Rows # {} /\ \A s \in Rows : seg[s] = "published"
    /\ deleting' = TRUE
    /\ UNCHANGED <<recording, segments, work, muddled, abandoned, cuts>>

\* The file goes, and the row says so if there still is one.
DeleteSourceRemoves ==
    /\ deleting
    /\ deleting' = FALSE
    /\ source' = FALSE
    /\ sourceDeleted' = (sourceDeleted \/ rec # "absent")
    /\ UNCHANGED <<rec, issued, downloading, segments, work, muddled,
                   abandoned, cuts>>

DeleteSourceFails ==
    /\ deleting
    /\ deleting' = FALSE
    /\ UNCHANGED <<recording, segments, work, muddled, abandoned, cuts>>

-----------------------------------------------------------------------------

\* The application goes down, perhaps between the removal of a source and
\* the commit, and comes up: nothing looks at the segments.
Restart(removed) ==
    /\ cuts < MaxCuts
    /\ cuts' = cuts + 1
    /\ removed => deleting \/ \E w \in Workers : at[w] = "scanning" /\ AllPublished(Head(req[w]))
    /\ source' = (source /\ ~removed)
    /\ req' = [w \in Workers |-> <<>>]
    /\ at' = [w \in Workers |-> "idle"]
    /\ current' = [w \in Workers |-> FALSE]
    /\ deleting' = FALSE
    /\ abandoned' = {s \in SegIds : seg[s] = "publishing"}
    /\ UNCHANGED <<rec, issued, downloading, sourceDeleted, segments, muddled>>

Init ==
    /\ rec = "absent" /\ issued = 0 /\ downloading = FALSE
    /\ source = FALSE /\ sourceDeleted = FALSE
    /\ seg = [s \in SegIds |-> "absent"]
    /\ out = [s \in SegIds |-> "none"]
    /\ owner = [s \in SegIds |-> 0]
    /\ req = [w \in Workers |-> <<>>]
    /\ at = [w \in Workers |-> "idle"]
    /\ current = [w \in Workers |-> FALSE]
    /\ deleting = FALSE /\ muddled = {} /\ abandoned = {} /\ cuts = 0

WorkerStep(w) ==
    \/ PublishRefused(w)
    \/ PublishBegins(w)
    \/ CutStarts(w)
    \/ CutEnds(w)
    \/ CutBlocks(w)
    \/ ThumbnailDone(w)
    \/ PublishFails(w)
    \/ \E del \in BOOLEAN :
        PublishEnds(w, del) \/ PublishRollsBack(w, del) \/ PublishUnrecorded(w, del)

Next ==
    \/ \E vod, file \in BOOLEAN : NewRecording(vod, file)
    \/ DeleteStream
    \/ \E n \in 0..MaxEntries : Finalize(n)
    \/ CreateSegment
    \/ \E s \in SegIds : PatchSegment(s) \/ DeleteSegment(s)
    \/ \E w \in Workers :
        \/ \E n \in 0..MaxEntries, P \in SUBSET SegIds : VodCompletes(w, n, P)
        \/ \E n \in 1..MaxBulk : \E list \in [1..n -> SegIds] : RequestPublish(w, list)
        \/ WorkerStep(w)
    \/ DeleteSourceChecks \/ DeleteSourceRemoves \/ DeleteSourceFails
    \/ \E removed \in BOOLEAN : Restart(removed)

Spec == Init /\ [][Next]_vars

-----------------------------------------------------------------------------
(***************************************************************************)
(* Properties.                                                             *)
(***************************************************************************)

\* A segment that says publishing is being published, or was when the
\* application went down or publish_failed could not be written; every other
\* way out of publish() writes a status.
PublishingHasWorker ==
    \A s \in SegIds :
        seg[s] = "publishing" => s \in abandoned \/ \E w \in Workers : Publishing(w, s)

\* A segment that says published has its media file, unless it was changed
\* since, or published by two requests at once (nothing keeps them apart).
PublishedHasOutput ==
    \A s \in SegIds : seg[s] = "published" => out[s] = "whole" \/ s \in muddled

\* The source file of a recording goes only when no segment needs it any more:
\* each has its media file, whether the removal is committed or not, except
\* those that came or were published again while delete_source was at it.
SourceGoesLast ==
    [][issued' = issued /\ source /\ ~source'
       => \A s \in SegIds : seg[s] # "absent" => out[s] = "whole" \/ s \in muddled]_vars

\* What models.py:206 declares, ForeignKey("recordings.id", ondelete="CASCADE"):
\* no segment is left to a recording it was not made for.
SegmentsGoWithRecording ==
    \A s \in SegIds : seg[s] # "absent" /\ rec # "absent" => owner[s] = issued
=============================================================================
