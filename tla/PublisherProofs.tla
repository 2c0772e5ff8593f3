-------------------------- MODULE PublisherProofs --------------------------
(***************************************************************************)
(* Theorems about Publisher, for any segments, workers and bounds.         *)
(*                                                                         *)
(* That a source goes last needs two facts about a segment that no second  *)
(* request and no patch has touched (one that is not muddled).  While a    *)
(* worker publishes it, it says publishing, the worker is the only one,    *)
(* and from the end of the cut its media file is whole (OwnedByOne).       *)
(* Between the two steps of delete_source nobody publishes it, and its     *)
(* media file is whole (SettledForDeletion).                               *)
(***************************************************************************)
EXTENDS Publisher, SequenceTheorems, FiniteSetTheorems, TLAPS

OwnedByOne ==
    \A s \in SegIds, w \in Workers :
        seg[s] # "absent" /\ s \notin muddled /\ Publishing(w, s) =>
            /\ seg[s] = "publishing" /\ current[w]
            /\ at[w] \in {"thumbnail", "scanning"} => out[s] = "whole"
            /\ \A u \in Workers : Publishing(u, s) => u = w

SettledForDeletion ==
    deleting => \A s \in SegIds :
        seg[s] # "absent" /\ s \notin muddled =>
            /\ out[s] = "whole"
            /\ \A w \in Workers : ~Publishing(w, s)

IInv ==
    /\ TypeOK
    /\ PublishingHasWorker
    /\ PublishedHasOutput
    /\ OwnedByOne
    /\ SettledForDeletion

Safe == PublishingHasWorker /\ PublishedHasOutput /\ OwnedByOne /\ SettledForDeletion

-----------------------------------------------------------------------------
(***************************************************************************)
(* Workers.                                                                *)
(***************************************************************************)

WorkTyped ==
    /\ req \in [Workers -> Seq(SegIds)]
    /\ at \in [Workers -> Phase]
    /\ \A w \in Workers : at[w] = "idle" <=> req[w] = <<>>
    /\ current \in [Workers -> BOOLEAN]

SegmentsTyped ==
    /\ seg \in [SegIds -> Status]
    /\ out \in [SegIds -> {"none", "partial", "whole"}]
    /\ owner \in [SegIds -> 0..MaxRecordings]
    /\ muddled \subseteq SegIds
    /\ abandoned \subseteq SegIds

\* Only worker w moves.
OthersStay(w) ==
    \A u \in Workers \ {w} : at'[u] = at[u] /\ req'[u] = req[u] /\ current'[u] = current[u]

LEMMA HeadOfRequest ==
    ASSUME TypeOK, NEW w \in Workers, at[w] # "idle"
    PROVE  /\ req[w] \in Seq(SegIds) /\ req[w] # <<>>
           /\ Head(req[w]) \in SegIds /\ Tail(req[w]) \in Seq(SegIds)
<1>1. req[w] \in Seq(SegIds) /\ req[w] # <<>>
    BY DEF TypeOK
<1> QED
    BY <1>1, HeadTailProperties

LEMMA AdvanceEffect ==
    ASSUME TypeOK, NEW w \in Workers, at[w] # "idle", Advance(w)
    PROVE  WorkTyped' /\ OthersStay(w) /\ at'[w] \notin InPublish
<1>1. Tail(req[w]) \in Seq(SegIds)
    BY HeadOfRequest
<1>2. req' \in [Workers -> Seq(SegIds)] /\ current' \in [Workers -> BOOLEAN]
    BY <1>1 DEF Advance, TypeOK
<1>3. at' \in [Workers -> Phase] /\ at'[w] \notin InPublish
    BY DEF Advance, TypeOK, Phase, InPublish
<1>4. OthersStay(w)
    BY DEF Advance, OthersStay, TypeOK
<1>5. at'[w] = "idle" <=> req'[w] = <<>>
    BY DEF Advance, TypeOK
<1>6. \A u \in Workers : at'[u] = "idle" <=> req'[u] = <<>>
    BY <1>4, <1>5 DEF OthersStay, TypeOK
<1> QED
    BY <1>2, <1>3, <1>4, <1>6 DEF WorkTyped

\* A worker in publish() that goes to another of its phases.
LEMMA PhaseEffect ==
    ASSUME TypeOK, NEW w \in Workers, at[w] # "idle", NEW ph \in Phase, ph # "idle",
           at' = [at EXCEPT ![w] = ph], req' = req,
           \/ current' = current
           \/ current' = [current EXCEPT ![w] = TRUE]
    PROVE  WorkTyped' /\ OthersStay(w) /\ at'[w] = ph /\ req'[w] = req[w]
<1>1. OthersStay(w) /\ at'[w] = ph
    BY DEF OthersStay, TypeOK
<1>2. at' \in [Workers -> Phase] /\ current' \in [Workers -> BOOLEAN]
    BY DEF TypeOK
<1>3. \A u \in Workers : at'[u] = "idle" <=> req'[u] = <<>>
    BY <1>1 DEF OthersStay, TypeOK
<1> QED
    BY <1>1, <1>2, <1>3 DEF WorkTyped, TypeOK

\* An idle worker is given a list.
LEMMA RequestEffect ==
    ASSUME TypeOK, NEW w \in Workers, at[w] = "idle", NEW list \in Seq(SegIds), list # <<>>,
           req' = [req EXCEPT ![w] = list], at' = [at EXCEPT ![w] = "next"],
           current' = current
    PROVE  WorkTyped' /\ OthersStay(w) /\ at'[w] \notin InPublish
<1>1. OthersStay(w) /\ at'[w] = "next" /\ req'[w] = list
    BY DEF OthersStay, TypeOK
<1>2. at' \in [Workers -> Phase] /\ req' \in [Workers -> Seq(SegIds)]
    BY DEF TypeOK, Phase
<1>3. \A u \in Workers : at'[u] = "idle" <=> req'[u] = <<>>
    BY <1>1 DEF OthersStay, TypeOK
<1> QED
    BY <1>1, <1>2, <1>3 DEF WorkTyped, TypeOK, InPublish

-----------------------------------------------------------------------------
(***************************************************************************)
(* New rows.                                                               *)
(***************************************************************************)

\* What InsertDrafts does to segments, whichever ids it chooses.
Inserted(new) ==
    /\ seg' = [s \in SegIds |-> IF s \in new THEN "draft" ELSE seg[s]]
    /\ out' = [s \in SegIds |-> IF s \in new THEN "none" ELSE out[s]]
    /\ owner' = [s \in SegIds |-> IF s \in new THEN issued ELSE owner[s]]
    /\ muddled' = (muddled \ new)
                  \cup {s \in new : deleting \/ \E w \in Workers : Publishing(w, s)}
    /\ abandoned' = abandoned \ new

LEMMA InsertEffect ==
    ASSUME TypeOK, NEW n, InsertDrafts(n)
    PROVE  SegmentsTyped' /\ \E new \in SUBSET SegIds : Inserted(new)
<1> DEFINE new == NextId..(NextId + n - 1)
<1>1. new \subseteq SegIds /\ Inserted(new)
    BY DEF InsertDrafts, Inserted
<1> HIDE DEF new
<1>2. SegmentsTyped'
    BY <1>1 DEF Inserted, TypeOK, SegmentsTyped, Status
<1> QED
    BY <1>1, <1>2

\* Drafts are inserted while the workers in publish() stay there.
LEMMA InsertSafe ==
    ASSUME TypeOK, Safe, NEW new \in SUBSET SegIds, Inserted(new), deleting' = deleting,
           \A w \in Workers :
               /\ at'[w] \in InPublish <=> at[w] \in InPublish
               /\ at[w] \in InPublish =>
                      at'[w] = at[w] /\ req'[w] = req[w] /\ current'[w] = current[w]
    PROVE  Safe'
<1>1. \A w \in Workers, s \in SegIds : Publishing(w, s)' <=> Publishing(w, s)
    BY DEF Publishing
<1>2. PublishingHasWorker'
    BY <1>1 DEF Safe, PublishingHasWorker, Inserted
<1>3. PublishedHasOutput'
    BY DEF Safe, PublishedHasOutput, Inserted
<1>4. OwnedByOne'
    <2> SUFFICES ASSUME NEW s \in SegIds, NEW w \in Workers,
                        seg'[s] # "absent", s \notin muddled', Publishing(w, s)
                 PROVE  /\ seg'[s] = "publishing" /\ current'[w]
                        /\ at'[w] \in {"thumbnail", "scanning"} => out'[s] = "whole"
                        /\ \A u \in Workers : Publishing(u, s) => u = w
        BY <1>1 DEF OwnedByOne
    <2>1. s \notin new
        BY DEF Inserted
    <2>2. seg[s] # "absent" /\ s \notin muddled /\ out'[s] = out[s] /\ seg'[s] = seg[s]
        BY <2>1 DEF Inserted
    <2>3. at'[w] = at[w] /\ current'[w] = current[w]
        BY DEF Publishing
    <2> QED
        BY <2>2, <2>3 DEF Safe, OwnedByOne
<1>5. SettledForDeletion'
    BY <1>1 DEF Safe, SettledForDeletion, Inserted
<1> QED
    BY <1>2, <1>3, <1>4, <1>5 DEF Safe

-----------------------------------------------------------------------------
(***************************************************************************)
(* Types.                                                                  *)
(***************************************************************************)

RecordingTyped ==
    /\ rec \in {"absent", "open", "complete"}
    /\ issued \in 0..MaxRecordings
    /\ downloading \in BOOLEAN
    /\ source \in BOOLEAN
    /\ sourceDeleted \in BOOLEAN
    /\ deleting \in BOOLEAN
    /\ cuts \in 0..MaxCuts

LEMMA TypeParts == TypeOK <=> RecordingTyped /\ SegmentsTyped /\ WorkTyped
BY DEF TypeOK, RecordingTyped, SegmentsTyped, WorkTyped

LEMMA TypePartsNext == TypeOK' <=> RecordingTyped' /\ SegmentsTyped' /\ WorkTyped'
BY DEF TypeOK, RecordingTyped, SegmentsTyped, WorkTyped

LEMMA DeriveTyped ==
    ASSUME TypeOK, NEW n, DeriveDrafts(n)
    PROVE  SegmentsTyped'
<1>1. CASE InsertDrafts(n)
    BY <1>1, InsertEffect
<1>2. CASE UNCHANGED <<segments, muddled, abandoned>>
    BY <1>2, TypeParts DEF SegmentsTyped, segments
<1> QED
    BY <1>1, <1>2 DEF DeriveDrafts

\* The lists a request or an automatic publication may hold.
LEMMA ListTyped ==
    /\ \A n \in 1..MaxBulk : \A list \in [1..n -> SegIds] : list \in Seq(SegIds) /\ list # <<>>
    /\ \A P \in SUBSET SegIds : P # {} =>
           \A q \in Ascending(P) : q \in Seq(SegIds) /\ q # <<>>
<1>1. ASSUME NEW n \in Nat \ {0}, NEW S \in SUBSET SegIds, NEW list \in [1..n -> S]
      PROVE  list \in Seq(SegIds) /\ list # <<>>
    <2>1. list \in Seq(SegIds)
        BY <1>1
    <2>2. 1 \in DOMAIN list
        BY <1>1
    <2>3. DOMAIN <<>> = {}
        OBVIOUS
    <2> QED
        BY <2>1, <2>2, <2>3
<1>2. \A n \in 1..MaxBulk : n \in Nat \ {0}
    BY PublisherAssumption
<1>3. ASSUME NEW P \in SUBSET SegIds, P # {}
      PROVE  Cardinality(P) \in Nat \ {0}
    BY <1>3, PublisherAssumption, FS_Subset, FS_CardinalityType, FS_EmptySet
<1> QED
    BY <1>1, <1>2, <1>3 DEF Ascending

LEMMA TypeStep ==
    ASSUME TypeOK, [Next]_vars
    PROVE  TypeOK'
<1>0. MaxRecordings \in Nat /\ MaxCuts \in Nat
    BY PublisherAssumption
<1>00. RecordingTyped /\ SegmentsTyped /\ WorkTyped
    BY TypeParts
<1>1. ASSUME NEW vod \in BOOLEAN, NEW file \in BOOLEAN, NewRecording(vod, file)
      PROVE  TypeOK'
    <2>1. downloading' \in BOOLEAN /\ source' \in BOOLEAN
        BY <1>1, Zenon DEF NewRecording
    <2>2. rec' = "open" /\ issued' = issued + 1 /\ issued < MaxRecordings /\ sourceDeleted' = FALSE
          /\ UNCHANGED <<segments, work, deleting, muddled, abandoned, cuts>>
        BY <1>1 DEF NewRecording
    <2>3. RecordingTyped'
        <3>1. issued' \in 0..MaxRecordings
            BY <1>0, <1>00, <2>2 DEF RecordingTyped
        <3>2. rec' \in {"absent", "open", "complete"} /\ sourceDeleted' \in BOOLEAN
            BY <2>2
        <3>3. deleting' \in BOOLEAN /\ cuts' \in 0..MaxCuts
            BY <1>00, <2>2 DEF RecordingTyped
        <3> QED
            BY <2>1, <3>1, <3>2, <3>3 DEF RecordingTyped
    <2> QED
        BY <1>00, <2>2, <2>3, TypePartsNext DEF SegmentsTyped, WorkTyped, segments, work
<1>2. CASE DeleteStream
    BY <1>2 DEF DeleteStream, TypeOK, segments, work
<1>3. ASSUME NEW n, Finalize(n)
      PROVE  TypeOK'
    BY <1>00, <1>3, DeriveTyped, TypePartsNext DEF Finalize, RecordingTyped, WorkTyped, work
<1>4. CASE CreateSegment
    BY <1>00, <1>4, InsertEffect, TypePartsNext
    DEF CreateSegment, RecordingTyped, WorkTyped, recording, work
<1>5. ASSUME NEW s \in SegIds, PatchSegment(s) \/ DeleteSegment(s)
      PROVE  TypeOK'
    <2>1. current' \in [Workers -> BOOLEAN]
        <3> DEFINE c(w) == current[w] /\ ~Publishing(w, s)
        <3>1. current' = [w \in Workers |-> c(w)]
            BY <1>5 DEF PatchSegment, DeleteSegment, Outdates
        <3>2. \A w \in Workers : c(w) \in BOOLEAN
            BY Zenon
        <3> HIDE DEF c
        <3> QED
            BY <3>1, <3>2
    <2>2. SegmentsTyped'
        <3>1. CASE PatchSegment(s)
            BY <1>00, <3>1 DEF PatchSegment, SegmentsTyped
        <3>2. CASE DeleteSegment(s)
            BY <1>0, <1>00, <3>2 DEF DeleteSegment, SegmentsTyped, Status
        <3> QED
            BY <1>5, <3>1, <3>2
    <2> QED
        BY <1>00, <1>5, <2>1, <2>2, TypePartsNext
        DEF PatchSegment, DeleteSegment, RecordingTyped, WorkTyped, recording
<1>6. ASSUME NEW w \in Workers, NEW n, NEW P \in SUBSET SegIds, VodCompletes(w, n, P)
      PROVE  TypeOK'
    <2>1. SegmentsTyped'
        BY <1>6, DeriveTyped DEF VodCompletes
    <2>2. WorkTyped'
        <3>1. CASE UNCHANGED work
            BY <1>00, <3>1 DEF work, WorkTyped
        <3>2. CASE P # {}
            <4>1. at[w] = "idle" /\ at' = [at EXCEPT ![w] = "next"] /\ current' = current
                BY <1>6, <3>2 DEF VodCompletes
            <4>2. PICK q \in Ascending(P) : req' = [req EXCEPT ![w] = q]
                BY <1>6, <3>2 DEF VodCompletes
            <4>3. q \in Seq(SegIds) /\ q # <<>>
                BY <3>2, <4>2, ListTyped
            <4> QED
                BY <4>1, <4>2, <4>3, RequestEffect
        <3> QED
            BY <1>6, <3>1, <3>2 DEF VodCompletes
    <2> QED
        BY <1>00, <1>6, <2>1, <2>2, TypePartsNext DEF VodCompletes, RecordingTyped
<1>7. ASSUME NEW w \in Workers, NEW n \in 1..MaxBulk, NEW list \in [1..n -> SegIds],
             RequestPublish(w, list)
      PROVE  TypeOK'
    <2>1. list \in Seq(SegIds) /\ list # <<>>
        BY ListTyped
    <2>2. WorkTyped'
        BY <1>7, <2>1, RequestEffect DEF RequestPublish
    <2> QED
        BY <1>00, <1>7, <2>2, TypePartsNext
        DEF RequestPublish, RecordingTyped, SegmentsTyped, recording, segments
<1>8. ASSUME NEW w \in Workers, WorkerStep(w)
      PROVE  TypeOK'
    <2>0. at[w] # "idle"
        BY <1>8 DEF WorkerStep, PublishRefused, PublishBegins, CutStarts, CutEnds, CutBlocks,
                    ThumbnailDone, PublishFails, PublishEnds, PublishRollsBack,
                    PublishUnrecorded
    <2>1. CASE PublishRefused(w)
        BY <1>00, <2>0, <2>1, AdvanceEffect, TypePartsNext
        DEF PublishRefused, RecordingTyped, SegmentsTyped, recording, segments
    <2>2. CASE PublishBegins(w)
        <3>1. WorkTyped'
            BY <2>0, <2>2, PhaseEffect DEF PublishBegins, Phase
        <3>2. SegmentsTyped'
            BY <1>00, <2>2 DEF PublishBegins, SegmentsTyped, Status, Rows
        <3> QED
            BY <1>00, <2>2, <3>1, <3>2, TypePartsNext DEF PublishBegins, RecordingTyped, recording
    <2>3. CASE CutStarts(w)
        <3>1. WorkTyped'
            BY <2>0, <2>3, PhaseEffect DEF CutStarts, Phase
        <3>2. SegmentsTyped'
            BY <1>00, <2>3 DEF CutStarts, SetOut, SegmentsTyped
        <3> QED
            BY <1>00, <2>3, <3>1, <3>2, TypePartsNext DEF CutStarts, RecordingTyped, recording
    <2>4. CASE CutEnds(w)
        <3>1. WorkTyped'
            BY <2>0, <2>4, PhaseEffect DEF CutEnds, Phase
        <3>2. SegmentsTyped'
            BY <1>00, <2>4 DEF CutEnds, SetOut, SegmentsTyped
        <3> QED
            BY <1>00, <2>4, <3>1, <3>2, TypePartsNext DEF CutEnds, RecordingTyped, recording
    <2>5. CASE CutBlocks(w) \/ ThumbnailDone(w)
        <3>1. WorkTyped'
            BY <2>0, <2>5, PhaseEffect DEF CutBlocks, ThumbnailDone, Phase
        <3> QED
            BY <1>00, <2>5, <3>1, TypePartsNext
            DEF CutBlocks, ThumbnailDone, RecordingTyped, SegmentsTyped, recording, segments
    <2>6. CASE PublishFails(w)
        <3>1. SegmentsTyped'
            BY <1>00, <2>6 DEF PublishFails, SetStatus, SegmentsTyped, Status
        <3> QED
            BY <1>00, <2>0, <2>6, <3>1, AdvanceEffect, TypePartsNext
            DEF PublishFails, RecordingTyped, recording
    <2>7. ASSUME NEW del \in BOOLEAN, PublishEnds(w, del) \/ PublishRollsBack(w, del)
          PROVE  TypeOK'
        <3>1. SegmentsTyped'
            BY <1>00, <2>7 DEF PublishEnds, PublishRollsBack, SetStatus, SegmentsTyped, Status
        <3>2. WorkTyped'
            BY <2>0, <2>7, AdvanceEffect DEF PublishEnds, PublishRollsBack
        <3>3. source' \in BOOLEAN /\ sourceDeleted' \in BOOLEAN
            <4>1. CASE PublishEnds(w, del)
                BY <1>00, <4>1 DEF PublishEnds, RecordingTyped
            <4>2. CASE PublishRollsBack(w, del)
                <5>1. source' \in BOOLEAN
                    BY <4>2, Zenon DEF PublishRollsBack
                <5> QED
                    BY <1>00, <4>2, <5>1 DEF PublishRollsBack, RecordingTyped
            <4> QED
                BY <2>7, <4>1, <4>2
        <3> QED
            BY <1>00, <2>7, <3>1, <3>2, <3>3, TypePartsNext
            DEF PublishEnds, PublishRollsBack, RecordingTyped
    <2>8. ASSUME NEW del \in BOOLEAN, PublishUnrecorded(w, del)
          PROVE  TypeOK'
        <3>1. SegmentsTyped'
            BY <1>00, <2>8 DEF PublishUnrecorded, SegmentsTyped, segments, Rows
        <3>2. WorkTyped'
            BY <2>0, <2>8, AdvanceEffect DEF PublishUnrecorded
        <3>3. source' \in BOOLEAN
            BY <2>8, Zenon DEF PublishUnrecorded
        <3>4. cuts' \in 0..MaxCuts
            BY <1>0, <1>00, <2>8 DEF PublishUnrecorded, RecordingTyped
        <3> QED
            BY <1>00, <2>8, <3>1, <3>2, <3>3, <3>4, TypePartsNext
            DEF PublishUnrecorded, RecordingTyped
    <2> QED
        BY <1>8, <2>1, <2>2, <2>3, <2>4, <2>5, <2>6, <2>7, <2>8 DEF WorkerStep
<1>9. CASE DeleteSourceChecks \/ DeleteSourceFails
    BY <1>9 DEF DeleteSourceChecks, DeleteSourceFails, TypeOK, recording, segments, work
<1>10. CASE DeleteSourceRemoves
    <2>1. sourceDeleted' \in BOOLEAN
        BY <1>10, Zenon DEF DeleteSourceRemoves
    <2> QED
        BY <1>10, <2>1 DEF DeleteSourceRemoves, TypeOK, segments, work
<1>11. ASSUME NEW removed \in BOOLEAN, Restart(removed)
       PROVE  TypeOK'
    <2>1. source' \in BOOLEAN
        BY <1>11, Zenon DEF Restart
    <2>2. WorkTyped'
        BY <1>11 DEF Restart, WorkTyped, Phase
    <2>3. cuts' \in 0..MaxCuts
        BY <1>0, <1>00, <1>11 DEF Restart, RecordingTyped
    <2> QED
        BY <1>00, <1>11, <2>1, <2>2, <2>3, TypePartsNext
        DEF Restart, RecordingTyped, SegmentsTyped, segments
<1>12. CASE UNCHANGED vars
    BY <1>12 DEF vars, recording, segments, work, TypeOK
<1> QED
    BY <1>1, <1>2, <1>3, <1>4, <1>5, <1>6, <1>7, <1>8, <1>9, <1>10, <1>11, <1>12 DEF Next

-----------------------------------------------------------------------------
(***************************************************************************)
(* Safety, step by step.                                                   *)
(***************************************************************************)

\* The workers in publish() and the segments stay as they are.
LEMMA StaysSafe ==
    ASSUME Safe, UNCHANGED <<seg, out, muddled, abandoned>>, deleting' => deleting,
           \A w \in Workers :
               /\ at'[w] \in InPublish <=> at[w] \in InPublish
               /\ at[w] \in InPublish =>
                      at'[w] = at[w] /\ req'[w] = req[w] /\ current'[w] = current[w]
    PROVE  Safe'
<1>1. \A w \in Workers, s \in SegIds : Publishing(w, s)' <=> Publishing(w, s)
    BY DEF Publishing
<1>2. PublishingHasWorker' /\ PublishedHasOutput'
    BY <1>1 DEF Safe, PublishingHasWorker, PublishedHasOutput
<1>3. OwnedByOne'
    <2> SUFFICES ASSUME NEW s \in SegIds, NEW w \in Workers,
                        seg[s] # "absent", s \notin muddled, Publishing(w, s)
                 PROVE  /\ seg[s] = "publishing" /\ current'[w]
                        /\ at'[w] \in {"thumbnail", "scanning"} => out[s] = "whole"
                        /\ \A u \in Workers : Publishing(u, s) => u = w
        BY <1>1 DEF OwnedByOne
    <2>1. at'[w] = at[w] /\ current'[w] = current[w]
        BY DEF Publishing
    <2> QED
        BY <2>1 DEF Safe, OwnedByOne
<1>4. SettledForDeletion'
    BY <1>1 DEF Safe, SettledForDeletion
<1> QED
    BY <1>2, <1>3, <1>4 DEF Safe

\* Worker w goes from one phase of publish() to another.
LEMMA PhaseSafe ==
    ASSUME Safe, NEW w \in Workers, at[w] \in InPublish, at'[w] \in InPublish,
           Head(req[w]) \in SegIds,
           OthersStay(w), req'[w] = req[w], current'[w] = current[w],
           UNCHANGED <<seg, muddled, abandoned, deleting>>,
           \A t \in SegIds \ {Head(req[w])} : out'[t] = out[t],
           at'[w] \in {"thumbnail", "scanning"} /\ seg[Head(req[w])] # "absent"
             /\ Head(req[w]) \notin muddled => out'[Head(req[w])] = "whole"
    PROVE  Safe'
<1> DEFINE s == Head(req[w])
<1>1. \A u \in Workers, t \in SegIds : Publishing(u, t)' <=> Publishing(u, t)
    BY DEF Publishing, OthersStay
<1>2. Publishing(w, s)
    BY DEF Publishing
<1>3. seg[s] # "absent" /\ s \notin muddled =>
        seg[s] = "publishing" /\ ~deleting /\ \A u \in Workers : Publishing(u, s) => u = w
    BY <1>2 DEF Safe, OwnedByOne, SettledForDeletion
<1>4. PublishingHasWorker'
    BY <1>1 DEF Safe, PublishingHasWorker
<1>5. PublishedHasOutput'
    BY <1>3 DEF Safe, PublishedHasOutput
<1>6. OwnedByOne'
    <2> SUFFICES ASSUME NEW t \in SegIds, NEW u \in Workers,
                        seg[t] # "absent", t \notin muddled, Publishing(u, t)
                 PROVE  /\ seg[t] = "publishing" /\ current'[u]
                        /\ at'[u] \in {"thumbnail", "scanning"} => out'[t] = "whole"
                        /\ \A v \in Workers : Publishing(v, t) => v = u
        BY <1>1 DEF OwnedByOne
    <2>1. CASE u = w
        <3>1. t = s
            BY <2>1 DEF Publishing
        <3> QED
            BY <2>1, <3>1 DEF Safe, OwnedByOne
    <2>2. CASE u # w
        <3>1. t # s
            BY <1>3, <2>2
        <3> QED
            BY <2>2, <3>1 DEF Safe, OwnedByOne, OthersStay
    <2> QED
        BY <2>1, <2>2
<1>7. SettledForDeletion'
    BY <1>1, <1>3 DEF Safe, SettledForDeletion
<1> QED
    BY <1>4, <1>5, <1>6, <1>7 DEF Safe

\* Worker w leaves publish() and writes a final status.
LEMMA EndSafe ==
    ASSUME Safe, NEW w \in Workers, at[w] \in InPublish, Head(req[w]) \in SegIds,
           OthersStay(w), at'[w] \notin InPublish,
           UNCHANGED <<out, muddled, abandoned, deleting>>,
           NEW st \in {"published", "publish_failed"}, SetStatus(w, st),
           seg \in [SegIds -> Status],
           st = "published" => at[w] = "scanning"
    PROVE  Safe'
<1> DEFINE s == Head(req[w])
<1>1. \A u \in Workers, t \in SegIds : Publishing(u, t)' <=> u # w /\ Publishing(u, t)
    BY DEF Publishing, OthersStay
<1>2. Publishing(w, s)
    BY DEF Publishing
<1>3. /\ \A t \in SegIds \ {s} : seg'[t] = seg[t]
      /\ seg'[s] = IF seg[s] = "absent" THEN "absent" ELSE st
    BY DEF SetStatus, Rows
<1>4. PublishingHasWorker'
    <2> SUFFICES ASSUME NEW t \in SegIds, seg'[t] = "publishing"
                 PROVE  t \in abandoned \/ \E u \in Workers : Publishing(u, t)'
        BY DEF PublishingHasWorker
    <2>1. t # s /\ seg[t] = "publishing"
        BY <1>3
    <2>2. ~Publishing(w, t)
        BY <2>1 DEF Publishing
    <2> QED
        BY <1>1, <2>1, <2>2 DEF Safe, PublishingHasWorker
<1>5. PublishedHasOutput'
    <2>1. seg'[s] = "published" => out[s] = "whole" \/ s \in muddled
        BY <1>2, <1>3 DEF Safe, OwnedByOne
    <2> QED
        BY <1>3, <2>1 DEF Safe, PublishedHasOutput
<1>6. OwnedByOne'
    <2> SUFFICES ASSUME NEW t \in SegIds, NEW u \in Workers,
                        seg'[t] # "absent", t \notin muddled, Publishing(u, t)'
                 PROVE  /\ seg'[t] = "publishing" /\ current'[u]
                        /\ at'[u] \in {"thumbnail", "scanning"} => out[t] = "whole"
                        /\ \A v \in Workers : Publishing(v, t)' => v = u
        BY DEF OwnedByOne
    <2>1. u # w /\ Publishing(u, t) /\ seg[t] # "absent"
        BY <1>1, <1>3
    <2>2. t # s
        BY <1>2, <2>1 DEF Safe, OwnedByOne
    <2> QED
        BY <1>1, <1>3, <2>1, <2>2 DEF Safe, OwnedByOne, OthersStay
<1>7. SettledForDeletion'
    BY <1>1, <1>3 DEF Safe, SettledForDeletion
<1> QED
    BY <1>4, <1>5, <1>6, <1>7 DEF Safe

\* Worker w leaves publish() and the row of its segment stays as it is.
LEMMA LeaveSafe ==
    ASSUME Safe, NEW w \in Workers, OthersStay(w), at'[w] \notin InPublish,
           UNCHANGED <<seg, out, muddled, deleting>>,
           \A t \in SegIds : t \in abandoned \/ (Publishing(w, t) /\ t \in Rows) => t \in abandoned'
    PROVE  Safe'
<1>1. \A u \in Workers, t \in SegIds : Publishing(u, t)' <=> u # w /\ Publishing(u, t)
    BY DEF Publishing, OthersStay
<1>2. PublishingHasWorker'
    <2> SUFFICES ASSUME NEW t \in SegIds, seg[t] = "publishing"
                 PROVE  t \in abandoned' \/ \E u \in Workers : Publishing(u, t)'
        BY DEF PublishingHasWorker
    <2>1. t \in Rows
        BY DEF Rows
    <2> QED
        BY <1>1, <2>1 DEF Safe, PublishingHasWorker
<1>3. PublishedHasOutput'
    BY DEF Safe, PublishedHasOutput
<1>4. OwnedByOne'
    <2> SUFFICES ASSUME NEW t \in SegIds, NEW u \in Workers,
                        seg[t] # "absent", t \notin muddled, Publishing(u, t)'
                 PROVE  /\ seg[t] = "publishing" /\ current'[u]
                        /\ at'[u] \in {"thumbnail", "scanning"} => out[t] = "whole"
                        /\ \A v \in Workers : Publishing(v, t)' => v = u
        BY DEF OwnedByOne
    <2> QED
        BY <1>1 DEF Safe, OwnedByOne, OthersStay
<1>5. SettledForDeletion'
    BY <1>1 DEF Safe, SettledForDeletion
<1> QED
    BY <1>2, <1>3, <1>4, <1>5 DEF Safe

LEMMA BeginSafe ==
    ASSUME TypeOK, Safe, NEW w \in Workers, PublishBegins(w)
    PROVE  Safe'
<1> DEFINE s == Head(req[w])
<1>1. at[w] # "idle" /\ at[w] \notin InPublish
    BY DEF PublishBegins, InPublish
<1>2. s \in SegIds
    BY <1>1, HeadOfRequest
<1>3. OthersStay(w) /\ at'[w] = "spawning" /\ req' = req
    BY <1>1, PhaseEffect DEF PublishBegins, Phase
<1>4. \A u \in Workers, t \in SegIds :
        Publishing(u, t)' <=> (u # w /\ Publishing(u, t)) \/ (u = w /\ t = s)
    BY <1>3 DEF Publishing, OthersStay, InPublish
<1>5. \A t \in SegIds : ~Publishing(w, t)
    BY <1>1 DEF Publishing
<1>6. /\ seg' = [seg EXCEPT ![s] = "publishing"] /\ current' = [current EXCEPT ![w] = TRUE]
      /\ abandoned' = abandoned \ {s} /\ UNCHANGED <<out, deleting>>
      /\ muddled' = IF deleting \/ \E u \in Workers : Publishing(u, s)
                    THEN muddled \cup {s} ELSE muddled \ {s}
    BY DEF PublishBegins
<1>7. /\ seg'[s] = "publishing" /\ current'[w]
      /\ \A t \in SegIds \ {s} : seg'[t] = seg[t] /\ (t \in muddled' <=> t \in muddled)
      /\ \A u \in Workers \ {w} : current'[u] = current[u] /\ at'[u] = at[u]
      /\ s \notin muddled' => ~deleting /\ \A u \in Workers : ~Publishing(u, s)
    BY <1>2, <1>3, <1>6 DEF TypeOK, OthersStay
<1>8. PublishingHasWorker'
    <2> SUFFICES ASSUME NEW t \in SegIds, seg'[t] = "publishing"
                 PROVE  t \in abandoned' \/ \E u \in Workers : Publishing(u, t)'
        BY DEF PublishingHasWorker
    <2>1. CASE t = s
        BY <1>4, <2>1
    <2>2. CASE t # s
        BY <1>4, <1>5, <1>6, <1>7, <2>2 DEF Safe, PublishingHasWorker
    <2> QED
        BY <2>1, <2>2
<1>9. PublishedHasOutput'
    BY <1>6, <1>7 DEF Safe, PublishedHasOutput
<1>10. OwnedByOne'
    <2> SUFFICES ASSUME NEW t \in SegIds, NEW u \in Workers,
                        seg'[t] # "absent", t \notin muddled', Publishing(u, t)'
                 PROVE  /\ seg'[t] = "publishing" /\ current'[u]
                        /\ at'[u] \in {"thumbnail", "scanning"} => out'[t] = "whole"
                        /\ \A v \in Workers : Publishing(v, t)' => v = u
        BY DEF OwnedByOne
    <2>1. CASE t = s
        <3>1. u = w /\ \A v \in Workers : Publishing(v, t)' => v = w
            BY <1>4, <1>7, <2>1
        <3> QED
            BY <1>3, <1>7, <2>1, <3>1
    <2>2. CASE t # s
        <3>1. u # w /\ Publishing(u, t)
            BY <1>4, <2>2
        <3> QED
            BY <1>4, <1>6, <1>7, <2>2, <3>1 DEF Safe, OwnedByOne
    <2> QED
        BY <2>1, <2>2
<1>11. SettledForDeletion'
    <2> SUFFICES ASSUME deleting', NEW t \in SegIds, seg'[t] # "absent", t \notin muddled'
                 PROVE  out'[t] = "whole" /\ \A u \in Workers : ~Publishing(u, t)'
        BY DEF SettledForDeletion
    <2>1. t # s
        BY <1>6, <1>7
    <2> QED
        BY <1>4, <1>6, <1>7, <2>1 DEF Safe, SettledForDeletion
<1> QED
    BY <1>8, <1>9, <1>10, <1>11 DEF Safe

LEMMA PatchSafe ==
    ASSUME TypeOK, Safe, NEW s \in SegIds, PatchSegment(s)
    PROVE  Safe'
<1>1. /\ muddled' = muddled \cup {s} /\ UNCHANGED <<seg, abandoned, at, req, deleting>>
      /\ \A t \in SegIds \ {s} : out'[t] = out[t]
      /\ \A w \in Workers : ~Publishing(w, s) => current'[w] = current[w]
    BY DEF PatchSegment, Outdates, TypeOK
<1>2. \A w \in Workers, t \in SegIds : Publishing(w, t)' <=> Publishing(w, t)
    BY <1>1 DEF Publishing
<1>3. \A w \in Workers : \A t \in SegIds \ {s} : Publishing(w, t) => ~Publishing(w, s)
    BY DEF Publishing
<1>4. PublishingHasWorker' /\ PublishedHasOutput'
    BY <1>1, <1>2 DEF Safe, PublishingHasWorker, PublishedHasOutput
<1>5. OwnedByOne'
    <2> SUFFICES ASSUME NEW t \in SegIds, NEW u \in Workers,
                        seg[t] # "absent", t \notin muddled', Publishing(u, t)
                 PROVE  /\ seg[t] = "publishing" /\ current'[u]
                        /\ at[u] \in {"thumbnail", "scanning"} => out'[t] = "whole"
                        /\ \A v \in Workers : Publishing(v, t) => v = u
        BY <1>1, <1>2 DEF OwnedByOne
    <2>1. t # s /\ t \notin muddled
        BY <1>1
    <2> QED
        BY <1>1, <1>3, <2>1 DEF Safe, OwnedByOne
<1>6. SettledForDeletion'
    BY <1>1, <1>2 DEF Safe, SettledForDeletion
<1> QED
    BY <1>4, <1>5, <1>6 DEF Safe

LEMMA DeleteSegmentSafe ==
    ASSUME TypeOK, Safe, NEW s \in SegIds, DeleteSegment(s)
    PROVE  Safe'
<1>1. /\ muddled' = muddled \ {s} /\ abandoned' = abandoned \ {s}
      /\ UNCHANGED <<at, req, deleting>> /\ seg'[s] = "absent"
      /\ \A t \in SegIds \ {s} : out'[t] = out[t] /\ seg'[t] = seg[t]
      /\ \A w \in Workers : ~Publishing(w, s) => current'[w] = current[w]
    BY DEF DeleteSegment, Outdates, TypeOK
<1>2. \A w \in Workers, t \in SegIds : Publishing(w, t)' <=> Publishing(w, t)
    BY <1>1 DEF Publishing
<1>3. \A w \in Workers : \A t \in SegIds \ {s} : Publishing(w, t) => ~Publishing(w, s)
    BY DEF Publishing
<1>4. PublishingHasWorker' /\ PublishedHasOutput'
    BY <1>1, <1>2 DEF Safe, PublishingHasWorker, PublishedHasOutput
<1>5. OwnedByOne'
    <2> SUFFICES ASSUME NEW t \in SegIds, NEW u \in Workers,
                        seg'[t] # "absent", t \notin muddled', Publishing(u, t)
                 PROVE  /\ seg'[t] = "publishing" /\ current'[u]
                        /\ at[u] \in {"thumbnail", "scanning"} => out'[t] = "whole"
                        /\ \A v \in Workers : Publishing(v, t) => v = u
        BY <1>1, <1>2 DEF OwnedByOne
    <2>1. t # s /\ t \notin muddled
        BY <1>1
    <2> QED
        BY <1>1, <1>3, <2>1 DEF Safe, OwnedByOne
<1>6. SettledForDeletion'
    BY <1>1, <1>2 DEF Safe, SettledForDeletion
<1> QED
    BY <1>4, <1>5, <1>6 DEF Safe

\* Drafts are derived, or none are.
LEMMA DeriveSafe ==
    ASSUME TypeOK, Safe, NEW n, DeriveDrafts(n), deleting' = deleting,
           \A w \in Workers :
               /\ at'[w] \in InPublish <=> at[w] \in InPublish
               /\ at[w] \in InPublish =>
                      at'[w] = at[w] /\ req'[w] = req[w] /\ current'[w] = current[w]
    PROVE  Safe'
<1>1. CASE InsertDrafts(n)
    BY <1>1, InsertEffect, InsertSafe
<1>2. CASE UNCHANGED <<segments, muddled, abandoned>>
    BY <1>2, StaysSafe DEF segments
<1> QED
    BY <1>1, <1>2 DEF DeriveDrafts

\* The steps of a worker.
LEMMA WorkerSafe ==
    ASSUME TypeOK, Safe, NEW w \in Workers, WorkerStep(w)
    PROVE  Safe'
<1>0. at[w] # "idle"
    BY DEF WorkerStep, PublishRefused, PublishBegins, CutStarts, CutEnds, CutBlocks,
           ThumbnailDone, PublishFails, PublishEnds, PublishRollsBack, PublishUnrecorded
<1> DEFINE s == Head(req[w])
<1>00. s \in SegIds /\ seg \in [SegIds -> Status]
    BY <1>0, HeadOfRequest DEF TypeOK
<1>01. at[w] \in InPublish => Publishing(w, s)
    BY DEF Publishing
<1>1. CASE PublishRefused(w)
    <2>1. OthersStay(w) /\ at'[w] \notin InPublish /\ at[w] \notin InPublish
        BY <1>0, <1>1, AdvanceEffect DEF PublishRefused, InPublish
    <2> QED
        BY <1>1, <2>1, StaysSafe DEF PublishRefused, OthersStay, segments
<1>2. CASE PublishBegins(w)
    BY <1>2, BeginSafe
<1>3. CASE CutStarts(w)
    <2>1. OthersStay(w) /\ at'[w] = "cutting" /\ req' = req /\ current' = current
        BY <1>0, <1>3, PhaseEffect DEF CutStarts, Phase
    <2>2. /\ at[w] \in InPublish /\ at'[w] \in InPublish
          /\ UNCHANGED <<seg, muddled, abandoned, deleting>>
        BY <1>3, <2>1 DEF CutStarts, InPublish
    <2>3. \A t \in SegIds \ {s} : out'[t] = out[t]
        BY <1>3 DEF CutStarts, SetOut, TypeOK
    <2> QED
        BY <1>00, <2>1, <2>2, <2>3, PhaseSafe
<1>4. CASE CutEnds(w)
    <2>1. OthersStay(w) /\ at'[w] = "thumbnail" /\ req' = req /\ current' = current
        BY <1>0, <1>4, PhaseEffect DEF CutEnds, Phase
    <2>2. /\ at[w] \in InPublish /\ at'[w] \in InPublish
          /\ UNCHANGED <<seg, muddled, abandoned, deleting>>
        BY <1>4, <2>1 DEF CutEnds, InPublish
    <2>3. \A t \in SegIds \ {s} : out'[t] = out[t]
        BY <1>4 DEF CutEnds, SetOut, TypeOK
    <2>4. seg[s] # "absent" /\ s \notin muddled => out'[s] = "whole"
        <3> SUFFICES ASSUME seg[s] # "absent", s \notin muddled
                     PROVE  out'[s] = "whole"
            OBVIOUS
        <3>1. current[w] /\ \A u \in Workers : Publishing(u, s) => u = w
            BY <1>00, <1>01, <2>2 DEF Safe, OwnedByOne
        <3>2. ~\E u \in Workers \ {w} : at[u] = "cutting" /\ Head(req[u]) = s
            BY <3>1 DEF Publishing, InPublish
        <3> QED
            BY <1>00, <1>4, <3>1, <3>2 DEF CutEnds, SetOut, TypeOK
    <2> QED
        BY <1>00, <2>1, <2>2, <2>3, <2>4, PhaseSafe
<1>5. CASE CutBlocks(w)
    <2>1. OthersStay(w) /\ at'[w] = "blocked" /\ req' = req /\ current' = current
        BY <1>0, <1>5, PhaseEffect DEF CutBlocks, Phase
    <2>2. /\ at[w] \in InPublish /\ at'[w] \in InPublish
          /\ UNCHANGED <<seg, out, muddled, abandoned, deleting>>
        BY <1>5, <2>1 DEF CutBlocks, InPublish, segments
    <2> QED
        BY <1>00, <2>1, <2>2, PhaseSafe
<1>6. CASE ThumbnailDone(w)
    <2>1. OthersStay(w) /\ at'[w] = "scanning" /\ req' = req /\ current' = current
        BY <1>0, <1>6, PhaseEffect DEF ThumbnailDone, Phase
    <2>2. /\ at[w] \in InPublish /\ at'[w] \in InPublish
          /\ UNCHANGED <<seg, out, muddled, abandoned, deleting>>
        BY <1>6, <2>1 DEF ThumbnailDone, InPublish, segments
    <2>3. seg[s] # "absent" /\ s \notin muddled => out[s] = "whole"
        BY <1>00, <1>01, <1>6, <2>2 DEF ThumbnailDone, Safe, OwnedByOne
    <2> QED
        BY <1>00, <2>1, <2>2, <2>3, PhaseSafe
<1>7. CASE PublishFails(w)
    <2>1. OthersStay(w) /\ at'[w] \notin InPublish
        BY <1>0, <1>7, AdvanceEffect DEF PublishFails
    <2> QED
        BY <1>00, <1>7, <2>1, EndSafe DEF PublishFails, InPublish
<1>8. ASSUME NEW del \in BOOLEAN, PublishEnds(w, del) \/ PublishRollsBack(w, del)
      PROVE  Safe'
    <2>1. OthersStay(w) /\ at'[w] \notin InPublish
        BY <1>0, <1>8, AdvanceEffect DEF PublishEnds, PublishRollsBack
    <2>2. at[w] = "scanning" /\ UNCHANGED <<out, muddled, abandoned, deleting>>
          /\ \E st \in {"published", "publish_failed"} : SetStatus(w, st)
        BY <1>8 DEF PublishEnds, PublishRollsBack
    <2> QED
        BY <1>00, <2>1, <2>2, EndSafe DEF InPublish
<1>9. ASSUME NEW del \in BOOLEAN, PublishUnrecorded(w, del)
      PROVE  Safe'
    <2>1. OthersStay(w) /\ at'[w] \notin InPublish
        BY <1>0, <1>9, AdvanceEffect DEF PublishUnrecorded
    <2>2. UNCHANGED <<seg, out, muddled, deleting>> /\ abandoned' = abandoned \cup (Rows \cap {s})
        BY <1>9 DEF PublishUnrecorded, segments
    <2>3. \A t \in SegIds : Publishing(w, t) => t = s
        BY DEF Publishing
    <2> HIDE DEF s
    <2> QED
        BY <2>1, <2>2, <2>3, LeaveSafe
<1> QED
    BY <1>1, <1>2, <1>3, <1>4, <1>5, <1>6, <1>7, <1>8, <1>9 DEF WorkerStep

LEMMA SafeStep ==
    ASSUME TypeOK, Safe, [Next]_vars
    PROVE  Safe'
<1>1. ASSUME NEW vod \in BOOLEAN, NEW file \in BOOLEAN, NewRecording(vod, file)
      PROVE  Safe'
    BY <1>1, StaysSafe DEF NewRecording, segments, work
<1>2. CASE DeleteStream
    BY <1>2, StaysSafe DEF DeleteStream, segments, work
<1>3. ASSUME NEW n, Finalize(n)
      PROVE  Safe'
    BY <1>3, DeriveSafe DEF Finalize, work
<1>4. CASE CreateSegment
    BY <1>4, InsertEffect, InsertSafe DEF CreateSegment, work
<1>5. ASSUME NEW s \in SegIds, PatchSegment(s) \/ DeleteSegment(s)
      PROVE  Safe'
    BY <1>5, PatchSafe, DeleteSegmentSafe
<1>6. ASSUME NEW w \in Workers, NEW n, NEW P \in SUBSET SegIds, VodCompletes(w, n, P)
      PROVE  Safe'
    <2>1. \A u \in Workers :
            /\ at'[u] \in InPublish <=> at[u] \in InPublish
            /\ at[u] \in InPublish => at'[u] = at[u] /\ req'[u] = req[u] /\ current'[u] = current[u]
        <3>1. CASE UNCHANGED work
            BY <3>1 DEF work
        <3>2. CASE P # {}
            <4>1. at[w] = "idle" /\ at' = [at EXCEPT ![w] = "next"] /\ current' = current
                  /\ \E q \in Ascending(P) : req' = [req EXCEPT ![w] = q]
                BY <1>6, <3>2 DEF VodCompletes
            <4> QED
                BY <4>1 DEF TypeOK, InPublish
        <3> QED
            BY <1>6, <3>1, <3>2 DEF VodCompletes
    <2> QED
        BY <1>6, <2>1, DeriveSafe DEF VodCompletes
<1>7. ASSUME NEW w \in Workers, NEW list, RequestPublish(w, list)
      PROVE  Safe'
    <2>1. \A u \in Workers :
            /\ at'[u] \in InPublish <=> at[u] \in InPublish
            /\ at[u] \in InPublish => at'[u] = at[u] /\ req'[u] = req[u] /\ current'[u] = current[u]
        BY <1>7 DEF RequestPublish, TypeOK, InPublish
    <2> QED
        BY <1>7, <2>1, StaysSafe DEF RequestPublish, segments
<1>8. ASSUME NEW w \in Workers, WorkerStep(w)
      PROVE  Safe'
    BY <1>8, WorkerSafe
<1>9. CASE DeleteSourceChecks
    <2>1. /\ UNCHANGED <<seg, out, muddled, abandoned, at, req, current>>
          /\ \A s \in SegIds : seg[s] \in {"absent", "published"}
        BY <1>9 DEF DeleteSourceChecks, segments, work, Rows
    <2>2. \A w \in Workers, s \in SegIds : Publishing(w, s)' <=> Publishing(w, s)
        BY <2>1 DEF Publishing
    <2>3. PublishingHasWorker' /\ PublishedHasOutput' /\ OwnedByOne'
        BY <2>1, <2>2 DEF Safe, PublishingHasWorker, PublishedHasOutput, OwnedByOne
    <2>4. SettledForDeletion'
        BY <2>1, <2>2 DEF Safe, PublishedHasOutput, OwnedByOne, SettledForDeletion
    <2> QED
        BY <2>3, <2>4 DEF Safe
<1>10. CASE DeleteSourceRemoves \/ DeleteSourceFails
    BY <1>10, StaysSafe DEF DeleteSourceRemoves, DeleteSourceFails, segments, work
<1>11. ASSUME NEW removed \in BOOLEAN, Restart(removed)
       PROVE  Safe'
    <2>1. /\ UNCHANGED <<seg, out, muddled>> /\ ~deleting'
          /\ abandoned' = {s \in SegIds : seg[s] = "publishing"}
          /\ \A w \in Workers : at'[w] = "idle"
        BY <1>11 DEF Restart, segments
    <2>2. \A w \in Workers, s \in SegIds : ~Publishing(w, s)'
        BY <2>1 DEF Publishing, InPublish
    <2> QED
        BY <2>1, <2>2
        DEF Safe, PublishingHasWorker, PublishedHasOutput, OwnedByOne, SettledForDeletion
<1>12. CASE UNCHANGED vars
    BY <1>12, StaysSafe DEF vars, segments, work
<1> QED
    BY <1>1, <1>2, <1>3, <1>4, <1>5, <1>6, <1>7, <1>8, <1>9, <1>10, <1>11, <1>12 DEF Next

-----------------------------------------------------------------------------
LEMMA InitIInv == Init => IInv
<1> SUFFICES ASSUME Init
             PROVE  IInv
    OBVIOUS
<1>1. RecordingTyped
    <2>1. issued \in 0..MaxRecordings /\ cuts \in 0..MaxCuts
        BY PublisherAssumption DEF Init
    <2>2. /\ rec \in {"absent", "open", "complete"}
          /\ downloading \in BOOLEAN /\ source \in BOOLEAN
          /\ sourceDeleted \in BOOLEAN /\ deleting \in BOOLEAN
        BY Zenon DEF Init
    <2> QED
        BY <2>1, <2>2 DEF RecordingTyped
<1>2. SegmentsTyped
    BY PublisherAssumption DEF Init, SegmentsTyped, Status
<1>3. WorkTyped
    BY DEF Init, WorkTyped, Phase
<1>4. PublishingHasWorker /\ PublishedHasOutput /\ OwnedByOne /\ SettledForDeletion
    BY DEF Init, PublishingHasWorker, PublishedHasOutput, OwnedByOne, SettledForDeletion
<1> QED
    BY <1>1, <1>2, <1>3, <1>4, TypeParts DEF IInv

LEMMA Inductive == Spec => []IInv
<1>1. IInv /\ [Next]_vars => IInv'
    BY TypeStep, SafeStep DEF IInv, Safe
<1> QED
    BY InitIInv, <1>1, PTL DEF Spec

\* Every row, request and phase keeps its type, whatever requests overlap.
THEOREM TypeCorrect == Spec => []TypeOK
<1>1. IInv => TypeOK
    BY DEF IInv
<1> QED
    BY Inductive, <1>1, PTL

\* A segment is left publishing only by a restart, or by a publish_failed that
\* cannot be written: no other way out of publish() forgets its status.
THEOREM PublishingIsAttended == Spec => []PublishingHasWorker
<1>1. IInv => PublishingHasWorker
    BY DEF IInv
<1> QED
    BY Inductive, <1>1, PTL

\* A segment that says published has its media file, unless two requests
\* published it at once or it was changed.
THEOREM PublishedIsWhole == Spec => []PublishedHasOutput
<1>1. IInv => PublishedHasOutput
    BY DEF IInv
<1> QED
    BY Inductive, <1>1, PTL

\* The source goes only when every segment has its media file, by any of the
\* ways it is removed: publish(), delete_source, or a crash in one of them.
THEOREM SourceIsLast == Spec => SourceGoesLast
<1> DEFINE Last == issued' = issued /\ source /\ ~source'
                   => \A s \in SegIds : seg[s] # "absent" => out[s] = "whole" \/ s \in muddled
<1>1. IInv /\ [Next]_vars => [Last]_vars
    <2> SUFFICES ASSUME IInv, Next, issued' = issued, source, ~source',
                        NEW s \in SegIds, seg[s] # "absent", s \notin muddled
                 PROVE  out[s] = "whole"
        BY DEF vars
    <2>1. deleting => out[s] = "whole"
        BY DEF IInv, SettledForDeletion
    <2>2. ASSUME NEW w \in Workers, at[w] = "scanning", AllPublished(Head(req[w]))
          PROVE  out[s] = "whole"
        <3>1. CASE s = Head(req[w])
            <4>1. Publishing(w, s)
                BY <2>2, <3>1 DEF Publishing, InPublish
            <4> QED
                BY <2>2, <4>1 DEF IInv, OwnedByOne
        <3>2. CASE s # Head(req[w])
            BY <2>2, <3>2 DEF AllPublished, Rows, IInv, PublishedHasOutput
        <3> QED
            BY <3>1, <3>2
    <2>3. \/ deleting
          \/ \E w \in Workers : at[w] = "scanning" /\ AllPublished(Head(req[w]))
        <3>1. CASE \E removed \in BOOLEAN : Restart(removed)
            BY <3>1 DEF Restart
        <3>2. CASE \E w \in Workers, del \in BOOLEAN :
                      \/ PublishEnds(w, del) \/ PublishRollsBack(w, del)
                      \/ PublishUnrecorded(w, del)
            BY <3>2 DEF PublishEnds, PublishRollsBack, PublishUnrecorded
        <3>3. CASE DeleteSourceRemoves
            BY <3>3 DEF DeleteSourceRemoves
        <3>4. CASE \E vod, file \in BOOLEAN : NewRecording(vod, file)
            <4>1. issued \in Nat
                BY PublisherAssumption DEF IInv, TypeOK
            <4> QED
                BY <3>4, <4>1 DEF NewRecording
        <3>5. CASE \/ DeleteStream \/ CreateSegment
                   \/ DeleteSourceChecks \/ DeleteSourceFails
                   \/ \E n \in 0..MaxEntries : Finalize(n)
                   \/ \E t \in SegIds : PatchSegment(t) \/ DeleteSegment(t)
            BY <3>5 DEF DeleteStream, CreateSegment, DeleteSourceChecks, DeleteSourceFails,
                        Finalize, PatchSegment, DeleteSegment, recording
        <3>6. CASE \E w \in Workers :
                      \/ \E n \in 0..MaxEntries, P \in SUBSET SegIds : VodCompletes(w, n, P)
                      \/ \E n \in 1..MaxBulk : \E list \in [1..n -> SegIds] :
                             RequestPublish(w, list)
                      \/ PublishRefused(w) \/ PublishBegins(w) \/ CutStarts(w) \/ CutEnds(w)
                      \/ CutBlocks(w) \/ ThumbnailDone(w) \/ PublishFails(w)
            BY <3>6 DEF VodCompletes, RequestPublish, PublishRefused, PublishBegins, CutStarts,
                        CutEnds, CutBlocks, ThumbnailDone, PublishFails, recording
        <3> QED
            BY <3>1, <3>2, <3>3, <3>4, <3>5, <3>6 DEF Next, WorkerStep
    <2> QED
        BY <2>1, <2>2, <2>3
<1> QED
    BY Inductive, <1>1, PTL DEF Spec, SourceGoesLast
=============================================================================
