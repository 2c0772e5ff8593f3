---------------------------- MODULE SetlistInputs ----------------------------
(***************************************************************************)
(* The functions of Setlists over all inputs of some length: a behaviour   *)
(* picks the function to look at and lets its inputs grow, one element a   *)
(* step; each property compares the function with a definition of its own. *)
(* For the drafts it is a behaviour of one recording: its setlist is       *)
(* replaced, it is completed, with the chapters that yt-dlp has left or    *)
(* without, and a download may open it again.  Segments that are made,     *)
(* edited or deleted by hand are in Publisher.                             *)
(***************************************************************************)
EXTENDS Setlists, FiniteSets

CONSTANTS
  Lines,          \* lines of a description
  Comments,       \* comments of a video
  Chapters,       \* chapters of a recording
  Pasted,         \* lines of a pasted setlist
  Entries,        \* entries of a setlist that is sent as a list
  Durations,      \* lengths of a video
  MaxLines, MaxComments,   \* bounds on the texts and the comments
  MaxChapters     \* bound on chapters, and on the songs of a setlist

Stamp == [h : Nat, m : Nat, s : Nat \cup {Absent}]
Line == [h : Nat, m : Nat, s : Nat \cup {Absent}, form : {"plain", "marked", "dots", "prose"}]

ASSUME InputsAssumption ==
  /\ Lines \subseteq Line
  /\ Comments \subseteq [pinned : BOOLEAN, likes : Nat, text : Seq(Line)]
  /\ Chapters \subseteq [start : Nat \cup {Absent}, end : Nat \cup {Absent}, titled : BOOLEAN]
  /\ Pasted \subseteq [form : {"artist"}, from : Stamp, to : Stamp]
                       \cup [form : {"remark", "unreadable"}]
  /\ Entries \subseteq [form : {"entry"}, start : Int, end : Int]
  /\ Durations \subseteq Nat

VARIABLES
  kind,     \* "text", "comments" or "drafts"
  input,    \* the lines or the comments
  chapters, \* Recording.raw_chapters_json
  posted,   \* the last setlist that was posted and saved, as it was sent
  rows,     \* the setlist rows of the recording
  complete, \* Recording.status is complete
  drafts,   \* its segments
  basis     \* history: the chapters and the setlist it had when it was last
            \* completed without segments

recording == <<chapters, posted, rows, complete, drafts, basis>>
vars == <<kind, input, recording>>

Init ==
  /\ kind \in {"text", "comments", "drafts"}
  /\ input = <<>> /\ chapters = <<>> /\ posted = <<>> /\ rows = <<>>
  /\ complete = FALSE /\ drafts = <<>>
  /\ basis = [chapters |-> <<>>, posted |-> <<>>]

Grow(k, bound, elements) ==
  /\ kind = k /\ Len(input) < bound
  /\ \E e \in elements : input' = Append(input, e)
  /\ UNCHANGED <<kind, recording>>

PostSetlistPaste ==
  /\ kind = "drafts"
  /\ \E lines \in BoundedSeq(Pasted, MaxChapters) :
       /\ rows' = PostPaste(rows, lines)
       /\ posted' = IF \A i \in DOMAIN lines : lines[i].form # "unreadable"
                    THEN lines ELSE posted
  /\ UNCHANGED <<kind, input, chapters, complete, drafts, basis>>

PostSetlist ==
  /\ kind = "drafts"
  /\ \E entries \in BoundedSeq(Entries, MaxChapters) :
       rows' = Stored(entries) /\ posted' = entries
  /\ UNCHANGED <<kind, input, chapters, complete, drafts, basis>>

\* finalize_recording saves the chapters of the info file when there are any;
\* the download worker and the runner of a schedule read none.
Completes ==
  /\ kind = "drafts"
  /\ \E c \in BoundedSeq(Chapters, MaxChapters) :
       LET now == IF c = <<>> THEN chapters ELSE c IN
         /\ chapters' = now
         /\ complete' = TRUE
         /\ drafts' = AutoSegment(complete, drafts, now, rows)
         /\ basis' = IF complete \/ drafts # <<>> THEN basis
                     ELSE [chapters |-> now, posted |-> posted]
  /\ UNCHANGED <<kind, input, posted, rows>>

\* A worker takes the queued entry of a recording that was finalized meanwhile.
TakenByWorker ==
  /\ kind = "drafts" /\ complete
  /\ complete' = FALSE
  /\ UNCHANGED <<kind, input, chapters, posted, rows, drafts, basis>>

Next ==
  \/ Grow("text", MaxLines, Lines)
  \/ Grow("comments", MaxComments, Comments)
  \/ PostSetlistPaste
  \/ PostSetlist
  \/ Completes
  \/ TakenByWorker

Spec == Init /\ [][Next]_vars

-----------------------------------------------------------------------------
Rising(s, i, j) == \A k \in i..(j - 1) : s[k] <= s[k + 1]

Runs(e) == {r \in (DOMAIN e) \X (DOMAIN e) : r[1] <= r[2] /\ Rising(e, r[1], r[2])}

\* The run r is longer than q, or as long and not later.
Beats(r, q) ==
  \/ q[2] - q[1] < r[2] - r[1]
  \/ q[2] - q[1] = r[2] - r[1] /\ r[1] <= q[1]

\* The detector keeps the longest run of entries whose times do not fall, and
\* the first of them when there are several (_longest_contiguous_block).
BlockIsLongest ==
  kind = "text" =>
    LET e == ExtractEntries(input)
        b == LongestBlock(e)
    IN IF e = <<>> THEN b = <<>>
       ELSE \E r \in Runs(e) : /\ b = SubSeq(e, r[1], r[2])
                              /\ \A q \in Runs(e) : Beats(r, q)

\* The drafts of the review page are all accepted exactly when the times of
\* the text rise strictly and stay below the duration: a list the detector has
\* accepted, with two songs at one time, is refused when it is saved.
SavedIffStrictlyRising ==
  kind = "text" =>
    \A duration \in Durations :
      LET d == ReviewDrafts(input, duration) IN
        (\A i \in DOMAIN d : Accepted(d[i]))
          <=> /\ \A i \in DOMAIN d : i > 1 => d[i - 1].start < d[i].start
              /\ d # <<>> => Last(d).start < duration

\* Pinned comments come first, in their order, then the others by falling
\* likes, in their order among equals.
Ahead(c, i, j) ==
  \/ c[i].pinned /\ (~c[j].pinned \/ i < j)
  \/ ~c[i].pinned /\ ~c[j].pinned /\ (\/ c[i].likes > c[j].likes
                                      \/ c[i].likes = c[j].likes /\ i < j)

\* The setlist of the comments is that of the first comment that holds one,
\* counted in that order and among the first TopComments only
\* (detect_in_comments).
BestComment ==
  kind = "comments" =>
    LET Rank(i) == Cardinality({j \in DOMAIN input : Ahead(input, j, i)})
        usable == {i \in DOMAIN input : DetectInText(input[i].text) # <<>>
                                          /\ Rank(i) < TopComments}
        found == DetectInComments(input)
    IN IF usable = {} THEN found = <<>>
       ELSE \E i \in usable : /\ \A j \in usable : Rank(i) <= Rank(j)
                              /\ found = DetectInText(input[i].text)

\* The drafts of a recording come from one source, at one time.  They are those
\* of the moment it was completed without segments, and no later setlist,
\* chapters or completion changes them.  With chapters they are the usable
\* ones and nothing else, each ending after it starts.  Without, there is one
\* for every song of the setlist saved last, pasted or sent as a list, in the
\* order of the starts, one that ends before it starts included
\* (_replace_entries, parse_setlist_paste, _before_flush,
\* derive_draft_segments_no_flush).
Songs(s) == {i \in DOMAIN s : s[i].form \in {"artist", "entry"}}
Given(l) == IF l.form = "entry" THEN [start |-> l.start, end |-> l.end] ELSE Span(l)

FromTheChapters(d, c) ==
  /\ \A i \in DOMAIN d : d[i].end > d[i].start
  /\ Len(d) = Cardinality({i \in DOMAIN c : /\ c[i].titled /\ c[i].end # Absent
                                            /\ c[i].start < c[i].end /\ c[i].end > 0})

FromTheSetlist(d, s) ==
  /\ \A i, j \in DOMAIN d : i < j => d[i].start <= d[j].start
  /\ Len(d) = Cardinality(Songs(s))
  /\ \A i \in Songs(s) :
       Cardinality({k \in DOMAIN d : d[k] = Given(s[i])})
         = Cardinality({k \in Songs(s) : Given(s[k]) = Given(s[i])})

DraftsFromOneSource ==
  IF basis.chapters # <<>> THEN FromTheChapters(drafts, basis.chapters)
                           ELSE FromTheSetlist(drafts, basis.posted)
=============================================================================
