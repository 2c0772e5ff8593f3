------------------------------ MODULE Setlists ------------------------------
(***************************************************************************)
(* The pure functions that turn text into song lists and song lists into   *)
(* draft segments: setlist_detector.py, setlist_parser.py, segmenter.py    *)
(* and the parser of the post-download review page.                        *)
(*                                                                         *)
(* A text is a sequence of lines.  A line is reduced to the numbers of its *)
(* timestamp and to its form, which is all that the four regular           *)
(* expressions tell apart:                                                 *)
(*   "plain"    0:00 Song       read by the detector and by the page       *)
(*   "marked"   [0:00] Song     read by the detector only                  *)
(*   "dots"     0:00 ...        read by the page only: the detector strips *)
(*                              the title to nothing                       *)
(*   "prose"    anything else                                              *)
(***************************************************************************)
EXTENDS Integers, SequencesExt

CONSTANT TopComments   \* the candidates detect_in_comments looks at: 20

ASSUME TopCommentsAssumption == TopComments \in Nat \ {0}

Absent == -1           \* no seconds in the timestamp, no time, no detection

-----------------------------------------------------------------------------
(***************************************************************************)
(* Lists: what a loop or a comprehension keeps of one, and a stable sort.  *)
(***************************************************************************)

\* The positions S by rising key, the earlier position first among equals.
Order(S, key) ==
  CHOOSE p \in SetToSeqs(S) :
    IsSorted(p, LAMBDA i, j : key[i] < key[j] \/ (key[i] = key[j] /\ i < j))

Arranged(s, S, key) ==
  LET p == Order(S, key) IN [k \in DOMAIN p |-> s[p[k]]]

\* What the list has at the positions S, in its own order.
Picked(s, S) == Arranged(s, S, [i \in S |-> i])

StableSort(s, key) == Arranged(s, DOMAIN s, key)

-----------------------------------------------------------------------------
(***************************************************************************)
(* setlist_detector.py                                                     *)
(***************************************************************************)

\* _ts_to_seconds: two numbers are minutes and seconds, three hours too.
Seconds(l) ==
  IF l.m >= 60 \/ l.s >= 60 THEN Absent
  ELSE IF l.s = Absent THEN l.h * 60 + l.m
  ELSE l.h * 3600 + l.m * 60 + l.s

\* _extract_entries, as the start times of the entries.
ExtractEntries(text) ==
  LET read == Picked(text, {i \in DOMAIN text : /\ text[i].form \in {"plain", "marked"}
                                                /\ Seconds(text[i]) # Absent})
  IN [i \in DOMAIN read |-> Seconds(read[i])]

\* Mutant: of two blocks of one length the later is kept.
LongerOrLater(current, best) ==
  IF Len(current) >= Len(best) THEN current ELSE best

Longer(current, best) == IF Len(current) > Len(best) THEN current ELSE best

\* One turn of the loop of _longest_contiguous_block.
Turn(acc, e) ==
  IF e >= Last(acc.current)
  THEN [acc EXCEPT !.current = Append(@, e)]
  ELSE [best |-> Longer(acc.current, acc.best), current |-> <<e>>]

LongestBlock(entries) ==
  IF entries = <<>> THEN <<>>
  ELSE LET end == FoldLeft(Turn, [best |-> <<>>, current |-> <<Head(entries)>>], Tail(entries))
       IN Longer(end.current, end.best)

\* detect_in_description: a block of one entry is no setlist.
DetectInText(text) ==
  LET block == LongestBlock(ExtractEntries(text))
  IN IF Len(block) < 2 THEN <<>> ELSE block

\* Mutant: the least liked come first.
RisingLikes(comments) == [i \in DOMAIN comments |-> comments[i].likes]

\* The key of the sort in detect_in_comments.
LikesKey(comments) == [i \in DOMAIN comments |-> -comments[i].likes]

Candidates(comments) ==
  LET pinned == {i \in DOMAIN comments : comments[i].pinned}
      unpinned == Picked(comments, DOMAIN comments \ pinned)
      all == Picked(comments, pinned) \o StableSort(unpinned, LikesKey(unpinned))
  IN SubSeq(all, 1, IF Len(all) < TopComments THEN Len(all) ELSE TopComments)

\* detect_in_comments: the first candidate with a block of two.
DetectInComments(comments) ==
  LET top == Candidates(comments)
      usable == {i \in DOMAIN top : DetectInText(top[i].text) # <<>>}
  IN IF usable = {} THEN <<>> ELSE DetectInText(top[Min(usable)].text)

-----------------------------------------------------------------------------
(***************************************************************************)
(* The review page reads the stored text again, with its own expression    *)
(* and without the detector's choice of a block; a draft ends where the    *)
(* next one starts, the last one where the video does.  create_segment     *)
(* refuses a draft that does not end after its start.                      *)
(***************************************************************************)
TimecodeToSeconds(l) ==
  IF l.s = Absent THEN l.h * 60 + l.m ELSE l.h * 3600 + l.m * 60 + l.s

\* Mutant: a draft ends a second before the next one starts.
ReviewDraftsWithGap(text, duration) ==
  LET read == Picked(text, {i \in DOMAIN text : text[i].form \in {"plain", "dots"}})
  IN [i \in DOMAIN read |->
       [start |-> TimecodeToSeconds(read[i]),
        end   |-> IF i < Len(read) THEN TimecodeToSeconds(read[i + 1]) - 1
                                   ELSE duration]]

\* parseSetlistText
ReviewDrafts(text, duration) ==
  LET read == Picked(text, {i \in DOMAIN text : text[i].form \in {"plain", "dots"}})
  IN [i \in DOMAIN read |->
       [start |-> TimecodeToSeconds(read[i]),
        end   |-> IF i < Len(read) THEN TimecodeToSeconds(read[i + 1])
                                   ELSE duration]]

\* create_segment
Accepted(draft) == draft.end > draft.start

-----------------------------------------------------------------------------
(***************************************************************************)
(* setlist_parser.py: a pasted line is an artist with two times, a remark  *)
(* or a blank, or cannot be read; then nothing is replaced.                *)
(***************************************************************************)
Span(l) == [start |-> TimecodeToSeconds(l.from), end |-> TimecodeToSeconds(l.to)]

\* parse_setlist_paste; ok is FALSE where it raises ParseError.
ParsePaste(lines) ==
  LET kept == Picked(lines, {i \in DOMAIN lines : lines[i].form # "remark"})
  IN IF \E i \in DOMAIN kept : kept[i].form = "unreadable"
     THEN [ok |-> FALSE, rows |-> <<>>]
     ELSE [ok |-> TRUE, rows |-> [i \in DOMAIN kept |-> Span(kept[i])]]

\* post_setlist_paste: the rows of the recording after a paste.
PostPaste(rows, lines) ==
  IF ParsePaste(lines).ok THEN ParsePaste(lines).rows ELSE rows

\* post_setlist: the entries are saved as they are, whatever their times.
Stored(entries) == [i \in DOMAIN entries |-> [start |-> entries[i].start, end |-> entries[i].end]]

-----------------------------------------------------------------------------
(***************************************************************************)
(* segmenter.py: drafts from the chapters if there are any, otherwise from *)
(* the setlist rows in the order of their starts.  Only the drafts made of *)
(* chapters are tested for a title and for an end after the start.         *)
(***************************************************************************)
OrZero(n) == IF n = Absent THEN 0 ELSE n
ChapterSpan(c) == [start |-> OrZero(c.start), end |-> OrZero(c.end)]

FromChapters(chapters) ==
  LET kept == Picked(chapters, {i \in DOMAIN chapters :
                                  /\ chapters[i].titled
                                  /\ ChapterSpan(chapters[i]).end > ChapterSpan(chapters[i]).start})
  IN [k \in DOMAIN kept |-> ChapterSpan(kept[k])]

\* ORDER BY start_s; of equal starts the row that was saved first goes first.
FromSetlist(rows) == StableSort(rows, [i \in DOMAIN rows |-> rows[i].start])

DeriveDrafts(chapters, rows) ==
  IF chapters # <<>> THEN FromChapters(chapters) ELSE FromSetlist(rows)

\* Mutant: every change of the status to complete derives, whatever is there.
AutoSegmentAgain(complete, drafts, chapters, rows) ==
  IF complete THEN drafts ELSE drafts \o DeriveDrafts(chapters, rows)

\* auto_segment.py: when the status of a recording changes to complete, one
\* that has no segments gets its drafts.
AutoSegment(complete, drafts, chapters, rows) ==
  IF complete \/ drafts # <<>> THEN drafts ELSE DeriveDrafts(chapters, rows)
=============================================================================
