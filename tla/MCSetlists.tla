----------------------------- MODULE MCSetlists -----------------------------
(***************************************************************************)
(* Inputs for SetlistInputs: a line for every case of the expressions and  *)
(* of the conversion, comments that tie and that do not, chapters that can *)
(* be used and that cannot, pastes that can be read and that cannot, and   *)
(* entries of a list that no paste can hold.                               *)
(***************************************************************************)
EXTENDS SetlistInputs

StampOf(h, m, s) == [h |-> h, m |-> m, s |-> s]
LineOf(h, m, s, form) == [h |-> h, m |-> m, s |-> s, form |-> form]

MCLines ==
  {LineOf(0, 1, Absent, "plain"), LineOf(0, 2, Absent, "plain"), LineOf(1, 0, 0, "plain"),
   LineOf(1, 0, Absent, "plain"), LineOf(0, 1, Absent, "marked"), LineOf(0, 1, Absent, "dots"),
   LineOf(0, 75, Absent, "plain"), LineOf(0, 0, 0, "prose")}

\* Texts of comments: two setlists, and one whose times fall.
Texts ==
  {<<LineOf(0, 1, Absent, "plain"), LineOf(0, 2, Absent, "plain")>>,
   <<LineOf(0, 1, Absent, "plain"), LineOf(1, 0, Absent, "marked")>>,
   <<LineOf(0, 2, Absent, "plain"), LineOf(0, 1, Absent, "plain")>>}

MCComments == [pinned : BOOLEAN, likes : 0..2, text : Texts]
MCChapters ==
  {[start |-> Absent, end |-> 5, titled |-> TRUE], [start |-> 5, end |-> 9, titled |-> TRUE],
   [start |-> 0, end |-> Absent, titled |-> TRUE], [start |-> 0, end |-> 9, titled |-> FALSE]}
MCPasted ==
  {[form |-> "artist", from |-> StampOf(0, 5, Absent), to |-> StampOf(0, 9, Absent)],
   [form |-> "artist", from |-> StampOf(1, 0, 0), to |-> StampOf(0, 9, Absent)],
   [form |-> "remark"], [form |-> "unreadable"]}
MCEntries ==
  {[form |-> "entry", start |-> 5, end |-> 9], [form |-> "entry", start |-> -1, end |-> -2]}
=============================================================================
