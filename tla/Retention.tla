----------------------------- MODULE Retention -----------------------------
(***************************************************************************)
(* The pruner of the live buffer: the job of retention.py over the         *)
(* fragments of buffer.py, while yt-dlp children write to the same         *)
(* directories.  The job is one synchronous function, so no handler of the *)
(* event loop runs inside it; the children and the threads that serve the  *)
(* plain requests do, between any two of its file operations.              *)
(*                                                                         *)
(* A modification time is kept as an age: Ageing adds one to every age, a  *)
(* write sets it back to 0.  A retention period is an age that may not be  *)
(* exceeded; the interface lets it be any integer.                         *)
(***************************************************************************)
EXTENDS Integers, FiniteSetsExt, SequencesExt

CONSTANTS
  Streams,      \* the directories of the buffer
  Names,        \* fragment names: numbers, in the order of sorted()
  Denied,       \* names of fragments that the system does not let the job unlink
  Retentions,   \* the values a subscription's retention_days may take
  NoSub,        \* no WatchSubscription
  MaxAge,       \* bound: ages stop here
  MaxSize,      \* bound: largest fragment
  Capacity,     \* size of the file system
  Low, Target   \* LOW_FREE_THRESHOLD and TARGET_FREE_RATIO of it

ASSUME NamesAssumption == Names \subseteq Nat /\ IsFiniteSet(Names) /\ Denied \subseteq Names
ASSUME StreamsAssumption == Streams # {} /\ Retentions \subseteq Int /\ NoSub \notin Retentions
ASSUME BoundsAssumption == MaxAge \in Nat /\ MaxSize \in Nat \ {0}
ASSUME RatiosAssumption ==
  /\ {Low, Target, Capacity} \subseteq Nat
  /\ 0 < Low /\ Low < Target /\ Target <= Capacity

VARIABLES
  frag,     \* the fragments, by name
  subs,     \* retention_days of the stream's WatchSubscription, or NoSub
  auto,     \* Settings.auto_prune_when_full
  autoRead, \* its value when the job began
  pc,       \* where the job is: idle, age, list, free
  pairs,    \* the (stream, retention) pairs not yet pruned
  limit,    \* retention of the pair being pruned
  cut,      \* the listed fragments last written before its cutoff
  seen,     \* the age every listed fragment had when it was sorted
  todo,     \* the fragments the pass has still to look at
  free,     \* the pass's own count of free space
  deleted,  \* the fragments this free-space pass has deleted, oldest call first
  written   \* history: bytes the children wrote since the pass read the free space

job  == <<pc, autoRead, pairs, limit, seen, todo, free, deleted>>
conf == <<subs, auto>>
vars == <<frag, conf, job, cut, written>>

-----------------------------------------------------------------------------
Linked(f) == frag[f].at = "linked"
Expired(f) == Linked(f) /\ subs[frag[f].stream] # NoSub
                        /\ frag[f].age > subs[frag[f].stream]

\* A fragment unlinked while its writer has it open still takes its space.
TakenBy(g) == IF g.at = "linked" \/ g.open THEN g.size ELSE 0
FreeSpace == Capacity - SumFunction([f \in Names |-> TakenBy(frag[f])])

Gone == [at |-> "gone", stream |-> CHOOSE s \in Streams : TRUE,
         age |-> 0, size |-> 0, open |-> FALSE]
Unlinked(g) == IF g.open THEN [[g EXCEPT !.at = "gone"] EXCEPT !.age = 0] ELSE Gone
Unlink(f) == frag' = [frag EXCEPT ![f] = Unlinked(frag[f])]

Unborn(f) == frag[f].at = "unborn"
Blank == [Gone EXCEPT !.at = "unborn"]

Init ==
  /\ frag = [f \in Names |-> Blank]
  /\ subs \in [Streams -> Retentions \cup {NoSub}]
  /\ auto = FALSE
  /\ pc = "idle" /\ autoRead = FALSE /\ pairs = {} /\ limit = 0 /\ free = 0
  /\ seen = [f \in Names |-> 0] /\ todo = <<>> /\ deleted = <<>>
  /\ cut = {} /\ written = 0

-----------------------------------------------------------------------------
(***************************************************************************)
(* The children.                                                           *)
(***************************************************************************)

Adds(n) == written' = IF pc \in {"list", "free"} THEN written + n ELSE written

\* A child opens a new fragment; names carry the epoch and are not reused.
Opens(f, s) ==
  /\ Unborn(f) /\ FreeSpace > 0
  /\ frag' = [frag EXCEPT ![f] = [at |-> "linked", stream |-> s, age |-> 0,
                                  size |-> 1, open |-> TRUE]]
  /\ Adds(1)
  /\ UNCHANGED <<conf, job, cut>>

\* At the bound MaxSize a write only renews the modification time.  It is past
\* the cutoff of a pass, unless that lies in the future.
Written(g) ==
  [[g EXCEPT !.age = 0] EXCEPT !.size = IF g.size < MaxSize THEN g.size + 1 ELSE g.size]

Writes(f) ==
  /\ frag[f].open /\ FreeSpace > 0
  /\ frag' = [frag EXCEPT ![f] = Written(frag[f])]
  /\ cut' = IF limit < 0 THEN cut ELSE cut \ {f}
  /\ Adds(Written(frag[f]).size - frag[f].size)
  /\ UNCHANGED <<conf, job>>

Closes(f) ==
  /\ frag[f].open
  /\ frag' = [frag EXCEPT ![f] = IF Linked(f) THEN [@ EXCEPT !.open = FALSE]
                                              ELSE Gone]
  /\ UNCHANGED <<conf, job, cut, written>>

\* yt-dlp removes an intermediate file it has merged, or renames it away.
Vanishes(f) ==
  /\ Linked(f)
  /\ frag' = [frag EXCEPT ![f] = Gone]
  /\ UNCHANGED <<conf, job, cut, written>>

Ageing ==
  /\ \E f \in Names : Linked(f) /\ frag[f].age < MaxAge
  /\ frag' = [f \in Names |->
                IF Linked(f) /\ frag[f].age < MaxAge
                THEN [frag[f] EXCEPT !.age = @ + 1] ELSE frag[f]]
  /\ UNCHANGED <<conf, job, cut, written>>

-----------------------------------------------------------------------------
(***************************************************************************)
(* The settings the job reads.                                             *)
(***************************************************************************)

\* PATCH /streams/{id}/watch creates the subscription when there is none;
\* deleting the stream deletes it, and leaves the fragments.
SetRetention(s) ==
  /\ \E r \in Retentions \cup {NoSub} : subs' = [subs EXCEPT ![s] = r]
  /\ UNCHANGED <<frag, auto, job, cut, written>>

SetAuto ==
  /\ auto' = ~auto
  /\ UNCHANGED <<frag, subs, job, cut, written>>

-----------------------------------------------------------------------------
(***************************************************************************)
(* The job: the age pass of every subscription, then the free-space pass.  *)
(***************************************************************************)
Idle ==
  /\ pc' = "idle" /\ autoRead' = FALSE /\ pairs' = {} /\ limit' = 0 /\ free' = 0
  /\ seen' = [f \in Names |-> 0] /\ todo' = <<>> /\ deleted' = <<>>
  /\ cut' = {} /\ written' = 0

\* Mutant: the streams without a subscription are pruned as well.
PruneBeginsAll ==
  /\ pc = "idle"
  /\ autoRead' = auto
  /\ pc' = "age"
  /\ pairs' = {<<s, subs[s]>> : s \in Streams}
  /\ UNCHANGED <<frag, conf, limit, cut, seen, todo, free, deleted, written>>

\* The interval job fires; the subscriptions and the setting are read once.
PruneBegins ==
  /\ pc = "idle"
  /\ autoRead' = auto
  /\ pc' = "age"
  /\ pairs' = {<<s, subs[s]>> : s \in {t \in Streams : subs[t] # NoSub}}
  /\ UNCHANGED <<frag, conf, limit, cut, seen, todo, free, deleted, written>>

\* prune_older_than: the cutoff, and the fragments of the stream, sorted by name.
TakePair ==
  /\ pc = "age" /\ todo = <<>>
  /\ \E p \in pairs :
       /\ pairs' = pairs \ {p}
       /\ limit' = p[2]
       /\ cut' = {f \in Names : Linked(f) /\ frag[f].stream = p[1] /\ frag[f].age > p[2]}
       /\ \E s \in SetToSeqs({f \in Names : Linked(f) /\ frag[f].stream = p[1]}) :
            IsSorted(s, <) /\ todo' = s
  /\ UNCHANGED <<frag, conf, pc, autoRead, seen, free, deleted, written>>

\* stat() of a fragment that has vanished raises out of the whole job, and so
\* does the unlink() of one that the system does not let go.
Raises(f) == ~Linked(f) \/ (f \in cut /\ f \in Denied)

\* Mutant: the loop takes the list for one sorted by age and stops at the first
\* fragment that is young enough.
AgeFileBreaks ==
  /\ pc = "age" /\ todo # <<>>
  /\ LET f == Head(todo) IN
       \/ Raises(f) /\ Idle /\ UNCHANGED frag
       \/ /\ ~Raises(f)
          /\ IF f \in cut
             THEN Unlink(f) /\ todo' = Tail(todo)
             ELSE UNCHANGED frag /\ todo' = <<>>
          /\ cut' = cut \ {f}
          /\ UNCHANGED <<pc, autoRead, pairs, limit, seen, free, deleted, written>>
  /\ UNCHANGED conf

\* One turn of the loop of prune_older_than.
AgeFile ==
  /\ pc = "age" /\ todo # <<>>
  /\ LET f == Head(todo) IN
       \/ Raises(f) /\ Idle /\ UNCHANGED frag
       \/ /\ ~Raises(f)
          /\ IF f \in cut THEN Unlink(f) ELSE UNCHANGED frag
          /\ todo' = Tail(todo) /\ cut' = cut \ {f}
          /\ UNCHANGED <<pc, autoRead, pairs, limit, seen, free, deleted, written>>
  /\ UNCHANGED conf

\* free_space_ratio, then disk_usage and the directory listing of
\* list_all_fragments.
FreeChecks ==
  /\ pc = "age" /\ todo = <<>> /\ pairs = {}
  /\ IF autoRead /\ FreeSpace < Low
     THEN /\ pc' = "list" /\ free' = FreeSpace
          /\ todo' = SetToSeq({f \in Names : Linked(f)})
          /\ UNCHANGED <<autoRead, pairs, limit, cut, seen, deleted, written>>
     ELSE Idle
  /\ UNCHANGED <<frag, conf>>

\* Mutant: every directory is sorted, not the whole list.
ByAgePerStream(s) ==
  \A i, j \in DOMAIN s :
    (i < j /\ frag[s[i]].stream = frag[s[j]].stream) => frag[s[i]].age >= frag[s[j]].age

ByAge(s) == \A i, j \in DOMAIN s : i < j => frag[s[i]].age >= frag[s[j]].age

\* The sort's stat() raises when a listed fragment has vanished; fragments of
\* one age come in the order of the directory, which is arbitrary.
FreeSorts ==
  /\ pc = "list"
  /\ \/ (\E f \in ToSet(todo) : ~Linked(f)) /\ Idle
     \/ /\ \A f \in ToSet(todo) : Linked(f)
        /\ \E s \in SetToSeqs(ToSet(todo)) : ByAge(s) /\ todo' = s
        /\ seen' = [f \in Names |-> IF Linked(f) THEN frag[f].age ELSE 0]
        /\ pc' = "free"
        /\ UNCHANGED <<autoRead, pairs, limit, cut, free, deleted, written>>
  /\ UNCHANGED <<frag, conf>>

Enough == free >= Target

\* Mutant: the size is counted before the unlink, which may raise.
FreeFileCountsFirst ==
  /\ pc = "free" /\ todo # <<>> /\ ~Enough
  /\ LET f == Head(todo) IN
       \/ ~Linked(f) /\ UNCHANGED <<frag, free, deleted>>
       \/ /\ Linked(f)
          /\ IF f \in Denied THEN UNCHANGED frag ELSE Unlink(f)
          /\ free' = free + frag[f].size
          /\ deleted' = Append(deleted, [name |-> f, size |-> frag[f].size])
  /\ todo' = Tail(todo)
  /\ UNCHANGED <<conf, pc, autoRead, pairs, limit, cut, seen, written>>

\* One turn of the loop of prune_oldest_until_free; a fragment that has vanished
\* or cannot be unlinked is skipped.
FreeFile ==
  /\ pc = "free" /\ todo # <<>> /\ ~Enough
  /\ LET f == Head(todo) IN
       \/ (~Linked(f) \/ f \in Denied) /\ UNCHANGED <<frag, free, deleted>>
       \/ /\ Linked(f) /\ f \notin Denied /\ Unlink(f)
          /\ free' = free + frag[f].size
          /\ deleted' = Append(deleted, [name |-> f, size |-> frag[f].size])
  /\ todo' = Tail(todo)
  /\ UNCHANGED <<conf, pc, autoRead, pairs, limit, cut, seen, written>>

FreeEnds ==
  /\ pc = "free" /\ (todo = <<>> \/ Enough)
  /\ Idle
  /\ UNCHANGED <<frag, conf>>

Prune == PruneBegins \/ TakePair \/ AgeFile \/ FreeChecks \/ FreeSorts
           \/ FreeFile \/ FreeEnds

Next ==
  \/ \E f \in Names, s \in Streams : Opens(f, s)
  \/ \E f \in Names : Writes(f) \/ Closes(f) \/ Vanishes(f)
  \/ Ageing
  \/ \E s \in Streams : SetRetention(s)
  \/ SetAuto
  \/ Prune

Spec == Init /\ [][Next]_vars

\* The scheduler fires the job again and again, and the job, which waits for
\* nothing, goes on.
FairSpec == Spec /\ WF_vars(Prune)

-----------------------------------------------------------------------------
TypeOK ==
  /\ frag \in [Names -> [at : {"unborn", "linked", "gone"}, stream : Streams,
                         age : 0..MaxAge, size : 0..MaxSize, open : BOOLEAN]]
  /\ FreeSpace \in 0..Capacity
  /\ subs \in [Streams -> Retentions \cup {NoSub}]
  /\ {auto, autoRead} \subseteq BOOLEAN
  /\ pc \in {"idle", "age", "list", "free"}
  /\ pairs \subseteq Streams \X Retentions
  /\ todo \in Seq(Names) /\ IsInjective(todo)
  /\ free \in 0..(Target + MaxSize)
  /\ cut \subseteq Names
  /\ written \in Nat

\* The free-space pass takes the oldest fragments of all streams: whatever was
\* in its list and is still in the buffer was, at the time of the listing, no
\* older than anything it has deleted.
OldestFirst ==
  \A i \in DOMAIN deleted :
    \A g \in ToSet(todo) : seen[deleted[i].name] >= seen[g]

\* The free-space pass deletes no more than it needs: before its last deletion
\* the free space it counted was still below the target.
NoMoreThanNeeded ==
  deleted # <<>> => free - Last(deleted).size < Target

\* The free-space pass counts nothing as free that is still in the buffer: its
\* count is at most what the fragments in the directories leave of the file
\* system, what children have written since it read the free space apart.  (A
\* fragment unlinked while a child has it open is counted and frees nothing.)
Visible == SumFunction([f \in Names |-> IF Linked(f) THEN frag[f].size ELSE 0])
CountedIsGone ==
  pc \in {"list", "free"} => free <= Capacity - Visible + written

\* Expired fragments of a watched stream go: whatever the order of the names,
\* whatever vanishes during a pass, a fragment older than its subscription's
\* period leaves the buffer, unless it is written to again or the period is
\* changed or lifted, or a pass finds an expired fragment that the system does
\* not let go, which ends the pass.
ExpiredGo == \A f \in Names : Expired(f) ~> ~Expired(f) \/ cut \cap Denied # {}
=============================================================================
