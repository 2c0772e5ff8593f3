---------------------------- MODULE BacklogCache ----------------------------
(***************************************************************************)
(* The backlog cache of one watcher id (backlog_cache.py) and the requests *)
(* that fill, cancel and read it (api/channel_watchers.py).                *)
(*                                                                         *)
(* A refresh is an asyncio task.  A fast one lists the channel; a slow one *)
(* also asks for the counts of each video, in batches.  The code of a task *)
(* between two awaits is one action: the await of the listing, and the     *)
(* gather of a batch.  Between create_task and its first step a task is    *)
(* only "created", and other requests may run.                             *)
(*                                                                         *)
(* The cache row has a foreign key to the watcher but no relationship, and *)
(* foreign keys are not enforced: deleting a watcher leaves the row, and   *)
(* the next watcher may be given the id.  No code deletes the row, so the  *)
(* tests `cache is None` after the first session never succeed.            *)
(***************************************************************************)
EXTENDS Integers, FiniteSets

CONSTANTS
    Tasks,          \* refresh tasks that may exist at once
    Videos,         \* the videos a channel may list
    BatchSize,      \* BATCH_SIZE
    MaxChannels,    \* bound: how many watchers get the id, one after another
    MaxCuts         \* bound: how often the application goes down or a session raises

ASSUME BacklogAssumption ==
    /\ IsFiniteSet(Videos)
    /\ BatchSize \in Nat \ {0}
    /\ MaxChannels \in Nat
    /\ MaxCuts \in Nat

NoWatcher == 0

VARIABLES
    watcher,        \* the channel the watcher of this id is for, or NoWatcher
    issued,         \* history: channels subscribed under this id so far
    status,         \* ChannelBacklogCache.status, "absent" when there is no row
    items,          \* items_json: each video unlisted, or listed with or without counts
    fresh,          \* fetched_at is set and less than CACHE_TTL_HOURS ago
    cancelFlag,     \* the id is in _cancel_requests
    pc, kind,       \* each task: where it is, and whether it is fast or slow
    batch, left,    \* each slow task: the videos being probed, and those after them
    seen,           \* each slow task: view_counts and like_counts
    abandoned,      \* history: a refresh was cut short, by a restart or a session that raised
    alone,          \* history: the task that never ran beside another one, if any
    cuts            \* history: how often the application went down or a session raised

row == <<status, items, fresh>>
tasks == <<pc, kind, batch, left, seen>>
vars == <<watcher, issued, row, cancelFlag, tasks, abandoned, alone, cuts>>

RowStatus == {"absent", "fetching", "complete", "error", "cancelled"}
Item == {"unlisted", "bare", "counted"}
Found == {"unasked", "missing", "counted"}

TypeOK ==
    /\ watcher \in NoWatcher..MaxChannels
    /\ issued \in 0..MaxChannels
    /\ status \in RowStatus
    /\ items \in [Videos -> Item]
    /\ fresh \in BOOLEAN
    /\ cancelFlag \in BOOLEAN
    /\ pc \in [Tasks -> {"idle", "created", "listing", "probing"}]
    /\ kind \in [Tasks -> {"fast", "slow"}]
    /\ batch \in [Tasks -> SUBSET Videos]
    /\ left \in [Tasks -> SUBSET Videos]
    /\ seen \in [Tasks -> [Videos -> Found]]
    /\ abandoned \in BOOLEAN
    /\ alone \subseteq Tasks
    /\ cuts \in 0..MaxCuts

NothingSeen == [v \in Videos |-> "unasked"]

Active(t) == pc[t] \in {"listing", "probing"}
Counted(list) == {v \in Videos : list[v] = "counted"}
Bare(list) == {v \in Videos : list[v] = "bare"}

\* is_stale
Stale == status # "complete" \/ ~fresh

-----------------------------------------------------------------------------
(***************************************************************************)
(* The requests.                                                           *)
(***************************************************************************)

\* Mutant: the task is started with the status already written, but not run.
CreateTaskFetching(t, k) ==
    /\ pc[t] = "idle"
    /\ pc' = [pc EXCEPT ![t] = "created"]
    /\ kind' = [kind EXCEPT ![t] = k]
    /\ status' = "fetching"
    /\ UNCHANGED <<watcher, issued, items, fresh, cancelFlag, batch, left, seen, abandoned, alone, cuts>>

CreateTask(t, k) ==
    /\ pc[t] = "idle"
    /\ pc' = [pc EXCEPT ![t] = "created"]
    /\ kind' = [kind EXCEPT ![t] = k]
    /\ UNCHANGED <<watcher, issued, row, cancelFlag, batch, left, seen, abandoned, alone, cuts>>

RefreshBacklog(t, k) ==
    /\ watcher # NoWatcher
    /\ status # "fetching"
    /\ CreateTask(t, k)

\* get_watcher_backlog refreshes by itself when the cache is stale.
GetBacklog(t) ==
    /\ watcher # NoWatcher
    /\ Stale /\ status # "fetching"
    /\ CreateTask(t, "fast")

CancelRefresh ==
    /\ watcher # NoWatcher
    /\ cancelFlag' = TRUE
    /\ UNCHANGED <<watcher, issued, row, tasks, abandoned, alone, cuts>>

CreateWatcher ==
    /\ watcher = NoWatcher
    /\ issued < MaxChannels
    /\ issued' = issued + 1
    /\ watcher' = issued + 1
    /\ UNCHANGED <<row, cancelFlag, tasks, abandoned, alone, cuts>>

DeleteWatcher ==
    /\ watcher # NoWatcher
    /\ watcher' = NoWatcher
    /\ UNCHANGED <<issued, row, cancelFlag, tasks, abandoned, alone, cuts>>

\* The snapshot passes the age of CACHE_TTL_HOURS.
Expire ==
    /\ fresh
    /\ fresh' = FALSE
    /\ UNCHANGED <<watcher, issued, status, items, cancelFlag, tasks, abandoned, alone, cuts>>

-----------------------------------------------------------------------------
(***************************************************************************)
(* The slow refresh, from the top of its loop.                             *)
(***************************************************************************)

EndTask(t) ==
    /\ pc' = [pc EXCEPT ![t] = "idle"]
    /\ kind' = [kind EXCEPT ![t] = "fast"]
    /\ batch' = [batch EXCEPT ![t] = {}]
    /\ left' = [left EXCEPT ![t] = {}]
    /\ seen' = [seen EXCEPT ![t] = NothingSeen]

\* A task that becomes active beside another one is not alone, nor is the other.
NowActive(t) ==
    LET beside == {u \in Tasks \ {t} : Active(u)}
    IN  alone' = IF beside = {} THEN {t} ELSE {}

Batches(S) ==
    {B \in SUBSET S : Cardinality(B) = BatchSize \/ (Cardinality(S) < BatchSize /\ B = S)}

\* The id is in _cancel_requests or no longer is.
ConsumeCancel ==
    /\ cancelFlag
    /\ cancelFlag' = FALSE

\* Mutant: the batch is asked for without looking at the flag.
ProbeBatchUnasked(t, todo, st, found) ==
    /\ status' = st
    /\ pc' = [pc EXCEPT ![t] = "probing"]
    /\ \E B \in Batches(todo) :
        /\ batch' = [batch EXCEPT ![t] = B]
        /\ left' = [left EXCEPT ![t] = todo \ B]
    /\ seen' = [seen EXCEPT ![t] = found]
    /\ UNCHANGED <<kind, cancelFlag>>

\* Mutant: the next batch starts one video too far.
ProbeBatchSkips(t, todo, st, found) ==
    /\ ~cancelFlag
    /\ status' = st
    /\ pc' = [pc EXCEPT ![t] = "probing"]
    /\ \E B \in Batches(todo) : \E v \in todo :
        /\ batch' = [batch EXCEPT ![t] = B]
        /\ left' = [left EXCEPT ![t] = todo \ (B \cup {v})]
    /\ seen' = [seen EXCEPT ![t] = found]
    /\ UNCHANGED <<kind, cancelFlag>>

\* The next batch out of todo is asked for.
ProbeBatch(t, todo, st, found) ==
    /\ ~cancelFlag
    /\ status' = st
    /\ pc' = [pc EXCEPT ![t] = "probing"]
    /\ \E B \in Batches(todo) :
        /\ batch' = [batch EXCEPT ![t] = B]
        /\ left' = [left EXCEPT ![t] = todo \ B]
    /\ seen' = [seen EXCEPT ![t] = found]
    /\ UNCHANGED <<kind, cancelFlag>>

\* The loop, from its top: all done, cancelled, or one more batch.  The row is
\* left with status st and age fr, the task with what it has found.
LoopTop(t, todo, st, fr, found) ==
    \/ /\ todo = {}
       /\ status' = "complete" /\ fresh' = TRUE
       /\ EndTask(t)
       /\ UNCHANGED cancelFlag
    \/ /\ todo # {}
       /\ ConsumeCancel
       /\ status' = "cancelled" /\ fresh' = fr
       /\ EndTask(t)
    \/ /\ todo # {}
       /\ ProbeBatch(t, todo, st, found)
       /\ fresh' = fr

-----------------------------------------------------------------------------
(***************************************************************************)
(* The steps of a task.                                                    *)
(***************************************************************************)

\* fetch_full_channel finds no watcher and raises; _bg logs it.
StartWithoutWatcher(t) ==
    /\ watcher = NoWatcher
    /\ EndTask(t)
    /\ UNCHANGED <<row, cancelFlag, alone>>

StartListing(t) ==
    /\ watcher # NoWatcher
    /\ status' = "fetching"
    /\ pc' = [pc EXCEPT ![t] = "listing"]
    /\ NowActive(t)
    /\ UNCHANGED <<items, fresh, kind, cancelFlag, batch, left, seen>>

\* skip_flat_extract: a cancelled refresh left counts behind.
Resumable == status = "cancelled" /\ Counted(items) # {}

StartTask(t) ==
    /\ pc[t] = "created"
    /\ \/ /\ kind[t] = "slow" /\ Resumable
          /\ LoopTop(t, Bare(items), "fetching", fresh, NothingSeen)
          /\ NowActive(t)
          /\ UNCHANGED items
       \/ /\ kind[t] = "fast" \/ ~Resumable
          /\ StartWithoutWatcher(t) \/ StartListing(t)
    /\ UNCHANGED <<watcher, issued, abandoned, cuts>>

Listed(L) == [v \in Videos |-> IF v \in L THEN "bare" ELSE "unlisted"]

\* The channel lists L, which replaces what was cached; a slow refresh goes on
\* to probe every listed video.
ListingDone(t, L) ==
    /\ pc[t] = "listing"
    /\ items' = Listed(L)
    /\ LoopTop(t, IF kind[t] = "slow" THEN L ELSE {}, "fetching", TRUE, NothingSeen)
    /\ UNCHANGED <<watcher, issued, abandoned, alone, cuts>>

\* Mutant: a failed listing leaves the status as it was.
ListingFailsSilently(t) ==
    /\ pc[t] = "listing"
    /\ EndTask(t)
    /\ UNCHANGED <<watcher, issued, row, cancelFlag, abandoned, alone, cuts>>

ListingFails(t) ==
    /\ pc[t] = "listing"
    /\ status' = "error"
    /\ EndTask(t)
    /\ UNCHANGED <<watcher, issued, items, fresh, cancelFlag, abandoned, alone,
                   cuts>>

\* What the task knows once the probes of its batch have answered for S.
SeenWith(t, S) == [v \in Videos |-> IF v \notin batch[t] THEN seen[t][v]
                                    ELSE IF v \in S THEN "counted" ELSE "missing"]

\* Mutant: a video the task did not ask for loses its counts.
MergedAfresh(found) ==
    [v \in Videos |-> IF items[v] = "unlisted" THEN "unlisted"
                      ELSE IF found[v] = "counted" THEN "counted" ELSE "bare"]

\* The items as the row has them now, with everything the task has seen.
Merged(found) ==
    [v \in Videos |-> IF items[v] = "unlisted" \/ found[v] = "unasked" THEN items[v]
                      ELSE IF found[v] = "counted" THEN "counted" ELSE "bare"]

\* The probes of a batch answer, for the videos in S with a count.
BatchDone(t, S) ==
    /\ pc[t] = "probing"
    /\ items' = Merged(SeenWith(t, S))
    /\ LoopTop(t, left[t], status, fresh, SeenWith(t, S))
    /\ UNCHANGED <<watcher, issued, abandoned, alone, cuts>>

\* What the sessions before the one that raises have written, when the flag of
\* a cancel was not looked at: nothing or the status, the listing of a slow
\* refresh (complete, then fetching again), the counts of the last batch.
WrittenUncancelled(t) ==
    \/ /\ pc[t] \in {"created", "listing", "probing"}
       /\ UNCHANGED row
    \/ /\ pc[t] = "created"
       /\ watcher # NoWatcher \/ (kind[t] = "slow" /\ Resumable)
       /\ status' = "fetching"
       /\ UNCHANGED <<items, fresh>>
    \/ /\ pc[t] = "listing" /\ kind[t] = "slow"
       /\ \E L \in SUBSET Videos : items' = Listed(L)
       /\ status' \in {"complete", "fetching"} /\ fresh' = TRUE
    \/ /\ pc[t] = "probing" /\ left[t] = {}
       /\ \E S \in SUBSET batch[t] : items' = Merged(SeenWith(t, S))
       /\ UNCHANGED <<status, fresh>>

\* The same, when the cancel was taken up and cancelled could not be written.
WrittenCancelled(t) ==
    \/ /\ pc[t] = "created" /\ kind[t] = "slow" /\ Resumable /\ Bare(items) # {}
       /\ status' = "fetching"
       /\ UNCHANGED <<items, fresh>>
    \/ /\ pc[t] = "listing" /\ kind[t] = "slow"
       /\ \E L \in SUBSET Videos : L # {} /\ items' = Listed(L)
       /\ status' = "fetching" /\ fresh' = TRUE
    \/ /\ pc[t] = "probing" /\ left[t] # {}
       /\ \E S \in SUBSET batch[t] : items' = Merged(SeenWith(t, S))
       /\ UNCHANGED <<status, fresh>>

\* A session of the task raises: _bg logs it, and nothing more is written.
SessionRaises(t) ==
    /\ \/ WrittenUncancelled(t) /\ UNCHANGED cancelFlag
       \/ WrittenCancelled(t) /\ ConsumeCancel
    /\ EndTask(t)
    /\ cuts < MaxCuts
    /\ cuts' = cuts + 1
    /\ abandoned' = (abandoned \/ Active(t) \/ status' = "fetching")
    /\ UNCHANGED <<watcher, issued, alone>>

\* The application goes down and comes up: nothing repairs the cache.
Restart ==
    /\ cuts < MaxCuts
    /\ cuts' = cuts + 1
    /\ abandoned' = (status = "fetching")
    /\ pc' = [t \in Tasks |-> "idle"]
    /\ kind' = [t \in Tasks |-> "fast"]
    /\ batch' = [t \in Tasks |-> {}]
    /\ left' = [t \in Tasks |-> {}]
    /\ seen' = [t \in Tasks |-> NothingSeen]
    /\ cancelFlag' = FALSE
    /\ UNCHANGED <<watcher, issued, row, alone>>

-----------------------------------------------------------------------------
Init ==
    /\ watcher = NoWatcher /\ issued = 0
    /\ status = "absent" /\ items = [v \in Videos |-> "unlisted"] /\ fresh = FALSE
    /\ cancelFlag = FALSE
    /\ pc = [t \in Tasks |-> "idle"]
    /\ kind = [t \in Tasks |-> "fast"]
    /\ batch = [t \in Tasks |-> {}]
    /\ left = [t \in Tasks |-> {}]
    /\ seen = [t \in Tasks |-> NothingSeen]
    /\ abandoned = FALSE /\ alone = {} /\ cuts = 0

TaskStep(t) ==
    \/ StartTask(t)
    \/ \E L \in SUBSET Videos : ListingDone(t, L)
    \/ ListingFails(t)
    \/ \E S \in SUBSET batch[t] : BatchDone(t, S)
    \/ SessionRaises(t)

Next ==
    \/ \E t \in Tasks :
        \/ \E k \in {"fast", "slow"} : RefreshBacklog(t, k)
        \/ GetBacklog(t)
        \/ TaskStep(t)
    \/ CancelRefresh
    \/ CreateWatcher
    \/ DeleteWatcher
    \/ Expire
    \/ Restart

Spec == Init /\ [][Next]_vars

\* The event loop runs its tasks, yt-dlp answers or fails, a session ends or raises.
LiveSpec == Spec /\ \A t \in Tasks : WF_vars(TaskStep(t))
-----------------------------------------------------------------------------
(***************************************************************************)
(* Properties.                                                             *)
(***************************************************************************)

\* The status says fetching only while a task is listing or probing, or since
\* a restart or a session that raised cut such a task short
\* (refresh_watcher_backlog trusts it and refuses every request, so a stale one
\* would lock the watcher out).
FetchingHasTask == status = "fetching" => abandoned \/ \E t \in Tasks : Active(t)

\* A count that was paid for is lost only when a new listing replaces the
\* whole list, or to a slow refresh that ran beside another task: a batch
\* that is merged does not touch what other batches found.
CountsKept ==
    [][\A v \in Videos :
         items[v] = "counted" /\ items'[v] # "counted"
         => \/ \E t \in Tasks : pc[t] = "listing" /\ pc'[t] # "listing"
            \/ \E t \in Tasks : pc[t] = "probing" /\ t \notin alone]_vars

\* A slow refresh that ran beside no other and ends complete has asked for
\* every listed video: what has no count then is a video whose probe failed.
ThoroughRefresh ==
    [][\A t \in Tasks :
         pc[t] = "probing" /\ pc'[t] = "idle" /\ status' = "complete" /\ t \in alone
         => \A v \in Bare(items') : v \in batch[t] \/ seen[t][v] = "missing"]_vars

\* A watcher that is being fetched does not stay so, unless a refresh was cut
\* short: whatever tasks overlap, the last one writes a final status.
FetchingEnds == status = "fetching" ~> status # "fetching" \/ abandoned

\* A cancel while batches are still to come is taken up, unless a refresh was
\* cut short.
CancelTakesEffect ==
    (cancelFlag /\ \E t \in Tasks : pc[t] = "probing" /\ left[t] # {})
    ~> ~cancelFlag \/ abandoned
=============================================================================
