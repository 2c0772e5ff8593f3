------------------------- MODULE BacklogCacheProofs -------------------------
(***************************************************************************)
(* Theorems about BacklogCache, for any tasks, videos and batch size.      *)
(*                                                                         *)
(* TypeOK and FetchingHasTask are inductive together.  What is said of a   *)
(* slow refresh that is alone rests on two more invariants: a task that is *)
(* alone is the only one that is active (AloneApart), so nobody else       *)
(* changes the items under it, and what it knows of the videos agrees with *)
(* the items (AloneKnows).                                                 *)
(***************************************************************************)
EXTENDS BacklogCache, TLAPS

AloneApart ==
    \A t, u \in Tasks : t \in alone /\ Active(t) /\ Active(u) => t = u

\* Every video that is still bare is in the batch, after it, or was asked for
\* in vain; the counts it has are never asked for again.
KnowsOf(t, v) ==
    /\ v \in batch[t] => v \notin left[t]
    /\ v \in batch[t] \cup left[t] => items[v] = "bare" /\ seen[t][v] = "unasked"
    /\ seen[t][v] = "missing" => items[v] = "bare"
    /\ items[v] = "bare" => v \in batch[t] \cup left[t] \/ seen[t][v] = "missing"

AloneKnows ==
    \A t \in Tasks : t \in alone /\ pc[t] = "probing"
                    => status = "fetching" /\ \A v \in Videos : KnowsOf(t, v)

IInv == TypeOK /\ FetchingHasTask /\ AloneApart /\ AloneKnows

-----------------------------------------------------------------------------
(***************************************************************************)
(* What one pass through the top of the loop may do.                       *)
(***************************************************************************)

\* The task is over and a final status is written.
Over(t) ==
    /\ EndTask(t)
    /\ status' \in {"complete", "cancelled"}
    /\ status' = "complete" => fresh' = TRUE
    /\ cancelFlag' \in BOOLEAN

\* The task asks for a batch out of todo, knowing what it has found.
Asks(t, todo, st, found) ==
    /\ status' = st
    /\ pc' = [pc EXCEPT ![t] = "probing"]
    /\ \E B \in SUBSET todo :
        /\ batch' = [batch EXCEPT ![t] = B]
        /\ left' = [left EXCEPT ![t] = todo \ B]
    /\ seen' = [seen EXCEPT ![t] = found]
    /\ UNCHANGED <<kind, cancelFlag>>

RowTyped ==
    /\ status \in RowStatus
    /\ fresh \in BOOLEAN
    /\ cancelFlag \in BOOLEAN

TasksTyped ==
    /\ pc \in [Tasks -> {"idle", "created", "listing", "probing"}]
    /\ kind \in [Tasks -> {"fast", "slow"}]
    /\ batch \in [Tasks -> SUBSET Videos]
    /\ left \in [Tasks -> SUBSET Videos]
    /\ seen \in [Tasks -> [Videos -> Found]]

LEMMA LoopTopEffect ==
    ASSUME TypeOK,
           NEW t \in Tasks, NEW todo \in SUBSET Videos, NEW st \in RowStatus,
           NEW fr \in BOOLEAN, NEW found \in [Videos -> Found],
           LoopTop(t, todo, st, fr, found)
    PROVE  /\ fresh' \in BOOLEAN
           /\ \/ Over(t) /\ (status' = "complete" => todo = {})
              \/ Asks(t, todo, st, found)
<1>1. CASE todo = {} /\ status' = "complete" /\ fresh' = TRUE /\ EndTask(t)
                     /\ UNCHANGED cancelFlag
    BY <1>1 DEF Over, TypeOK
<1>2. CASE ConsumeCancel /\ status' = "cancelled" /\ fresh' = fr /\ EndTask(t)
    BY <1>2 DEF Over, ConsumeCancel
<1>3. CASE ProbeBatch(t, todo, st, found) /\ fresh' = fr
    BY <1>3 DEF Asks, ProbeBatch, Batches
<1> QED
    BY <1>1, <1>2, <1>3 DEF LoopTop

LEMMA EndTaskTyped ==
    ASSUME TypeOK, NEW t \in Tasks, EndTask(t)
    PROVE  TasksTyped'
<1> NothingSeen \in [Videos -> Found]
    BY DEF NothingSeen, Found
<1> QED
    BY DEF TypeOK, EndTask, TasksTyped

LEMMA LoopTopTyped ==
    ASSUME TypeOK,
           NEW t \in Tasks, NEW todo \in SUBSET Videos, NEW st \in RowStatus,
           NEW fr \in BOOLEAN, NEW found \in [Videos -> Found],
           LoopTop(t, todo, st, fr, found)
    PROVE  RowTyped' /\ TasksTyped'
<1>1. fresh' \in BOOLEAN /\ (Over(t) \/ Asks(t, todo, st, found))
    BY LoopTopEffect
<1>2. CASE Over(t)
    BY <1>1, <1>2, EndTaskTyped DEF Over, RowStatus, RowTyped
<1>3. CASE Asks(t, todo, st, found)
    BY <1>1, <1>3 DEF Asks, TypeOK, RowTyped, TasksTyped
<1> QED
    BY <1>1, <1>2, <1>3

LEMMA SeenTyped ==
    ASSUME TypeOK, NEW t \in Tasks, NEW S
    PROVE  SeenWith(t, S) \in [Videos -> Found]
BY DEF TypeOK, SeenWith, Found

LEMMA ItemsTyped ==
    ASSUME TypeOK
    PROVE  /\ \A L : Listed(L) \in [Videos -> Item]
           /\ \A found : Merged(found) \in [Videos -> Item]
           /\ NothingSeen \in [Videos -> Found]
           /\ Bare(items) \in SUBSET Videos
BY DEF TypeOK, Listed, Merged, Item, NothingSeen, Found, Bare

\* The status the loop is entered with is one a row may have.
LEMMA Fetching == "fetching" \in RowStatus
BY DEF RowStatus

\* What a session that raises leaves: the row typed, the task over, and nothing
\* final or lost that was not so before.
LEMMA RaisesEffect ==
    ASSUME TypeOK, NEW t \in Tasks, SessionRaises(t)
    PROVE  /\ status' \in RowStatus /\ items' \in [Videos -> Item]
           /\ fresh' \in BOOLEAN /\ cancelFlag' \in BOOLEAN
           /\ EndTask(t) /\ abandoned' \in BOOLEAN
           /\ Active(t) \/ status' = "fetching" => abandoned' = TRUE
           /\ abandoned => abandoned' = TRUE
           /\ ~Active(t) /\ status' # "fetching" => UNCHANGED status
           /\ \/ pc[t] = "listing"
              \/ UNCHANGED items
              \/ pc[t] = "probing" /\ \E S \in SUBSET batch[t] : items' = Merged(SeenWith(t, S))
           /\ pc[t] = "probing" => UNCHANGED status
           /\ UNCHANGED <<watcher, issued, alone>>
<1>1. /\ WrittenUncancelled(t) \/ WrittenCancelled(t)
      /\ UNCHANGED cancelFlag \/ ConsumeCancel
      /\ EndTask(t)
      /\ abandoned' = (abandoned \/ Active(t) \/ status' = "fetching")
      /\ UNCHANGED <<watcher, issued, alone>>
    BY DEF SessionRaises
<1>2. abandoned' \in BOOLEAN /\ (abandoned => abandoned' = TRUE)
      /\ (Active(t) \/ status' = "fetching" => abandoned' = TRUE)
    BY <1>1, Zenon
<1>3. cancelFlag' \in BOOLEAN
    BY <1>1 DEF ConsumeCancel, TypeOK
<1>4. \A L : Listed(L) \in [Videos -> Item]
    BY ItemsTyped
<1>5. \A found : Merged(found) \in [Videos -> Item]
    BY ItemsTyped
<1>6. CASE WrittenUncancelled(t)
    <2>1. status' \in RowStatus /\ fresh' \in BOOLEAN
        BY <1>6 DEF WrittenUncancelled, row, TypeOK, RowStatus
    <2>2. \/ UNCHANGED items
          \/ \E L : items' = Listed(L)
          \/ \E found : items' = Merged(found)
        BY <1>6 DEF WrittenUncancelled, row
    <2>3. items' \in [Videos -> Item]
        BY <1>4, <1>5, <2>2 DEF TypeOK
    <2> QED
        BY <1>1, <1>2, <1>3, <1>6, <2>1, <2>3 DEF WrittenUncancelled, row, Active
<1>7. CASE WrittenCancelled(t)
    <2>1. status' \in RowStatus /\ fresh' \in BOOLEAN
        BY <1>7 DEF WrittenCancelled, TypeOK, RowStatus
    <2>2. \/ UNCHANGED items
          \/ \E L : items' = Listed(L)
          \/ \E found : items' = Merged(found)
        BY <1>7 DEF WrittenCancelled
    <2>3. items' \in [Videos -> Item]
        BY <1>4, <1>5, <2>2 DEF TypeOK
    <2> QED
        BY <1>1, <1>2, <1>3, <1>7, <2>1, <2>3 DEF WrittenCancelled, Active
<1> QED
    BY <1>1, <1>6, <1>7

-----------------------------------------------------------------------------
\* Types are kept by every request, task step and restart.
LEMMA TypeStep ==
    ASSUME TypeOK, [Next]_vars
    PROVE  TypeOK'
<1>0. MaxChannels \in Nat /\ MaxCuts \in Nat
    BY BacklogAssumption
<1>1. ASSUME NEW t \in Tasks, NEW k \in {"fast", "slow"}, CreateTask(t, k)
      PROVE  TypeOK'
    BY <1>1 DEF CreateTask, TypeOK, row
<1>2. ASSUME NEW t \in Tasks, StartTask(t)
      PROVE  TypeOK'
    <2>1. CASE LoopTop(t, Bare(items), "fetching", fresh, NothingSeen) /\ NowActive(t)
               /\ UNCHANGED items
        <3>1. alone' \subseteq Tasks
            BY <2>1 DEF NowActive, TypeOK
        <3>2. fresh \in BOOLEAN
            BY DEF TypeOK
        <3>3. RowTyped' /\ TasksTyped'
            BY <2>1, <3>2, LoopTopTyped, ItemsTyped, Fetching
        <3> QED
            BY <1>2, <2>1, <3>1, <3>3 DEF TypeOK, StartTask, RowTyped, TasksTyped
    <2>2. CASE StartWithoutWatcher(t)
        BY <1>2, <2>2, EndTaskTyped DEF StartWithoutWatcher, StartTask, TypeOK, TasksTyped, row
    <2>3. CASE StartListing(t)
        BY <1>2, <2>3 DEF StartListing, StartTask, NowActive, TypeOK, RowStatus
    <2> QED
        BY <1>2, <2>1, <2>2, <2>3 DEF StartTask
<1>3. ASSUME NEW t \in Tasks, NEW L \in SUBSET Videos, ListingDone(t, L)
      PROVE  TypeOK'
    <2> DEFINE todo == IF kind[t] = "slow" THEN L ELSE {}
    <2>1. todo \in SUBSET Videos /\ LoopTop(t, todo, "fetching", TRUE, NothingSeen)
        BY <1>3 DEF ListingDone
    <2> HIDE DEF todo
    <2>2. RowTyped' /\ TasksTyped'
        BY <2>1, LoopTopTyped, ItemsTyped, Fetching
    <2>3. items' \in [Videos -> Item]
        BY <1>3, ItemsTyped DEF ListingDone
    <2> QED
        BY <1>3, <2>2, <2>3 DEF TypeOK, ListingDone, RowTyped, TasksTyped
<1>4. ASSUME NEW t \in Tasks, ListingFails(t)
      PROVE  TypeOK'
    BY <1>4, EndTaskTyped DEF ListingFails, TypeOK, RowStatus, TasksTyped
<1>5. ASSUME NEW t \in Tasks, NEW S, BatchDone(t, S)
      PROVE  TypeOK'
    <2>1. left[t] \in SUBSET Videos /\ status \in RowStatus /\ fresh \in BOOLEAN
        BY DEF TypeOK
    <2>2. LoopTop(t, left[t], status, fresh, SeenWith(t, S)) /\ items' = Merged(SeenWith(t, S))
        BY <1>5 DEF BatchDone
    <2>3. items' \in [Videos -> Item]
        BY <2>2, ItemsTyped
    <2>4. RowTyped' /\ TasksTyped'
        BY <2>1, <2>2, LoopTopTyped, SeenTyped
    <2> QED
        BY <1>5, <2>3, <2>4 DEF TypeOK, BatchDone, RowTyped, TasksTyped
<1>6. CASE CancelRefresh
    BY <1>6 DEF CancelRefresh, TypeOK, row, tasks
<1>7. CASE CreateWatcher
    BY <1>0, <1>7 DEF CreateWatcher, TypeOK, row, tasks, NoWatcher
<1>8. CASE DeleteWatcher
    BY <1>0, <1>8 DEF DeleteWatcher, TypeOK, row, tasks, NoWatcher
<1>9. CASE Expire
    BY <1>9 DEF Expire, TypeOK, tasks
<1>10. CASE Restart
    <2>1. abandoned' \in BOOLEAN
        BY <1>10, Zenon DEF Restart
    <2>2. TasksTyped'
        BY <1>10, ItemsTyped DEF Restart, TasksTyped
    <2>3. cuts' \in 0..MaxCuts
        BY <1>0, <1>10 DEF Restart, TypeOK
    <2> QED
        BY <1>10, <2>1, <2>2, <2>3 DEF Restart, TypeOK, TasksTyped, row
<1>11. CASE UNCHANGED vars
    BY <1>11 DEF vars, row, tasks, TypeOK
<1>12. ASSUME NEW t \in Tasks, SessionRaises(t)
       PROVE  TypeOK'
    <2>1. cuts' \in 0..MaxCuts
        BY <1>0, <1>12 DEF SessionRaises, TypeOK
    <2>2. TasksTyped'
        BY <1>12, RaisesEffect, EndTaskTyped
    <2> QED
        BY <1>12, <2>1, <2>2, RaisesEffect DEF TypeOK, TasksTyped
<1> QED
    BY <1>1, <1>2, <1>3, <1>4, <1>5, <1>6, <1>7, <1>8, <1>9, <1>10, <1>11, <1>12
    DEF Next, TaskStep, RefreshBacklog, GetBacklog

-----------------------------------------------------------------------------
\* What a task that ends or goes on leaves of the status: a task that is still
\* active, or a final one.
LEMMA FetchingStep ==
    ASSUME TypeOK, FetchingHasTask, [Next]_vars
    PROVE  FetchingHasTask'
<1>1. ASSUME NEW t \in Tasks, NEW k \in {"fast", "slow"}, CreateTask(t, k)
      PROVE  FetchingHasTask'
    BY <1>1 DEF CreateTask, FetchingHasTask, Active, TypeOK, row
<1>2. ASSUME NEW t \in Tasks, NEW todo \in SUBSET Videos, NEW st \in RowStatus,
             NEW fr \in BOOLEAN, NEW found \in [Videos -> Found],
             LoopTop(t, todo, st, fr, found)
      PROVE  FetchingHasTask'
    <2>1. Over(t) \/ Asks(t, todo, st, found)
        BY <1>2, LoopTopEffect
    <2> QED
        BY <2>1 DEF Over, Asks, FetchingHasTask, Active, TypeOK
<1>3. ASSUME NEW t \in Tasks, StartTask(t)
      PROVE  FetchingHasTask'
    <2>1. CASE LoopTop(t, Bare(items), "fetching", fresh, NothingSeen)
        <3>1. fresh \in BOOLEAN
            BY DEF TypeOK
        <3> QED
            BY <2>1, <3>1, <1>2, ItemsTyped, Fetching
    <2>2. CASE StartWithoutWatcher(t)
        BY <1>3, <2>2 DEF StartWithoutWatcher, EndTask, StartTask, FetchingHasTask, Active,
                          TypeOK, row
    <2>3. CASE StartListing(t)
        BY <1>3, <2>3 DEF StartListing, StartTask, FetchingHasTask, Active, TypeOK
    <2> QED
        BY <1>3, <2>1, <2>2, <2>3 DEF StartTask
<1>4. ASSUME NEW t \in Tasks, NEW L \in SUBSET Videos, ListingDone(t, L)
      PROVE  FetchingHasTask'
    <2> DEFINE todo == IF kind[t] = "slow" THEN L ELSE {}
    <2>1. todo \in SUBSET Videos /\ LoopTop(t, todo, "fetching", TRUE, NothingSeen)
        BY <1>4 DEF ListingDone
    <2> HIDE DEF todo
    <2> QED
        BY <2>1, <1>2, ItemsTyped, Fetching
<1>5. ASSUME NEW t \in Tasks, ListingFails(t)
      PROVE  FetchingHasTask'
    BY <1>5 DEF ListingFails, FetchingHasTask
<1>6. ASSUME NEW t \in Tasks, NEW S, BatchDone(t, S)
      PROVE  FetchingHasTask'
    <2>1. left[t] \in SUBSET Videos /\ status \in RowStatus /\ fresh \in BOOLEAN
        BY DEF TypeOK
    <2>2. LoopTop(t, left[t], status, fresh, SeenWith(t, S))
        BY <1>6 DEF BatchDone
    <2> QED
        BY <2>1, <2>2, <1>2, SeenTyped
<1>7. CASE CancelRefresh \/ CreateWatcher \/ DeleteWatcher \/ Expire \/ UNCHANGED vars
    BY <1>7 DEF CancelRefresh, CreateWatcher, DeleteWatcher, Expire, vars, row, tasks,
                FetchingHasTask, Active
<1>8. CASE Restart
    BY <1>8 DEF Restart, FetchingHasTask, row
<1>9. ASSUME NEW t \in Tasks, SessionRaises(t)
      PROVE  FetchingHasTask'
    BY <1>9, RaisesEffect DEF FetchingHasTask
<1> QED
    BY <1>1, <1>3, <1>4, <1>5, <1>6, <1>7, <1>8, <1>9
    DEF Next, TaskStep, RefreshBacklog, GetBacklog

-----------------------------------------------------------------------------
\* A task step other than the one that makes the task active leaves alone as
\* it is, and makes no task active.
LEMMA ApartStep ==
    ASSUME TypeOK, AloneApart, [Next]_vars
    PROVE  AloneApart'
<1>1. ASSUME NEW t \in Tasks, NEW k \in {"fast", "slow"}, CreateTask(t, k)
      PROVE  AloneApart'
    BY <1>1 DEF CreateTask, AloneApart, Active, TypeOK
<1>2. ASSUME NEW t \in Tasks, NowActive(t), \A u \in Tasks \ {t} : pc'[u] = pc[u]
      PROVE  AloneApart'
    <2> SUFFICES ASSUME NEW a \in Tasks, NEW b \in Tasks,
                        a \in alone', Active(a)', Active(b)', a # b
                 PROVE  FALSE
        BY DEF AloneApart
    <2>1. CASE a = t
        BY <1>2, <2>1 DEF NowActive, Active
    <2>2. CASE a # t /\ b = t
        BY <1>2, <2>2 DEF NowActive, Active
    <2>3. CASE a # t /\ b # t
        BY <1>2, <2>3 DEF NowActive, Active, AloneApart
    <2> QED
        BY <2>1, <2>2, <2>3
<1>3. ASSUME NEW t \in Tasks, NEW todo \in SUBSET Videos, NEW st \in RowStatus,
             NEW fr \in BOOLEAN, NEW found \in [Videos -> Found],
             LoopTop(t, todo, st, fr, found)
      PROVE  /\ \A u \in Tasks \ {t} : pc'[u] = pc[u]
             /\ Active(t) /\ alone' = alone => AloneApart'
    <2>1. Over(t) \/ Asks(t, todo, st, found)
        BY <1>3, LoopTopEffect
    <2>2. \A u \in Tasks \ {t} : pc'[u] = pc[u]
        BY <2>1 DEF Over, EndTask, Asks, TypeOK
    <2>3. Active(t) /\ alone' = alone => AloneApart'
        BY <2>2 DEF Active, AloneApart
    <2> QED
        BY <2>2, <2>3
<1>4. ASSUME NEW t \in Tasks, StartTask(t)
      PROVE  AloneApart'
    <2>1. CASE LoopTop(t, Bare(items), "fetching", fresh, NothingSeen) /\ NowActive(t)
        <3>1. fresh \in BOOLEAN
            BY DEF TypeOK
        <3>2. \A u \in Tasks \ {t} : pc'[u] = pc[u]
            BY <2>1, <3>1, <1>3, ItemsTyped, Fetching
        <3> QED
            BY <2>1, <3>2, <1>2
    <2>2. CASE StartWithoutWatcher(t)
        BY <2>2 DEF StartWithoutWatcher, EndTask, AloneApart, Active, TypeOK
    <2>3. CASE StartListing(t)
        <3>1. \A u \in Tasks \ {t} : pc'[u] = pc[u]
            BY <2>3 DEF StartListing, TypeOK
        <3> QED
            BY <2>3, <3>1, <1>2 DEF StartListing
    <2> QED
        BY <1>4, <2>1, <2>2, <2>3 DEF StartTask
<1>5. ASSUME NEW t \in Tasks, NEW L \in SUBSET Videos, ListingDone(t, L)
      PROVE  AloneApart'
    <2> DEFINE todo == IF kind[t] = "slow" THEN L ELSE {}
    <2>1. todo \in SUBSET Videos /\ LoopTop(t, todo, "fetching", TRUE, NothingSeen)
        BY <1>5 DEF ListingDone
    <2>2. Active(t) /\ alone' = alone
        BY <1>5 DEF ListingDone, Active
    <2> HIDE DEF todo
    <2> QED
        BY <2>1, <2>2, <1>3, ItemsTyped, Fetching
<1>6. ASSUME NEW t \in Tasks, ListingFails(t)
      PROVE  AloneApart'
    BY <1>6 DEF ListingFails, EndTask, AloneApart, Active, TypeOK
<1>7. ASSUME NEW t \in Tasks, NEW S, BatchDone(t, S)
      PROVE  AloneApart'
    <2>1. left[t] \in SUBSET Videos /\ status \in RowStatus /\ fresh \in BOOLEAN
        BY DEF TypeOK
    <2>2. LoopTop(t, left[t], status, fresh, SeenWith(t, S))
        BY <1>7 DEF BatchDone
    <2>3. Active(t) /\ alone' = alone
        BY <1>7 DEF BatchDone, Active
    <2> QED
        BY <2>1, <2>2, <2>3, <1>3, SeenTyped
<1>8. CASE CancelRefresh \/ CreateWatcher \/ DeleteWatcher \/ Expire \/ UNCHANGED vars
    BY <1>8 DEF CancelRefresh, CreateWatcher, DeleteWatcher, Expire, vars, tasks,
                AloneApart, Active
<1>9. CASE Restart
    BY <1>9 DEF Restart, AloneApart, Active
<1>10. ASSUME NEW t \in Tasks, SessionRaises(t)
       PROVE  AloneApart'
    BY <1>10 DEF SessionRaises, EndTask, AloneApart, Active, TypeOK
<1> QED
    BY <1>1, <1>4, <1>5, <1>6, <1>7, <1>8, <1>9, <1>10
    DEF Next, TaskStep, RefreshBacklog, GetBacklog

-----------------------------------------------------------------------------
\* While a task takes a step, or becomes active, no other task is alone.
LEMMA NobodyElse ==
    ASSUME TypeOK, AloneApart, NEW t \in Tasks,
           (Active(t) /\ alone' = alone) \/ NowActive(t),
           \A w \in Tasks \ {t} : pc'[w] = pc[w],
           NEW u \in Tasks, u # t, u \in alone', pc'[u] = "probing"
    PROVE  FALSE
<1>1. Active(u)
    BY DEF Active
<1>2. CASE Active(t) /\ alone' = alone
    BY <1>1, <1>2 DEF AloneApart
<1>3. CASE NowActive(t)
    BY <1>1, <1>3 DEF NowActive
<1> QED
    BY <1>2, <1>3

\* The task enters the loop knowing found of the items as they are then.
Agrees(todo, found) ==
    \A v \in Videos :
        /\ v \in todo => items'[v] = "bare" /\ found[v] = "unasked"
        /\ found[v] = "missing" => items'[v] = "bare"
        /\ items'[v] = "bare" => v \in todo \/ found[v] = "missing"

LEMMA LoopKnows ==
    ASSUME TypeOK, AloneApart, NEW t \in Tasks, NEW todo \in SUBSET Videos,
           NEW st \in RowStatus, NEW fr \in BOOLEAN, NEW found \in [Videos -> Found],
           LoopTop(t, todo, st, fr, found),
           (Active(t) /\ alone' = alone) \/ NowActive(t),
           t \in alone' => st = "fetching" /\ Agrees(todo, found)
    PROVE  AloneKnows'
<1>1. Over(t) \/ Asks(t, todo, st, found)
    BY LoopTopEffect
<1>2. \A w \in Tasks \ {t} : pc'[w] = pc[w]
    BY <1>1 DEF Over, EndTask, Asks, TypeOK
<1> SUFFICES ASSUME NEW u \in Tasks, u \in alone', pc'[u] = "probing"
             PROVE  status' = "fetching" /\ \A v \in Videos : KnowsOf(u, v)'
    BY DEF AloneKnows
<1>3. u = t
    BY <1>2, NobodyElse
<1>4. ~Over(t)
    BY <1>3 DEF Over, EndTask, TypeOK
<1>5. PICK B \in SUBSET todo : /\ batch' = [batch EXCEPT ![t] = B]
                               /\ left' = [left EXCEPT ![t] = todo \ B]
    BY <1>1, <1>4 DEF Asks
<1>6. seen'[t] = found
    BY <1>1, <1>4 DEF Asks, TypeOK
<1>7. batch'[t] = B /\ left'[t] = todo \ B
    BY <1>5 DEF TypeOK
<1>8. status' = "fetching"
    BY <1>1, <1>3, <1>4 DEF Asks
<1> QED
    BY <1>3, <1>6, <1>7, <1>8 DEF KnowsOf, Agrees

LEMMA KnowsStep ==
    ASSUME TypeOK, AloneApart, AloneKnows, [Next]_vars
    PROVE  AloneKnows'
<1>1. ASSUME NEW t \in Tasks, NEW k \in {"fast", "slow"}, CreateTask(t, k)
      PROVE  AloneKnows'
    BY <1>1 DEF CreateTask, AloneKnows, KnowsOf, TypeOK, row
<1>2. ASSUME NEW t \in Tasks, StartTask(t)
      PROVE  AloneKnows'
    <2>1. CASE LoopTop(t, Bare(items), "fetching", fresh, NothingSeen) /\ NowActive(t)
               /\ UNCHANGED items
        <3>1. fresh \in BOOLEAN
            BY DEF TypeOK
        <3>2. Agrees(Bare(items), NothingSeen)
            BY <2>1 DEF Agrees, Bare, NothingSeen
        <3> QED
            BY <2>1, <3>1, <3>2, LoopKnows, ItemsTyped, Fetching
    <2>2. CASE StartWithoutWatcher(t)
        BY <2>2 DEF StartWithoutWatcher, EndTask, AloneKnows, KnowsOf, TypeOK, row
    <2>3. CASE StartListing(t)
        <3>1. \A w \in Tasks \ {t} : pc'[w] = pc[w]
            BY <2>3 DEF StartListing, TypeOK
        <3>2. pc'[t] = "listing"
            BY <2>3 DEF StartListing, TypeOK
        <3>3. \A u \in Tasks : ~(u \in alone' /\ pc'[u] = "probing")
            BY <2>3, <3>1, <3>2, NobodyElse DEF StartListing
        <3> QED
            BY <3>3 DEF AloneKnows
    <2> QED
        BY <1>2, <2>1, <2>2, <2>3 DEF StartTask
<1>3. ASSUME NEW t \in Tasks, NEW L \in SUBSET Videos, ListingDone(t, L)
      PROVE  AloneKnows'
    <2> DEFINE todo == IF kind[t] = "slow" THEN L ELSE {}
    <2>1. /\ todo \in SUBSET Videos /\ LoopTop(t, todo, "fetching", TRUE, NothingSeen)
          /\ Active(t) /\ alone' = alone /\ items' = Listed(L)
        BY <1>3 DEF ListingDone, Active
    <2>2. todo = L \/ todo = {}
        OBVIOUS
    <2>3. CASE todo = L
        <3>1. Agrees(todo, NothingSeen)
            BY <2>1, <2>3 DEF Agrees, Listed, NothingSeen
        <3> QED
            BY <2>1, <3>1, LoopKnows, ItemsTyped, Fetching
    <2>4. CASE todo = {}
        <3>1. Over(t)
            BY <2>1, <2>4 DEF LoopTop, Over, TypeOK
        <3>2. \A w \in Tasks \ {t} : pc'[w] = pc[w]
            BY <3>1 DEF Over, EndTask, TypeOK
        <3>3. \A u \in Tasks : ~(u \in alone' /\ pc'[u] = "probing")
            BY <2>1, <3>1, <3>2, NobodyElse DEF Over, EndTask, TypeOK
        <3> QED
            BY <3>3 DEF AloneKnows
    <2> QED
        BY <2>2, <2>3, <2>4
<1>4. ASSUME NEW t \in Tasks, ListingFails(t)
      PROVE  AloneKnows'
    <2>1. \A w \in Tasks \ {t} : pc'[w] = pc[w]
        BY <1>4 DEF ListingFails, EndTask, TypeOK
    <2>2. Active(t) /\ alone' = alone /\ pc'[t] # "probing"
        BY <1>4 DEF ListingFails, EndTask, Active, TypeOK
    <2>3. \A u \in Tasks : ~(u \in alone' /\ pc'[u] = "probing")
        BY <2>1, <2>2, NobodyElse
    <2> QED
        BY <2>3 DEF AloneKnows
<1>5. ASSUME NEW t \in Tasks, NEW S \in SUBSET batch[t], BatchDone(t, S)
      PROVE  AloneKnows'
    <2> DEFINE found == SeenWith(t, S)
    <2>1. left[t] \in SUBSET Videos /\ status \in RowStatus /\ fresh \in BOOLEAN
        BY DEF TypeOK
    <2>2. /\ LoopTop(t, left[t], status, fresh, found)
          /\ Active(t) /\ alone' = alone /\ items' = Merged(found)
        BY <1>5 DEF BatchDone, Active
    <2>3. ASSUME t \in alone
          PROVE  Agrees(left[t], found)
        <3> SUFFICES ASSUME NEW v \in Videos
                     PROVE  /\ v \in left[t] => items'[v] = "bare" /\ found[v] = "unasked"
                            /\ found[v] = "missing" => items'[v] = "bare"
                            /\ items'[v] = "bare" => v \in left[t] \/ found[v] = "missing"
            BY DEF Agrees
        <3>1. KnowsOf(t, v)
            BY <1>5, <2>3 DEF AloneKnows, BatchDone
        <3>2. found[v] = IF v \notin batch[t] THEN seen[t][v]
                         ELSE IF v \in S THEN "counted" ELSE "missing"
            BY DEF SeenWith
        <3>3. items'[v] = IF items[v] = "unlisted" \/ found[v] = "unasked" THEN items[v]
                          ELSE IF found[v] = "counted" THEN "counted" ELSE "bare"
            BY <2>2 DEF Merged
        <3>4. seen[t][v] \in Found
            BY DEF TypeOK
        <3> HIDE DEF found
        <3> QED
            BY <3>1, <3>2, <3>3, <3>4 DEF KnowsOf, Found
    <2>4. found \in [Videos -> Found]
        BY SeenTyped
    <2>5. t \in alone => status = "fetching"
        BY <1>5 DEF AloneKnows, BatchDone
    <2> HIDE DEF found
    <2> QED
        BY <2>1, <2>2, <2>3, <2>4, <2>5, LoopKnows
<1>6. CASE CancelRefresh \/ CreateWatcher \/ DeleteWatcher \/ Expire \/ UNCHANGED vars
    BY <1>6 DEF CancelRefresh, CreateWatcher, DeleteWatcher, Expire, vars, row, tasks,
                AloneKnows, KnowsOf
<1>7. CASE Restart
    BY <1>7 DEF Restart, AloneKnows
<1>8. ASSUME NEW t \in Tasks, SessionRaises(t), Active(t)
      PROVE  AloneKnows'
    <2>1. \A w \in Tasks \ {t} : pc'[w] = pc[w]
        BY <1>8 DEF SessionRaises, EndTask, TypeOK
    <2>2. alone' = alone /\ pc'[t] # "probing"
        BY <1>8 DEF SessionRaises, EndTask, TypeOK
    <2>3. \A u \in Tasks : ~(u \in alone' /\ pc'[u] = "probing")
        BY <1>8, <2>1, <2>2, NobodyElse
    <2> QED
        BY <2>3 DEF AloneKnows
<1>9. ASSUME NEW t \in Tasks, SessionRaises(t), ~Active(t)
      PROVE  AloneKnows'
    <2>1. UNCHANGED items /\ (status' = "fetching" \/ UNCHANGED status)
        BY <1>9, RaisesEffect DEF Active
    <2> QED
        BY <1>9, <2>1 DEF SessionRaises, EndTask, AloneKnows, KnowsOf, TypeOK
<1> QED
    BY <1>1, <1>2, <1>3, <1>4, <1>5, <1>6, <1>7, <1>8, <1>9
    DEF Next, TaskStep, RefreshBacklog, GetBacklog

-----------------------------------------------------------------------------
LEMMA InitIInv == Init => IInv
<1> SUFFICES ASSUME Init
             PROVE  IInv
    OBVIOUS
<1>1. TypeOK
    <2>1. watcher \in NoWatcher..MaxChannels /\ issued \in 0..MaxChannels
          /\ cuts \in 0..MaxCuts
        BY BacklogAssumption DEF Init, NoWatcher
    <2>2. TasksTyped /\ status \in RowStatus /\ items \in [Videos -> Item]
        BY DEF Init, TasksTyped, RowStatus, Item, NothingSeen, Found
    <2> QED
        BY <2>1, <2>2 DEF Init, TypeOK, TasksTyped
<1>2. FetchingHasTask /\ AloneApart /\ AloneKnows
    BY DEF Init, FetchingHasTask, AloneApart, AloneKnows
<1> QED
    BY <1>1, <1>2 DEF IInv

LEMMA IInvStep == IInv /\ [Next]_vars => IInv'
BY TypeStep, FetchingStep, ApartStep, KnowsStep DEF IInv

LEMMA Inductive == Spec => []IInv
<1>1. IInv /\ [Next]_vars => IInv'
    BY IInvStep
<1> QED
    BY InitIInv, <1>1, PTL DEF Spec

\* Every variable of the cache and of its tasks keeps its type, whatever the
\* requests, the answers of yt-dlp, the sessions and the restarts.
THEOREM TypeCorrect == Spec => []TypeOK
<1>1. IInv => TypeOK
    BY DEF IInv
<1> QED
    BY Inductive, <1>1, PTL

\* A row never says fetching without a task that will write a final status,
\* unless a restart or a session that raised cut one short: otherwise
\* refresh_watcher_backlog may trust it.
THEOREM FetchingIsFetched == Spec => []FetchingHasTask
<1>1. IInv => FetchingHasTask
    BY DEF IInv
<1> QED
    BY Inductive, <1>1, PTL

\* A count that was paid for is lost only to a new listing, or to a slow
\* refresh that ran beside another task.
THEOREM CountsAreKept == Spec => CountsKept
<1> DEFINE Kept == \A v \in Videos :
         items[v] = "counted" /\ items'[v] # "counted"
         => \/ \E t \in Tasks : pc[t] = "listing" /\ pc'[t] # "listing"
            \/ \E t \in Tasks : pc[t] = "probing" /\ t \notin alone
<1>1. IInv /\ [Next]_vars => [Kept]_vars
    <2> SUFFICES ASSUME IInv, Next, NEW v \in Videos,
                        items[v] = "counted", items'[v] # "counted"
                 PROVE  \/ \E t \in Tasks : pc[t] = "listing" /\ pc'[t] # "listing"
                        \/ \E t \in Tasks : pc[t] = "probing" /\ t \notin alone
        BY DEF vars
    <2>1. ASSUME NEW t \in Tasks, NEW L \in SUBSET Videos, ListingDone(t, L)
          PROVE  pc[t] = "listing" /\ pc'[t] # "listing"
        <3> DEFINE todo == IF kind[t] = "slow" THEN L ELSE {}
        <3>1. todo \in SUBSET Videos /\ LoopTop(t, todo, "fetching", TRUE, NothingSeen)
            BY <2>1 DEF ListingDone
        <3> HIDE DEF todo
        <3>2. TypeOK
            BY DEF IInv
        <3>3. Over(t) \/ Asks(t, todo, "fetching", NothingSeen)
            BY <3>1, <3>2, LoopTopEffect, ItemsTyped, Fetching
        <3> QED
            BY <2>1, <3>2, <3>3 DEF ListingDone, Over, EndTask, Asks, TypeOK
    <2>2. ASSUME NEW t \in Tasks, NEW S \in SUBSET batch[t],
                 pc[t] = "probing" /\ items' = Merged(SeenWith(t, S))
          PROVE  pc[t] = "probing" /\ t \notin alone
        <3>1. pc[t] = "probing" /\ items' = Merged(SeenWith(t, S))
            BY <2>2
        <3>2. SeenWith(t, S)[v] = "missing"
            <4>1. SeenWith(t, S)[v] \in Found
                BY SeenTyped DEF IInv
            <4> QED
                BY <3>1, <4>1 DEF Merged, Found
        <3>3. ASSUME t \in alone
              PROVE  FALSE
            <4>1. KnowsOf(t, v)
                BY <3>1, <3>3 DEF IInv, AloneKnows
            <4> QED
                BY <3>2, <4>1 DEF SeenWith, KnowsOf
        <3> QED
            BY <3>1, <3>3
    <2>3. CASE UNCHANGED items
        BY <2>3
    <2>5. ASSUME NEW t \in Tasks, NEW S \in SUBSET batch[t], BatchDone(t, S)
          PROVE  pc[t] = "probing" /\ t \notin alone
        BY <2>2, <2>5 DEF BatchDone
    <2>6. ASSUME NEW t \in Tasks, SessionRaises(t)
          PROVE  \/ pc[t] = "listing" /\ pc'[t] # "listing"
                 \/ pc[t] = "probing" /\ t \notin alone
        <3>1. TypeOK
            BY DEF IInv
        <3>2. CASE pc[t] = "listing"
            BY <2>6, <3>1, <3>2 DEF SessionRaises, EndTask, TypeOK
        <3>3. CASE pc[t] = "probing" /\ \E S \in SUBSET batch[t] : items' = Merged(SeenWith(t, S))
            BY <2>2, <3>3
        <3> QED
            BY <2>6, <3>1, <3>2, <3>3, RaisesEffect
    <2>4. \/ UNCHANGED items
          \/ \E t \in Tasks : \/ \E L \in SUBSET Videos : ListingDone(t, L)
                              \/ \E S \in SUBSET batch[t] : BatchDone(t, S)
                              \/ SessionRaises(t)
        BY DEF Next, TaskStep, RefreshBacklog, GetBacklog, CreateTask, StartTask,
               StartWithoutWatcher, StartListing, ListingFails, CancelRefresh,
               CreateWatcher, DeleteWatcher, Expire, Restart, row
    <2> QED
        BY <2>1, <2>3, <2>4, <2>5, <2>6
<1> QED
    BY Inductive, <1>1, PTL DEF Spec, CountsKept

\* A slow refresh that ran beside no other and ends complete has asked for
\* every video that is listed.
THEOREM RefreshIsThorough == Spec => ThoroughRefresh
<1> DEFINE Thorough == \A t \in Tasks :
         pc[t] = "probing" /\ pc'[t] = "idle" /\ status' = "complete" /\ t \in alone
         => \A v \in Bare(items') : v \in batch[t] \/ seen[t][v] = "missing"
<1>1. IInv /\ [Next]_vars => [Thorough]_vars
    <2> SUFFICES ASSUME IInv, Next, NEW t \in Tasks, pc[t] = "probing", pc'[t] = "idle",
                        status' = "complete", t \in alone, NEW v \in Bare(items')
                 PROVE  v \in batch[t] \/ seen[t][v] = "missing"
        BY DEF vars
    <2>1. v \in Videos /\ items'[v] = "bare"
        BY DEF Bare
    <2>2. KnowsOf(t, v)
        BY <2>1 DEF IInv, AloneKnows
    <2>3. TypeOK
        BY DEF IInv
    <2>4. ASSUME NEW S \in SUBSET batch[t], BatchDone(t, S)
          PROVE  v \in batch[t] \/ seen[t][v] = "missing"
        <3>1. left[t] \in SUBSET Videos /\ status \in RowStatus /\ fresh \in BOOLEAN
            BY <2>3 DEF TypeOK
        <3>2. LoopTop(t, left[t], status, fresh, SeenWith(t, S))
              /\ items' = Merged(SeenWith(t, S))
            BY <2>4 DEF BatchDone
        <3>3. left[t] = {}
            <4>1. \/ Over(t) /\ (status' = "complete" => left[t] = {})
                  \/ Asks(t, left[t], status, SeenWith(t, S))
                BY <2>3, <3>1, <3>2, LoopTopEffect, SeenTyped
            <4>2. ~Asks(t, left[t], status, SeenWith(t, S))
                BY <2>3 DEF Asks, TypeOK
            <4> QED
                BY <4>1, <4>2
        <3>4. CASE v \notin batch[t]
            <4>1. SeenWith(t, S)[v] = seen[t][v] /\ seen[t][v] \in Found
                BY <2>1, <2>3, <3>4 DEF SeenWith, TypeOK
            <4> QED
                BY <2>1, <2>2, <3>2, <3>3, <4>1 DEF Merged, KnowsOf, Found
        <3> QED
            BY <3>4
    <2>5. \E S \in SUBSET batch[t] : BatchDone(t, S)
        <3>1. ASSUME NEW u \in Tasks, TaskStep(u), u # t
              PROVE  pc'[t] = pc[t]
            <4>1. CASE StartTask(u)
                BY <2>3, <3>1, <4>1 DEF StartTask, LoopTop, EndTask, ProbeBatch,
                    StartWithoutWatcher, StartListing, TypeOK
            <4>2. CASE \E L \in SUBSET Videos : ListingDone(u, L)
                BY <2>3, <3>1, <4>2 DEF ListingDone, LoopTop, EndTask, ProbeBatch, TypeOK
            <4>3. CASE ListingFails(u)
                BY <2>3, <3>1, <4>3 DEF ListingFails, EndTask, TypeOK
            <4>4. CASE \E S \in SUBSET batch[u] : BatchDone(u, S)
                BY <2>3, <3>1, <4>4 DEF BatchDone, LoopTop, EndTask, ProbeBatch, TypeOK
            <4>5. CASE SessionRaises(u)
                BY <2>3, <3>1, <4>5 DEF SessionRaises, EndTask, TypeOK
            <4> QED
                BY <3>1, <4>1, <4>2, <4>3, <4>4, <4>5 DEF TaskStep
        <3>2. ~Restart
            BY DEF Restart, row, IInv, AloneKnows
        <3>3. ~SessionRaises(t)
            BY <2>3, RaisesEffect DEF IInv, AloneKnows
        <3> QED
            BY <2>3, <3>1, <3>2, <3>3 DEF Next, TaskStep, StartTask, ListingDone, ListingFails,
                RefreshBacklog, GetBacklog, CreateTask, CancelRefresh, CreateWatcher,
                DeleteWatcher, Expire, tasks, TypeOK
    <2> QED
        BY <2>4, <2>5
<1> QED
    BY Inductive, <1>1, PTL DEF Spec, ThoroughRefresh
=============================================================================
