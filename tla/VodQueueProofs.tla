--------------------------- MODULE VodQueueProofs ---------------------------
(***************************************************************************)
(* Safety of VodQueue for any number of workers, ids, issues and restarts. *)
(***************************************************************************)
EXTENDS VodQueue, FiniteSetTheorems, SequenceTheorems, TLAPS

\* What the FIFO holds: recording ids and shutdown sentinels.
Entries == Ids \cup {Sentinel}

-----------------------------------------------------------------------------
(***************************************************************************)
(* The operators the model is built from.                                  *)
(***************************************************************************)

\* A sequence s holds x somewhere.
Holds(s, x) == \E k \in 1..Len(s) : s[k] = x

\* Enqueueing adds one element and loses none.
LEMMA AppendHolds ==
    ASSUME NEW S, NEW s \in Seq(S), NEW e \in S, NEW x
    PROVE  /\ Append(s, e) \in Seq(S)
           /\ Holds(Append(s, e), x) <=> Holds(s, x) \/ x = e
<1> DEFINE t == Append(s, e)
<1>1. t \in Seq(S) /\ Len(t) = Len(s) + 1 /\ Len(s) \in Nat
  OBVIOUS
<1>2. \A k \in 1..Len(t) : t[k] = IF k <= Len(s) THEN s[k] ELSE e
  OBVIOUS
<1>3. ASSUME Holds(t, x)  PROVE Holds(s, x) \/ x = e
  BY <1>1, <1>2, <1>3 DEF Holds
<1>4. ASSUME Holds(s, x)  PROVE Holds(t, x)
  <2>1. PICK k \in 1..Len(s) : s[k] = x
    BY <1>4 DEF Holds
  <2>2. k \in 1..Len(t) /\ t[k] = x
    BY <1>1, <1>2, <2>1
  <2> QED BY <2>2 DEF Holds
<1>5. ASSUME x = e  PROVE Holds(t, x)
  <2>1. Len(t) \in 1..Len(t) /\ t[Len(t)] = x
    BY <1>1, <1>2, <1>5
  <2> QED BY <2>1 DEF Holds
<1> QED BY <1>1, <1>3, <1>4, <1>5

\* Taking the head of a sequence loses no other element.
LEMMA TailHolds ==
    ASSUME NEW S, NEW s \in Seq(S), s # <<>>, NEW x
    PROVE  /\ Head(s) \in S
           /\ Tail(s) \in Seq(S)
           /\ Holds(s, Head(s))
           /\ Holds(s, x) => x = Head(s) \/ Holds(Tail(s), x)
           /\ Holds(Tail(s), x) => Holds(s, x)
<1>1. /\ Head(s) \in S
      /\ Tail(s) \in Seq(S)
      /\ Len(Tail(s)) = Len(s) - 1
      /\ \A k \in 1..Len(Tail(s)) : Tail(s)[k] = s[k + 1]
  BY HeadTailProperties
<1>2. Len(s) \in Nat \ {0} /\ Head(s) = s[1]
  BY EmptySeq
<1>3. Holds(s, Head(s))
  BY <1>2 DEF Holds
<1>4. ASSUME Holds(s, x), x # Head(s)  PROVE Holds(Tail(s), x)
  <2>1. PICK k \in 1..Len(s) : s[k] = x
    BY <1>4 DEF Holds
  <2>2. k # 1
    BY <1>2, <1>4, <2>1
  <2>3. k - 1 \in 1..Len(Tail(s)) /\ Tail(s)[k - 1] = x
    BY <1>1, <1>2, <2>1, <2>2
  <2> QED BY <2>3 DEF Holds
<1>5. ASSUME Holds(Tail(s), x)  PROVE Holds(s, x)
  <2>1. PICK k \in 1..Len(Tail(s)) : Tail(s)[k] = x
    BY <1>5 DEF Holds
  <2>2. k + 1 \in 1..Len(s) /\ s[k + 1] = x
    BY <1>1, <1>2, <2>1
  <2> QED BY <2>2 DEF Holds
<1> QED BY <1>1, <1>3, <1>4, <1>5

\* The rehydrated FIFO is a sequence of exactly the waiting rows.
LEMMA RehydratedIsSeq ==
    ASSUME NEW st \in [Ids -> Status], NEW s \in Rehydrated(st)
    PROVE  /\ s \in Seq(Entries)
           /\ \A i \in Ids : Holds(s, i) <=> st[i] = "vod_queued"
<1> DEFINE Q == {i \in Ids : st[i] = "vod_queued"}
<1>1. IsFiniteSet(Ids)
  BY FS_Interval, VodQueueAssumption DEF Ids
<1>2. Cardinality(Q) \in Nat
  BY <1>1, FS_Subset, FS_CardinalityType
<1>3. /\ s \in [1..Cardinality(Q) -> Q]
      /\ \A i \in Q : \E j \in 1..Cardinality(Q) : s[j] = i
  BY DEF Rehydrated
<1> HIDE DEF Q
<1>4. s \in Seq(Q) /\ Len(s) = Cardinality(Q)
  BY <1>2, <1>3
<1>5. Q \subseteq Entries
  BY DEF Q, Entries
<1>6. s \in Seq(Entries)
  BY <1>4, <1>5, SeqMonotonic
<1>7. ASSUME NEW i \in Ids  PROVE Holds(s, i) <=> i \in Q
  BY <1>3, <1>4 DEF Holds
<1> QED BY <1>6, <1>7 DEF Q

\* stop() appends a sequence of sentinels.
LEMMA SentinelsIsSeq ==
    [k \in 1..Cardinality(Workers) |-> Sentinel] \in Seq(Entries)
<1>1. Cardinality(Workers) \in Nat
  BY FS_CardinalityType, VodQueueAssumption
<1> QED BY <1>1 DEF Entries

-----------------------------------------------------------------------------
(***************************************************************************)
(* Types, and that a worker at work has a job.                             *)
(***************************************************************************)

\* A worker that is not between two jobs works for a recording id.
WorkerHasJob == \A w \in Workers : pc[w] \in BusyState \cup {"publishing"} <=> job[w] \in Ids

\* While the application is down, nothing of the queue's memory exists.
DownIsEmpty ==
    mode = "down" =>
        /\ fifo = <<>> /\ cancelledQueued = {} /\ strays = {}
        /\ dropped = {} /\ unwritten = {} /\ again = {}
        /\ \A i \in Ids : pending[i] = 0 /\ runningProcs[i] = NoProc
        /\ \A w \in Workers : pc[w] = "exited" /\ job[w] = NoJob

TypeInv == TypeOK /\ WorkerHasJob

LEMMA InitTypeInv == Init => TypeInv
<1> SUFFICES ASSUME Init  PROVE TypeInv
  OBVIOUS
<1>1. NoJob \notin Ids /\ 0 \in 0..MaxIssues /\ 0 \in 0..MaxRestarts
  BY VodQueueAssumption DEF NoJob, Ids
<1>2. TypeOK
  BY <1>1 DEF Init, TypeOK, Status, WorkerState, BusyState, ChildState, Acks
<1>3. WorkerHasJob
  BY <1>1 DEF Init, WorkerHasJob, BusyState, ChildState
<1> QED BY <1>2, <1>3 DEF TypeInv

\* What every action that inserts a row does to the types.
LEMMA InsertType ==
    ASSUME TypeOK, NEW i \in Ids, NEW st \in [Ids -> Status], Insert(i, st)
    PROVE  /\ status' \in [Ids -> Status]
           /\ gen' \in [Ids -> 0..MaxIssues]
           /\ acked' \in [Ids -> Acks]
           /\ dropped' \subseteq Ids /\ unwritten' \subseteq Ids
BY VodQueueAssumption DEF Insert, NextId, TypeOK, Status, Acks

LEMMA EnqueueType ==
    ASSUME TypeOK, NEW i \in Ids, Enqueue(i)
    PROVE  fifo' \in Seq(Ids \cup {Sentinel})
BY AppendHolds DEF Enqueue, TypeOK

LEMMA WithoutType ==
    ASSUME TypeOK, NEW S \in SUBSET Ids
    PROVE  Without(S) \in [Ids -> Status]
BY DEF Without, TypeOK, Status

LEMMA ProduceType ==
    ASSUME TypeInv, NEW i \in Ids, Produce(i)
    PROVE  TypeInv'
<1> USE DEF TypeInv
<1>1. CASE CreateRecording(i)
  BY <1>1, InsertType, EnqueueType
  DEF CreateRecording, TypeOK, WorkerHasJob, workers
<1>2. CASE \E S \in SUBSET Ids : DvrPullDuringDelete(i, S)
  <2> PICK S \in SUBSET Ids : DvrPullDuringDelete(i, S)
    BY <1>2
  <2>1. Without(S) \in [Ids -> Status]
    BY WithoutType
  <2> QED BY <2>1, InsertType, EnqueueType
          DEF DvrPullDuringDelete, TypeOK, WorkerHasJob, workers
<1>3. CASE BatchInsert(i)
  BY <1>3, InsertType DEF BatchInsert, TypeOK, WorkerHasJob, workers
<1>4. CASE BatchEnqueue(i)
  BY <1>4, EnqueueType DEF BatchEnqueue, TypeOK, WorkerHasJob, rows, workers, history
<1>5. CASE BatchFails(i)
  BY <1>5 DEF BatchFails, TypeOK, WorkerHasJob, rows, workers
<1> QED BY <1>1, <1>2, <1>3, <1>4, <1>5 DEF Produce

LEMMA RequestType ==
    ASSUME TypeInv, NEW i \in Ids, Request(i)
    PROVE  TypeInv'
<1> USE DEF TypeInv
<1>1. CASE RetryVod(i)
  BY <1>1, EnqueueType DEF RetryVod, RetryFrom, TypeOK, WorkerHasJob, workers, Status, Acks
<1>2. CASE CancelVodDownload(i)
  <2>1. CASE CancelRunning(i)
    <3>1. pc' \in [Workers -> WorkerState]
      BY <2>1 DEF CancelRunning, TypeOK, WorkerState, BusyState, ChildState
    <3>4. acked' \in [Ids -> Acks]
      <4>1. acked' = [acked EXCEPT ![i] = "running"] /\ acked \in [Ids -> Acks]
        BY <2>1 DEF CancelRunning, TypeOK
      <4> QED BY <4>1 DEF Acks
    <3>2. \A w \in Workers : pc'[w] = pc[w] \/ (pc[w] = "alive" /\ pc'[w] = "terminated")
      BY <2>1 DEF CancelRunning, TypeOK
    <3>3. WorkerHasJob'
      BY <1>2, <3>2 DEF CancelVodDownload, WorkerHasJob, BusyState, ChildState
    <3> QED BY <1>2, <2>1, <3>1, <3>3, <3>4 DEF CancelVodDownload, CancelRunning, TypeOK, rows
  <2>2. CASE CancelQueued(i) \/ CancelNotFound(i)
    <3>1. acked' \in [Ids -> Acks] /\ cancelledQueued' \subseteq Ids
      BY <2>2 DEF CancelQueued, CancelNotFound, TypeOK, Acks
    <3>2. UNCHANGED pc
      BY <2>2 DEF CancelQueued, CancelNotFound
    <3> QED BY <1>2, <3>1, <3>2 DEF CancelVodDownload, TypeOK, WorkerHasJob, rows
  <2> QED BY <1>2, <2>1, <2>2 DEF CancelVodDownload
<1>3. CASE FinalizeRecording(i)
  BY <1>3 DEF FinalizeRecording, TypeOK, WorkerHasJob, memory, workers, Status, Acks
<1>4. CASE CancelBacklogDownload(i)
  BY <1>4 DEF CancelBacklogDownload, Without, TypeOK, WorkerHasJob, memory, workers, Status, Acks
<1> QED BY <1>1, <1>2, <1>3, <1>4 DEF Request

\* Whatever a worker does with it, it takes the head of the FIFO.
LEMMA TakeGets ==
    ASSUME NEW w \in Workers, Take(w)
    PROVE  Get(w)
BY DEF Take, TakeSentinel, TakeCancelled, TakeCancelledFails, SkipCancelled, TakeUnusable,
       TakeFails, TakeJob, StartJob

LEMMA TakeType ==
    ASSUME TypeInv, NEW w \in Workers, Take(w)
    PROVE  TypeInv'
<1> USE DEF TypeInv, GoTo, LoopTop
<1>1. fifo' \in Seq(Ids \cup {Sentinel}) /\ pc[w] = "waiting" /\ job[w] \notin Ids
  <2>1. Get(w)
    BY TakeGets
  <2>2. fifo' \in Seq(Ids \cup {Sentinel})
    BY <2>1, TailHolds DEF Get, TypeOK
  <2> QED BY <2>1, <2>2 DEF Get, WorkerHasJob, BusyState, ChildState
<1>2. CASE TakeSentinel(w)
  BY <1>1, <1>2
  DEF TakeSentinel, TypeOK, WorkerHasJob, rows, history, WorkerState, BusyState, ChildState
<1>3. CASE TakeCancelled(w)
  BY <1>1, <1>3
  DEF TakeCancelled, SkipCancelled, MarkCancelled, TypeOK, WorkerHasJob, history, Status,
      WorkerState, BusyState, ChildState
<1>4. CASE TakeUnusable(w)
  BY <1>1, <1>4
  DEF TakeUnusable, SetStatus, Unregister, TypeOK, WorkerHasJob, history, Status,
      WorkerState, BusyState, ChildState
<1>5. CASE TakeJob(w)
  BY <1>1, <1>5
  DEF TakeJob, StartJob, TypeOK, WorkerHasJob, history, Status, WorkerState, BusyState, ChildState
<1>6. CASE TakeCancelledFails(w)
  <2>1. Head(fifo) \in Ids
    BY <1>6 DEF TakeCancelledFails, SkipCancelled, TypeOK
  <2> QED BY <1>1, <1>6, <2>1
      DEF TakeCancelledFails, SkipCancelled, NotWritten, TypeOK, WorkerHasJob, WorkerState,
          BusyState, ChildState
<1>7. CASE TakeFails(w)
  <2>1. Head(fifo) \in Ids
    BY <1>7 DEF TakeFails
  <2>2. /\ status' \in [Ids -> Status]
        /\ unwritten' \subseteq Ids /\ UNCHANGED <<acked, dropped, again, restarts>>
    BY <1>7, <2>1 DEF TakeFails, SetStatus, NotWritten, history, TypeOK, Status
  <2>3. runningProcs' \in [Ids -> Workers \cup {NoProc}]
    BY <1>7 DEF TakeFails, Unregister, TypeOK
  <2>4. pc' \in [Workers -> WorkerState] /\ WorkerHasJob'
    BY <1>1, <1>7 DEF TakeFails, TypeOK, WorkerHasJob, WorkerState, BusyState, ChildState
  <2> QED BY <1>1, <1>7, <2>2, <2>3, <2>4 DEF TakeFails, TypeOK
<1> QED BY <1>2, <1>3, <1>4, <1>5, <1>6, <1>7 DEF Take

\* The end of a job leaves the worker without one.
LEMMA LeaveJobType ==
    ASSUME TypeInv, NEW w \in Workers, NEW next \in {"waiting", "exited"}, LeaveJob(w, next)
    PROVE  /\ WorkerHasJob'
           /\ runningProcs' \in [Ids -> Workers \cup {NoProc}]
           /\ pc' \in [Workers -> WorkerState]
           /\ job' \in [Workers -> Ids \cup {NoJob}]
<1> USE DEF TypeInv, TypeOK, LeaveJob
<1>1. NoJob \notin Ids
  BY VodQueueAssumption DEF Ids, NoJob
<1>2. next \in WorkerState \ (BusyState \cup {"publishing"})
  BY DEF WorkerState, BusyState, ChildState
<1>3. /\ pc' \in [Workers -> WorkerState]
      /\ \A v \in Workers : pc'[v] = IF v = w THEN next ELSE pc[v]
  BY <1>2 DEF GoTo
<1>4. /\ job' \in [Workers -> Ids \cup {NoJob}]
      /\ \A v \in Workers : job'[v] = IF v = w THEN NoJob ELSE job[v]
  OBVIOUS
<1>5. WorkerHasJob'
  BY <1>1, <1>2, <1>3, <1>4 DEF WorkerHasJob
<1>6. runningProcs' \in [Ids -> Workers \cup {NoProc}]
  BY DEF Unregister
<1> QED BY <1>3, <1>4, <1>5, <1>6

LEMMA EndJobLeaves ==
    ASSUME NEW w \in Workers, EndJob(w)
    PROVE  LoopTop \in {"waiting", "exited"} /\ LeaveJob(w, LoopTop)
BY DEF EndJob, LoopTop

LEMMA EndJobType ==
    ASSUME TypeInv, NEW w \in Workers, EndJob(w)
    PROVE  /\ WorkerHasJob'
           /\ runningProcs' \in [Ids -> Workers \cup {NoProc}]
           /\ pc' \in [Workers -> WorkerState]
           /\ job' \in [Workers -> Ids \cup {NoJob}]
BY EndJobLeaves, LeaveJobType

\* A row whose outcome cannot be written is a row.
LEMMA NotWrittenType ==
    ASSUME TypeInv, NEW i \in Ids, NotWritten(i)
    PROVE  /\ acked' \in [Ids -> Acks] /\ restarts' \in 0..MaxRestarts
           /\ dropped' \subseteq Ids /\ unwritten' \subseteq Ids /\ again' \subseteq Ids
BY DEF NotWritten, TypeInv, TypeOK

LEMMA HandlerRaisesType ==
    ASSUME TypeInv, NEW w \in Workers, pc[w] \in BusyState, HandlerRaises(w), strays' \subseteq Ids
    PROVE  TypeInv'
<1>1. job[w] \in Ids
  BY DEF TypeInv, WorkerHasJob
<1>2. status' \in [Ids -> Status]
  BY DEF HandlerRaises, SetStatus, TypeInv, TypeOK, Status
<1>3. /\ acked' \in [Ids -> Acks] /\ restarts' \in 0..MaxRestarts
      /\ dropped' \subseteq Ids /\ unwritten' \subseteq Ids /\ again' \subseteq Ids
  BY <1>1, NotWrittenType DEF HandlerRaises, history, TypeInv, TypeOK
<1>4. EndJob(w)
  BY DEF HandlerRaises
<1> QED BY <1>2, <1>3, <1>4, EndJobType DEF HandlerRaises, TypeInv, TypeOK

LEMMA HandleType ==
    ASSUME TypeInv, NEW w \in Workers, Handle(w)
    PROVE  TypeInv'
<1> USE DEF TypeInv
<1>1. CASE Spawned(w)
  BY <1>1
  DEF Spawned, GoTo, TypeOK, WorkerHasJob, rows, history, WorkerState, BusyState, ChildState
<1>2. CASE SpawnFails(w) \/ DrainRaises(w) \/ OutcomeRaises(w)
  <2>1. HandlerRaises(w) /\ pc[w] \in BusyState
    BY <1>2 DEF SpawnFails, DrainRaises, OutcomeRaises, BusyState, ChildState
  <2>2. job[w] \in Ids
    BY <2>1 DEF WorkerHasJob
  <2>3. strays' \subseteq Ids
    BY <1>2, <2>2 DEF SpawnFails, DrainRaises, OutcomeRaises, TypeOK
  <2> QED BY <2>1, <2>3, HandlerRaisesType
<1>3. CASE ReapFailure(w)
  BY <1>3, EndJobType DEF ReapFailure, SetStatus, TypeOK, Status, history
<1>4. CASE ReapSuccess(w)
  BY <1>4
  DEF ReapSuccess, Unregister, GoTo, TypeOK, WorkerHasJob, rows, history, WorkerState,
      BusyState, ChildState
<1>5. CASE Completed(w)
  <2>1. CASE EndJob(w)
    BY <1>5, <2>1, EndJobType DEF Completed, SetStatus, TypeOK, Status, history
  <2>2. CASE GoTo(w, "publishing") /\ UNCHANGED <<runningProcs, job>>
    BY <1>5, <2>2
    DEF Completed, SetStatus, GoTo, TypeOK, WorkerHasJob, Status, history, WorkerState,
        BusyState, ChildState
  <2> QED BY <1>5, <2>1, <2>2 DEF Completed
<1>6. CASE ReapCancelledFails(w)
  <2>1. job[w] \in Ids
    BY <1>6 DEF ReapCancelledFails, WorkerHasJob, BusyState, ChildState
  <2>2. LeaveJob(w, "exited") /\ NotWritten(job[w])
    BY <1>6 DEF ReapCancelledFails
  <2>3. /\ WorkerHasJob'
        /\ runningProcs' \in [Ids -> Workers \cup {NoProc}]
        /\ pc' \in [Workers -> WorkerState]
        /\ job' \in [Workers -> Ids \cup {NoJob}]
    BY <2>2, LeaveJobType
  <2> QED BY <1>6, <2>1, <2>2, <2>3, NotWrittenType DEF ReapCancelledFails, TypeOK, rows
<1> QED BY <1>1, <1>2, <1>3, <1>4, <1>5, <1>6 DEF Handle

LEMMA AutoPublishedType ==
    ASSUME TypeInv, NEW w \in Workers, AutoPublished(w)
    PROVE  TypeInv'
BY EndJobType DEF AutoPublished, TypeInv, TypeOK, rows, history

LEMMA ControlType ==
    ASSUME TypeInv, DownIsEmpty,
           Stop \/ GoDown \/ Startup \/ (\E w \in Workers : StopTimeout(w))
    PROVE  TypeInv'
<1> USE DEF TypeInv
<1>1. CASE Stop
  <2>1. fifo' \in Seq(Ids \cup {Sentinel})
    BY <1>1, SentinelsIsSeq, ConcatProperties DEF Stop, TypeOK, Entries
  <2> QED BY <1>1, <2>1 DEF Stop, TypeOK, WorkerHasJob, rows, workers, history
<1>2. CASE GoDown
  BY <1>2, VodQueueAssumption
  DEF GoDown, TypeOK, WorkerHasJob, rows, Acks, WorkerState, BusyState, ChildState, NoJob, Ids
<1>3. CASE Startup
  <2>1. Recovered \in [Ids -> Status]
    BY DEF Recovered, TypeOK, Status
  <2>2. fifo' \in Seq(Ids \cup {Sentinel})
    BY <1>3, <2>1, RehydratedIsSeq DEF Startup, StartupWith, Entries
  <2>3. \A w \in Workers : job[w] \notin Ids
    BY <1>3, VodQueueAssumption DEF Startup, StartupWith, DownIsEmpty, NoJob, Ids
  <2> QED BY <1>3, <2>1, <2>2, <2>3
      DEF Startup, StartupWith, TypeOK, WorkerHasJob, history, WorkerState, BusyState, ChildState
<1>4. CASE \E w \in Workers : StopTimeout(w)
  <2> PICK w \in Workers : StopTimeout(w)
    BY <1>4
  <2>1. job[w] \in Ids
    BY DEF StopTimeout, WorkerHasJob
  <2>2. strays' \subseteq Ids
    BY <2>1 DEF StopTimeout, TypeOK
  <2> QED BY <2>2, EndJobType DEF StopTimeout, TypeOK, rows, history
<1> QED BY <1>1, <1>2, <1>3, <1>4

LEMMA ChildExitsType ==
    ASSUME TypeInv, NEW w \in Workers, ChildExits(w)
    PROVE  TypeInv'
BY DEF TypeInv, ChildExits, GoTo, TypeOK, WorkerHasJob, rows, memory, history, WorkerState,
       BusyState, ChildState

LEMMA StrayExitsType ==
    ASSUME TypeInv, NEW i \in Ids, StrayExits(i)
    PROVE  TypeInv'
BY DEF TypeInv, StrayExits, TypeOK, WorkerHasJob, rows, memory, history

\* No step of a worker stops or restarts the application.
LEMMA TakeKeepsMode ==
    ASSUME NEW w \in Workers, Take(w)
    PROVE  mode' = mode
BY DEF Take, TakeSentinel, TakeCancelled, TakeCancelledFails, SkipCancelled, TakeUnusable,
       TakeFails, TakeJob, StartJob

LEMMA HandleKeepsMode ==
    ASSUME NEW w \in Workers, Handle(w)
    PROVE  mode' = mode
BY DEF Handle, Spawned, SpawnFails, DrainRaises, OutcomeRaises, HandlerRaises, ReapFailure,
       ReapCancelledFails, ReapSuccess, Completed

\* Down, only Startup is possible, and going down empties the memory.
LEMMA StepDownIsEmpty ==
    ASSUME TypeInv, DownIsEmpty, [Next]_vars
    PROVE  DownIsEmpty'
<1> SUFFICES ASSUME mode' = "down"  PROVE DownIsEmpty'
  BY DEF DownIsEmpty
<1> USE DEF TypeInv
<1>1. CASE GoDown
  BY <1>1 DEF GoDown, DownIsEmpty, TypeOK
<1>2. CASE mode = "down" /\ Next
  <2>1. \A w \in Workers : pc[w] = "exited"
    BY <1>2 DEF DownIsEmpty
  <2>2. \A w \in Workers :
          ~(Take(w) \/ Handle(w) \/ AutoPublished(w) \/ ChildExits(w) \/ StopTimeout(w))
    BY <1>2, <2>1, TakeGets
    DEF Get, Handle, Spawned, SpawnFails, DrainRaises, ReapFailure, ReapCancelledFails,
        ReapSuccess, Completed, OutcomeRaises, AutoPublished, ChildExits, StopTimeout
  <2>3. \A i \in Ids : ~(Produce(i) \/ Request(i))
    BY <1>2
    DEF Produce, CreateRecording, DvrPullDuringDelete, BatchInsert, BatchEnqueue, BatchFails,
        Request, RetryVod, RetryFrom, CancelVodDownload, FinalizeRecording,
        CancelBacklogDownload
  <2>4. /\ ~Stop /\ ~GoDown /\ ~Startup
        /\ \A S \in SUBSET Ids : ~DeleteStream(S)
        /\ \A i \in Ids : ~StrayExits(i)
    BY <1>2 DEF Stop, GoDown, Startup, StartupWith, DeleteStream, StrayExits, DownIsEmpty
  <2> QED BY <1>2, <2>2, <2>3, <2>4 DEF Next
<1>3. CASE mode # "down" /\ Next /\ ~GoDown
  <2>1. mode' # "down"
    <3>1. ASSUME NEW i \in Ids, Produce(i) \/ Request(i)  PROVE mode' = mode
      BY <3>1
      DEF Produce, CreateRecording, DvrPullDuringDelete, BatchInsert, BatchEnqueue, BatchFails,
          Request, RetryVod, RetryFrom, CancelVodDownload, FinalizeRecording,
          CancelBacklogDownload
    <3>2. ASSUME NEW w \in Workers,
                 Take(w) \/ Handle(w) \/ AutoPublished(w) \/ ChildExits(w) \/ StopTimeout(w)
          PROVE  mode' = mode
      BY <3>2, TakeKeepsMode, HandleKeepsMode DEF AutoPublished, ChildExits, StopTimeout
    <3>3. ASSUME NEW S \in SUBSET Ids, DeleteStream(S)  PROVE mode' = mode
      BY <3>3 DEF DeleteStream
    <3>4. ASSUME NEW i \in Ids, StrayExits(i)  PROVE mode' = mode
      BY <3>4 DEF StrayExits
    <3> QED BY <1>3, <3>1, <3>2, <3>3, <3>4 DEF Next, Stop, Startup, StartupWith
  <2> QED BY <2>1
<1>4. CASE UNCHANGED vars
  BY <1>4 DEF DownIsEmpty, vars, memory, workers, history
<1> QED BY <1>1, <1>2, <1>3, <1>4

LEMMA StepTypeInv ==
    ASSUME TypeInv, DownIsEmpty, [Next]_vars
    PROVE  TypeInv'
<1>1. ASSUME NEW i \in Ids, Produce(i) \/ Request(i)  PROVE TypeInv'
  BY <1>1, ProduceType, RequestType
<1>2. ASSUME NEW S \in SUBSET Ids, DeleteStream(S)  PROVE TypeInv'
  BY <1>2, WithoutType DEF DeleteStream, TypeInv, TypeOK, WorkerHasJob, memory, workers, history
<1>3. ASSUME NEW w \in Workers, Take(w) \/ Handle(w) \/ AutoPublished(w) \/ ChildExits(w)
      PROVE  TypeInv'
  BY <1>3, TakeType, HandleType, AutoPublishedType, ChildExitsType
<1>4. ASSUME NEW i \in Ids, StrayExits(i)  PROVE TypeInv'
  BY <1>4, StrayExitsType
<1>5. CASE UNCHANGED vars
  BY <1>5 DEF TypeInv, TypeOK, WorkerHasJob, vars, rows, memory, workers, history
<1> QED BY <1>1, <1>2, <1>3, <1>4, <1>5, ControlType DEF Next

\* The types, and what they rest on, hold in every reachable state.
THEOREM TypeInvariant == Spec => [](TypeInv /\ DownIsEmpty)
<1>1. Init => TypeInv /\ DownIsEmpty
  BY InitTypeInv DEF Init, DownIsEmpty
<1>2. TypeInv /\ DownIsEmpty /\ [Next]_vars => (TypeInv /\ DownIsEmpty)'
  BY StepTypeInv, StepDownIsEmpty
<1> QED BY <1>1, <1>2, PTL DEF Spec

\* VodQueue's variables keep their types: statuses, FIFO entries and registry
\* entries stay within what the code can hold.
THEOREM TypeCorrect == Spec => []TypeOK
BY TypeInvariant, PTL DEF TypeInv

-----------------------------------------------------------------------------
(***************************************************************************)
(* A downloading row is in the hands of a worker.                          *)
(***************************************************************************)

\* A worker downloads for row i.
WorksOn(i) == \E w \in Workers : pc[w] \in BusyState /\ job[w] = i

\* The end of w's job is harmless for a row that is not downloading afterwards
\* when it was w's own.
LEMMA LeaveJobKeepsWorkers ==
    ASSUME TypeInv, NEW w \in Workers, NEW next, LeaveJob(w, next),
           NEW i \in Ids, i # job[w], WorksOn(i)
    PROVE  WorksOn(i)'
<1>1. PICK v \in Workers : pc[v] \in BusyState /\ job[v] = i
  BY DEF WorksOn
<1>2. v # w
  BY <1>1
<1>3. pc'[v] = pc[v] /\ job'[v] = job[v]
  BY <1>2 DEF LeaveJob, GoTo, TypeInv, TypeOK
<1> QED BY <1>1, <1>3 DEF WorksOn

LEMMA EndJobKeepsWorkers ==
    ASSUME TypeInv, NEW w \in Workers, EndJob(w),
           NEW i \in Ids, i # job[w], WorksOn(i)
    PROVE  WorksOn(i)'
BY EndJobLeaves, LeaveJobKeepsWorkers

\* A worker that moves to another state of the same job keeps it.
LEMMA MoveKeepsWorkers ==
    ASSUME TypeInv, NEW w \in Workers, NEW state \in WorkerState, GoTo(w, state), job' = job,
           pc[w] \in BusyState => state \in BusyState,
           NEW i \in Ids, WorksOn(i)
    PROVE  WorksOn(i)'
<1>1. PICK v \in Workers : pc[v] \in BusyState /\ job[v] = i
  BY DEF WorksOn
<1>2. pc'[v] = IF v = w THEN state ELSE pc[v]
  BY DEF GoTo, TypeInv, TypeOK
<1>3. pc'[v] \in BusyState /\ job'[v] = i
  BY <1>1, <1>2
<1> QED BY <1>3 DEF WorksOn

\* Taking an entry while the worker waits.
LEMMA TakeKeepsWorkers ==
    ASSUME TypeInv, DownloadingHasWorker, NEW w \in Workers, Take(w)
    PROVE  DownloadingHasWorker'
<1> SUFFICES ASSUME mode' = "up", NEW i \in Ids, status'[i] = "vod_downloading",
                    i \notin unwritten'
             PROVE  WorksOn(i)'
  BY DEF DownloadingHasWorker, WorksOn
<1> DEFINE h == Head(fifo)
<1>1. Get(w) /\ pc[w] = "waiting" /\ pc[w] \notin BusyState
  BY TakeGets DEF Get, BusyState, ChildState
<1>2. i \notin unwritten
  BY DEF Take, TakeSentinel, TakeCancelled, TakeCancelledFails, SkipCancelled, TakeUnusable,
         TakeFails, NotWritten, TakeJob, StartJob, history
<1>3. mode = "up" /\ (status[i] = "vod_downloading" => WorksOn(i))
  BY <1>2, TakeKeepsMode DEF DownloadingHasWorker, WorksOn
<1>4. CASE TakeJob(w)
  <2>1. CASE i = h
    <3>1. pc'[w] = "spawning" /\ job'[w] = i
      BY <1>4, <2>1 DEF TakeJob, StartJob, GoTo, TypeInv, TypeOK
    <3> QED BY <3>1 DEF WorksOn, BusyState
  <2>2. CASE i # h
    <3>1. status[i] = "vod_downloading"
      BY <1>4, <2>2 DEF TakeJob, StartJob, TypeInv, TypeOK
    <3>2. PICK v \in Workers : pc[v] \in BusyState /\ job[v] = i
      BY <1>3, <3>1 DEF WorksOn
    <3>3. pc'[v] = pc[v] /\ job'[v] = job[v]
      BY <1>1, <1>4, <3>2 DEF TakeJob, StartJob, GoTo, TypeInv, TypeOK
    <3> QED BY <3>2, <3>3 DEF WorksOn
  <2> QED BY <2>1, <2>2
<1>5. CASE TakeSentinel(w) \/ TakeCancelled(w) \/ TakeCancelledFails(w) \/ TakeUnusable(w)
             \/ TakeFails(w)
  <2>1. status[i] = "vod_downloading"
    <3>1. CASE TakeFails(w)
      BY <3>1 DEF TakeFails, SetStatus, NotWritten, TypeInv, TypeOK
    <3>2. CASE TakeSentinel(w) \/ TakeCancelled(w) \/ TakeCancelledFails(w) \/ TakeUnusable(w)
      BY <3>2
      DEF TakeSentinel, TakeCancelled, TakeCancelledFails, MarkCancelled, TakeUnusable,
          SetStatus, Exists, rows, TypeInv, TypeOK
    <3> QED BY <1>5, <3>1, <3>2
  <2>2. PICK v \in Workers : pc[v] \in BusyState /\ job[v] = i
    BY <1>3, <2>1 DEF WorksOn
  <2>3. pc'[v] = pc[v] /\ job'[v] = job[v]
    BY <1>1, <1>5, <2>2
    DEF TakeSentinel, TakeCancelled, TakeCancelledFails, SkipCancelled, TakeUnusable, TakeFails,
        GoTo, TypeInv, TypeOK
  <2> QED BY <2>2, <2>3 DEF WorksOn
<1> QED BY <1>4, <1>5 DEF Take

\* A job that ends leaves its own row in a final status, or unwritten.
LEMMA HandlerRaisesKeepsWorkers ==
    ASSUME TypeInv, NEW w \in Workers, HandlerRaises(w),
           NEW i \in Ids, status'[i] = "vod_downloading", i \notin unwritten'
    PROVE  i # job[w] /\ status[i] = "vod_downloading" /\ EndJob(w)
BY DEF HandlerRaises, SetStatus, Exists, NotWritten, TypeInv, TypeOK

\* The steps of the handler.
LEMMA HandleKeepsWorkers ==
    ASSUME TypeInv, DownloadingHasWorker, NEW w \in Workers, Handle(w)
    PROVE  DownloadingHasWorker'
<1> SUFFICES ASSUME mode' = "up", NEW i \in Ids, status'[i] = "vod_downloading",
                    i \notin unwritten'
             PROVE  WorksOn(i)'
  BY DEF DownloadingHasWorker, WorksOn
<1>0. i \notin unwritten
  BY DEF Handle, Spawned, SpawnFails, DrainRaises, OutcomeRaises, HandlerRaises, ReapFailure,
         ReapCancelledFails, ReapSuccess, Completed, NotWritten, history
<1>1. mode = "up" /\ (status[i] = "vod_downloading" => WorksOn(i))
  BY <1>0, HandleKeepsMode DEF DownloadingHasWorker, WorksOn
<1>2. ASSUME NEW new \in {"vod_failed", "vod_cancelled", "complete"},
             SetStatus(job[w], new), EndJob(w)
      PROVE  WorksOn(i)'
  <2>1. i # job[w] /\ status[i] = "vod_downloading"
    BY <1>2 DEF SetStatus, Exists, TypeInv, TypeOK
  <2> QED BY <1>1, <1>2, <2>1, EndJobKeepsWorkers
<1>3. CASE SpawnFails(w) \/ DrainRaises(w) \/ OutcomeRaises(w)
  <2>1. HandlerRaises(w)
    BY <1>3 DEF SpawnFails, DrainRaises, OutcomeRaises
  <2> QED BY <1>1, <2>1, HandlerRaisesKeepsWorkers, EndJobKeepsWorkers
<1>4. CASE Spawned(w) \/ ReapSuccess(w)
  <2>1. status[i] = "vod_downloading" /\ job' = job
    BY <1>4 DEF Spawned, ReapSuccess, rows
  <2>2. \E state \in BusyState : GoTo(w, state)
    BY <1>4 DEF Spawned, ReapSuccess, BusyState, ChildState
  <2>3. BusyState \subseteq WorkerState
    BY DEF WorkerState
  <2> QED BY <1>1, <2>1, <2>2, <2>3, MoveKeepsWorkers
<1>5. CASE Completed(w)
  <2>1. CASE EndJob(w)
    BY <1>2, <1>5, <2>1 DEF Completed
  <2>2. CASE GoTo(w, "publishing") /\ job' = job
    <3>1. i # job[w] /\ status[i] = "vod_downloading"
      BY <1>5 DEF Completed, SetStatus, Exists, TypeInv, TypeOK
    <3>2. PICK v \in Workers : pc[v] \in BusyState /\ job[v] = i
      BY <1>1, <3>1 DEF WorksOn
    <3>3. pc'[v] = pc[v] /\ job'[v] = job[v]
      BY <2>2, <3>1, <3>2 DEF GoTo, TypeInv, TypeOK
    <3> QED BY <3>2, <3>3 DEF WorksOn
  <2> QED BY <1>5, <2>1, <2>2 DEF Completed
<1>6. CASE ReapFailure(w)
  BY <1>2, <1>6 DEF ReapFailure
<1>7. CASE ReapCancelledFails(w)
  <2>1. i # job[w] /\ status[i] = "vod_downloading" /\ LeaveJob(w, "exited")
    BY <1>7 DEF ReapCancelledFails, NotWritten, rows
  <2> QED BY <1>1, <2>1, LeaveJobKeepsWorkers
<1> QED BY <1>3, <1>4, <1>5, <1>6, <1>7 DEF Handle

\* The end of a publication.
LEMMA AutoPublishedKeepsWorkers ==
    ASSUME TypeInv, DownloadingHasWorker, NEW w \in Workers, AutoPublished(w)
    PROVE  DownloadingHasWorker'
<1> SUFFICES ASSUME mode = "up", NEW i \in Ids, status[i] = "vod_downloading", WorksOn(i)
             PROVE  WorksOn(i)'
  BY DEF DownloadingHasWorker, WorksOn, AutoPublished, rows, history
<1>1. PICK v \in Workers : pc[v] \in BusyState /\ job[v] = i
  BY DEF WorksOn
<1>2. v # w
  BY <1>1 DEF AutoPublished, BusyState, ChildState
<1>3. pc'[v] = pc[v] /\ job'[v] = job[v]
  BY <1>2 DEF AutoPublished, EndJob, LeaveJob, GoTo, TypeInv, TypeOK
<1> QED BY <1>1, <1>3 DEF WorksOn

\* No other step touches a worker of a downloading row while the queue is up.
LEMMA OthersKeepWorkers ==
    ASSUME TypeInv, DownIsEmpty, DownloadingHasWorker,
           \/ \E i \in Ids : Produce(i) \/ Request(i) \/ StrayExits(i)
           \/ \E S \in SUBSET Ids : DeleteStream(S)
           \/ \E w \in Workers : ChildExits(w) \/ StopTimeout(w)
           \/ Stop \/ GoDown \/ Startup
    PROVE  DownloadingHasWorker'
<1> SUFFICES ASSUME mode' = "up", NEW i \in Ids, status'[i] = "vod_downloading",
                    i \notin unwritten'
             PROVE  WorksOn(i)'
  BY DEF DownloadingHasWorker, WorksOn
<1>1. ASSUME mode = "up", status[i] = "vod_downloading", i \notin unwritten, job' = job,
             \A w \in Workers : pc'[w] = pc[w] \/ (pc[w] \in BusyState /\ pc'[w] \in BusyState)
      PROVE  WorksOn(i)'
  BY <1>1 DEF DownloadingHasWorker, WorksOn
<1>2. ASSUME NEW k \in Ids, Produce(k)  PROVE WorksOn(i)'
  <2>1. /\ mode = "up" /\ UNCHANGED workers
        /\ status[i] = "vod_downloading" /\ i \notin unwritten
    BY <1>2
    DEF Produce, CreateRecording, DvrPullDuringDelete, BatchInsert, BatchEnqueue, BatchFails,
        Insert, Without, rows, history, TypeInv, TypeOK
  <2> QED BY <1>1, <2>1 DEF workers
<1>3. ASSUME NEW k \in Ids, Request(k)  PROVE WorksOn(i)'
  <2>1. CASE CancelVodDownload(k)
    <3>1. \A w \in Workers : pc'[w] = pc[w] \/ (pc[w] = "alive" /\ pc'[w] = "terminated")
      BY <2>1 DEF CancelVodDownload, CancelRunning, CancelQueued, CancelNotFound, TypeInv, TypeOK
    <3> QED BY <1>1, <2>1, <3>1 DEF CancelVodDownload, rows, BusyState, ChildState
  <2>2. CASE RetryVod(k) \/ FinalizeRecording(k) \/ CancelBacklogDownload(k)
    BY <1>1, <2>2
    DEF RetryVod, RetryFrom, FinalizeRecording, CancelBacklogDownload, Without, workers,
        TypeInv, TypeOK
  <2> QED BY <1>3, <2>1, <2>2 DEF Request
<1>4. ASSUME NEW S \in SUBSET Ids, DeleteStream(S)  PROVE WorksOn(i)'
  BY <1>1, <1>4 DEF DeleteStream, Without, workers, history, TypeInv, TypeOK
<1>5. ASSUME NEW w \in Workers, ChildExits(w)  PROVE WorksOn(i)'
  <2>1. \A v \in Workers : pc'[v] = pc[v] \/ (pc[v] \in BusyState /\ pc'[v] \in BusyState)
    BY <1>5 DEF ChildExits, GoTo, BusyState, ChildState, TypeInv, TypeOK
  <2> QED BY <1>1, <1>5, <2>1 DEF ChildExits, rows, history
<1>6. CASE Startup
  BY <1>6 DEF Startup, StartupWith, Recovered, TypeInv, TypeOK
<1>7. CASE Stop \/ GoDown \/ \E w \in Workers : StopTimeout(w)
  BY <1>7 DEF Stop, GoDown, StopTimeout
<1>8. ASSUME NEW k \in Ids, StrayExits(k)  PROVE WorksOn(i)'
  BY <1>1, <1>8 DEF StrayExits, rows, history
<1> QED BY <1>2, <1>3, <1>4, <1>5, <1>6, <1>7, <1>8

\* While the queue is up a row that says vod_downloading has a worker, unless a
\* write of its status failed: every way out of the handler, cancel, shutdown
\* and recovery between them leave no other one stuck, however ids are reused
\* and whatever stale entries the FIFO holds.
THEOREM DownloadingNeverStuck == Spec => []DownloadingHasWorker
<1>1. Init => DownloadingHasWorker
  BY DEF Init, DownloadingHasWorker
<1>2. ASSUME TypeInv, DownIsEmpty, DownloadingHasWorker, [Next]_vars
      PROVE  DownloadingHasWorker'
  <2>1. CASE Next
    BY <1>2, <2>1, TakeKeepsWorkers, HandleKeepsWorkers, AutoPublishedKeepsWorkers,
       OthersKeepWorkers DEF Next
  <2>2. CASE UNCHANGED vars
    BY <1>2, <2>2 DEF DownloadingHasWorker, vars, rows, workers, history
  <2> QED BY <1>2, <2>1, <2>2
<1> QED BY <1>1, <1>2, TypeInvariant, PTL DEF Spec

-----------------------------------------------------------------------------
(***************************************************************************)
(* A waiting row is on its way to a worker.                                *)
(***************************************************************************)

Scheduled(i) == InFifo(i) \/ pending[i] > 0 \/ i \in dropped \cup unwritten

\* Enqueueing any id schedules it, and keeps every other row scheduled.
LEMMA EnqueueSchedules ==
    ASSUME TypeInv, NEW i \in Ids, Enqueue(i), NEW k \in Ids
    PROVE  InFifo(k)' <=> InFifo(k) \/ k = i
<1>1. fifo \in Seq(Entries) /\ i \in Entries /\ fifo' = Append(fifo, i)
  BY DEF Enqueue, TypeInv, TypeOK, Entries
<1>2. Holds(fifo', k) <=> Holds(fifo, k) \/ k = i
  BY <1>1, AppendHolds
<1> QED BY <1>2 DEF InFifo, Holds

LEMMA InsertSchedules ==
    ASSUME TypeInv, QueuedIsScheduled, mode = "up", NEW i \in Ids, NEW st, Insert(i, st),
           \A k \in Ids : k # i /\ st[k] = "vod_queued" => status[k] = "vod_queued",
           st \in [Ids -> Status],
           InFifo(i)' \/ pending'[i] > 0,
           \A k \in Ids : k # i => /\ InFifo(k) => InFifo(k)'
                                   /\ pending[k] > 0 => pending'[k] > 0
    PROVE  QueuedIsScheduled'
<1> SUFFICES ASSUME NEW k \in Ids, status'[k] = "vod_queued", k # i  PROVE Scheduled(k)'
  BY DEF QueuedIsScheduled, Scheduled
<1>1. st[k] = "vod_queued"
  BY DEF Insert
<1>2. Scheduled(k)
  BY <1>1 DEF QueuedIsScheduled, Scheduled
<1> QED BY <1>2 DEF Scheduled, Insert

LEMMA ProduceSchedules ==
    ASSUME TypeInv, QueuedIsScheduled, NEW i \in Ids, Produce(i)
    PROVE  QueuedIsScheduled'
<1> SUFFICES ASSUME mode = "up"  PROVE QueuedIsScheduled'
  BY DEF QueuedIsScheduled, Produce, CreateRecording, DvrPullDuringDelete, BatchInsert,
         BatchEnqueue, BatchFails
<1>0. status \in [Ids -> Status]
  BY DEF TypeInv, TypeOK
<1>1. CASE CreateRecording(i)
  BY <1>0, <1>1, InsertSchedules, EnqueueSchedules DEF CreateRecording
<1>2. CASE \E S \in SUBSET Ids : DvrPullDuringDelete(i, S)
  <2> PICK S \in SUBSET Ids : DvrPullDuringDelete(i, S)
    BY <1>2
  <2>1. Without(S) \in [Ids -> Status]
    BY WithoutType DEF TypeInv
  <2>2. \A k \in Ids : Without(S)[k] = "vod_queued" => status[k] = "vod_queued"
    BY DEF Without
  <2> QED BY <2>1, <2>2, InsertSchedules, EnqueueSchedules DEF DvrPullDuringDelete
<1>3. CASE BatchInsert(i)
  <2>1. pending'[i] > 0 /\ \A k \in Ids : k # i => pending'[k] = pending[k]
    BY <1>3 DEF BatchInsert, TypeInv, TypeOK
  <2>2. \A k \in Ids : InFifo(k) => InFifo(k)'
    BY <1>3 DEF BatchInsert, InFifo
  <2> QED BY <1>0, <1>3, <2>1, <2>2, InsertSchedules DEF BatchInsert
<1>4. CASE BatchEnqueue(i)
  <2>1. \A k \in Ids : k # i => pending'[k] = pending[k]
    BY <1>4 DEF BatchEnqueue, TypeInv, TypeOK
  <2>2. \A k \in Ids : InFifo(k)' <=> InFifo(k) \/ k = i
    BY <1>4, EnqueueSchedules DEF BatchEnqueue
  <2> QED BY <1>4, <2>1, <2>2 DEF BatchEnqueue, QueuedIsScheduled, rows, history
<1>5. CASE BatchFails(i)
  <2>1. \A k \in Ids : k # i => pending'[k] = pending[k]
    BY <1>5 DEF BatchFails, TypeInv, TypeOK
  <2>2. \A k \in Ids : InFifo(k)' <=> InFifo(k)
    BY <1>5 DEF BatchFails, InFifo
  <2>3. unwritten' = unwritten /\ dropped' = dropped \cup {i}
    BY <1>5 DEF BatchFails
  <2> QED BY <1>5, <2>1, <2>2, <2>3 DEF BatchFails, QueuedIsScheduled, rows
<1> QED BY <1>1, <1>2, <1>3, <1>4, <1>5 DEF Produce

\* A step that leaves the FIFO, the batches and the mode alone and makes no row wait.
LEMMA QuietSchedules ==
    ASSUME QueuedIsScheduled, UNCHANGED <<fifo, pending, dropped, mode>>,
           unwritten \subseteq unwritten',
           \A k \in Ids : status'[k] = "vod_queued" => status[k] = "vod_queued"
    PROVE  QueuedIsScheduled'
BY DEF QueuedIsScheduled, InFifo

LEMMA RequestSchedules ==
    ASSUME TypeInv, QueuedIsScheduled, NEW i \in Ids, Request(i)
    PROVE  QueuedIsScheduled'
<1>1. CASE RetryVod(i)
  <2>1. \A k \in Ids : InFifo(k)' <=> InFifo(k) \/ k = i
    BY <1>1, EnqueueSchedules DEF RetryVod
  <2>2. \A k \in Ids : k # i => status'[k] = status[k]
    BY <1>1 DEF RetryVod, RetryFrom, TypeInv, TypeOK
  <2> QED BY <1>1, <2>1, <2>2 DEF RetryVod, RetryFrom, QueuedIsScheduled
<1>2. CASE CancelVodDownload(i)
  BY <1>2, QuietSchedules DEF CancelVodDownload, rows
<1>3. CASE FinalizeRecording(i)
  BY <1>3, QuietSchedules DEF FinalizeRecording, memory, TypeInv, TypeOK
<1>4. CASE CancelBacklogDownload(i)
  BY <1>4, QuietSchedules DEF CancelBacklogDownload, Without, memory
<1> QED BY <1>1, <1>2, <1>3, <1>4 DEF Request

\* What a failed write leaves behind.
LEMMA TakeWrites ==
    ASSUME NEW w \in Workers, Take(w)
    PROVE  /\ UNCHANGED <<gen, pending, acked, dropped, strays, again, mode>>
           /\ unwritten \subseteq unwritten'
BY DEF Take, TakeSentinel, TakeCancelled, TakeCancelledFails, SkipCancelled, TakeUnusable,
       TakeFails, NotWritten, TakeJob, StartJob, rows, history

LEMMA HandleWrites ==
    ASSUME NEW w \in Workers, Handle(w) \/ AutoPublished(w)
    PROVE  /\ UNCHANGED <<gen, fifo, pending, cancelledQueued, acked, dropped, again, mode>>
           /\ strays' \in {strays, strays \cup {job[w]}}
           /\ unwritten \subseteq unwritten'
BY DEF Handle, Spawned, SpawnFails, DrainRaises, OutcomeRaises, HandlerRaises, ReapFailure,
       ReapCancelledFails, ReapSuccess, Completed, AutoPublished, NotWritten, rows, memory, history

\* An entry leaves the FIFO only with its row no longer waiting, or unwritten.
LEMMA TakeSchedules ==
    ASSUME TypeInv, QueuedIsScheduled, NEW w \in Workers, Take(w)
    PROVE  QueuedIsScheduled'
<1> DEFINE h == Head(fifo)
<1>1. Get(w) /\ fifo \in Seq(Entries) /\ fifo # <<>>
  BY TakeGets DEF Get, TypeInv, TypeOK, Entries
<1>2. \A k \in Ids : InFifo(k) => k = h \/ InFifo(k)'
  BY <1>1, TailHolds DEF InFifo, Holds, Get
<1>3. UNCHANGED <<pending, dropped, mode>> /\ unwritten \subseteq unwritten'
  BY TakeWrites
<1>4. \A k \in Ids : status'[k] = "vod_queued" =>
          status[k] = "vod_queued" /\ (k # h \/ k \in unwritten')
  <2>1. CASE TakeSentinel(w)
    BY <2>1, VodQueueAssumption DEF TakeSentinel, rows, Ids, Sentinel
  <2>2. CASE TakeCancelled(w)
    BY <2>2 DEF TakeCancelled, MarkCancelled, TypeInv, TypeOK
  <2>3. CASE TakeUnusable(w)
    BY <2>3 DEF TakeUnusable, SetStatus, Exists, TypeInv, TypeOK
  <2>4. CASE TakeJob(w)
    BY <2>4 DEF TakeJob, StartJob, TypeInv, TypeOK
  <2>5. CASE TakeCancelledFails(w)
    BY <2>5 DEF TakeCancelledFails, NotWritten
  <2>6. CASE TakeFails(w)
    BY <2>6 DEF TakeFails, SetStatus, Exists, NotWritten, TypeInv, TypeOK
  <2> QED BY <2>1, <2>2, <2>3, <2>4, <2>5, <2>6 DEF Take
<1> QED BY <1>2, <1>3, <1>4 DEF QueuedIsScheduled

\* What a worker with a job may do to the statuses.
LEMMA HandleSetsStatus ==
    ASSUME NEW w \in Workers, Handle(w) \/ AutoPublished(w)
    PROVE  \/ status' = status
           \/ \E new \in {"vod_failed", "vod_cancelled", "complete"} : SetStatus(job[w], new)
BY DEF Handle, Spawned, SpawnFails, DrainRaises, OutcomeRaises, HandlerRaises, ReapFailure,
       ReapCancelledFails, ReapSuccess, Completed, AutoPublished, rows

LEMMA OthersSchedule ==
    ASSUME TypeInv, QueuedIsScheduled,
           \/ \E S \in SUBSET Ids : DeleteStream(S)
           \/ \E w \in Workers : Handle(w) \/ AutoPublished(w) \/ ChildExits(w) \/ StopTimeout(w)
           \/ \E i \in Ids : StrayExits(i)
           \/ Stop \/ GoDown \/ Startup
    PROVE  QueuedIsScheduled'
<1>1. ASSUME NEW S \in SUBSET Ids, DeleteStream(S)  PROVE QueuedIsScheduled'
  BY <1>1, QuietSchedules DEF DeleteStream, Without, memory, history
<1>2. ASSUME NEW w \in Workers, Handle(w) \/ AutoPublished(w)  PROVE QueuedIsScheduled'
  <2>1. UNCHANGED <<fifo, pending, dropped, mode>> /\ unwritten \subseteq unwritten'
    BY <1>2, HandleWrites
  <2>2. \A k \in Ids : status'[k] = "vod_queued" => status[k] = "vod_queued"
    BY <1>2, HandleSetsStatus DEF SetStatus, TypeInv, TypeOK
  <2> QED BY <2>1, <2>2, QuietSchedules
<1>3. ASSUME NEW w \in Workers, ChildExits(w) \/ StopTimeout(w)  PROVE QueuedIsScheduled'
  BY <1>3, QuietSchedules DEF ChildExits, StopTimeout, rows, memory, history
<1>4. CASE Stop \/ GoDown
  BY <1>4 DEF Stop, GoDown, QueuedIsScheduled
<1>5. CASE Startup
  <2>1. Recovered \in [Ids -> Status] /\ fifo' \in Rehydrated(Recovered) /\ status' = Recovered
    BY <1>5 DEF Startup, StartupWith, Recovered, TypeInv, TypeOK, Status
  <2>2. \A i \in Ids : Holds(fifo', i) <=> status'[i] = "vod_queued"
    BY <2>1, RehydratedIsSeq
  <2> QED BY <2>2 DEF QueuedIsScheduled, InFifo, Holds
<1>6. ASSUME NEW i \in Ids, StrayExits(i)  PROVE QueuedIsScheduled'
  BY <1>6, QuietSchedules DEF StrayExits, rows, memory, history
<1> QED BY <1>1, <1>2, <1>3, <1>4, <1>5, <1>6

\* A row that waits for a slot is in the FIFO or in the list of a batch request
\* (unless that failed, or the write of its new status did): retry, recovery, rehydration and stale entries
\* never lose a row.
THEOREM QueuedNeverLost == Spec => []QueuedIsScheduled
<1>1. Init => QueuedIsScheduled
  BY DEF Init, QueuedIsScheduled
<1>2. ASSUME TypeInv, QueuedIsScheduled, [Next]_vars  PROVE QueuedIsScheduled'
  <2>1. CASE Next
    BY <1>2, <2>1, ProduceSchedules, RequestSchedules, TakeSchedules, OthersSchedule DEF Next
  <2>2. CASE UNCHANGED vars
    BY <1>2, <2>2, QuietSchedules DEF vars, rows, memory, history
  <2> QED BY <1>2, <2>1, <2>2
<1> QED BY <1>1, <1>2, TypeInvariant, PTL DEF Spec

-----------------------------------------------------------------------------
(***************************************************************************)
(* At most one worker per row.  The handler has no guard of its own; what  *)
(* keeps two workers apart is that a row given a fresh id has at most one  *)
(* entry among the FIFO, the batches and the workers.                      *)
(***************************************************************************)

\* A sequence s holds x at most once.
Once(s, x) == \A j, k \in 1..Len(s) : s[j] = x /\ s[k] = x => j = k

LEMMA AppendOnce ==
    ASSUME NEW S, NEW s \in Seq(S), NEW e \in S, NEW x, Once(s, x), x = e => ~Holds(s, x)
    PROVE  Once(Append(s, e), x)
<1> DEFINE t == Append(s, e)
<1>1. Len(t) = Len(s) + 1 /\ Len(s) \in Nat
  OBVIOUS
<1>2. \A k \in 1..Len(t) : t[k] = IF k <= Len(s) THEN s[k] ELSE e
  OBVIOUS
<1>3. SUFFICES ASSUME NEW j \in 1..Len(t), NEW k \in 1..Len(t), t[j] = x, t[k] = x
               PROVE  j = k
  BY DEF Once
<1>4. CASE j <= Len(s) /\ k <= Len(s)
  BY <1>1, <1>2, <1>3, <1>4 DEF Once
<1>5. CASE j <= Len(s) /\ k > Len(s)
  BY <1>1, <1>2, <1>3, <1>5 DEF Holds
<1>6. CASE j > Len(s) /\ k <= Len(s)
  BY <1>1, <1>2, <1>3, <1>6 DEF Holds
<1>7. CASE j > Len(s) /\ k > Len(s)
  BY <1>1, <1>3, <1>7
<1> QED BY <1>1, <1>3, <1>4, <1>5, <1>6, <1>7

LEMMA TailOnce ==
    ASSUME NEW S, NEW s \in Seq(S), s # <<>>, NEW x, Once(s, x)
    PROVE  /\ Once(Tail(s), x)
           /\ x = Head(s) => ~Holds(Tail(s), x)
<1>1. /\ Len(Tail(s)) = Len(s) - 1
      /\ \A k \in 1..Len(Tail(s)) : Tail(s)[k] = s[k + 1]
  BY HeadTailProperties
<1>2. Len(s) \in Nat \ {0} /\ Head(s) = s[1]
  BY EmptySeq
<1>3. Once(Tail(s), x)
  <2> SUFFICES ASSUME NEW j \in 1..Len(Tail(s)), NEW k \in 1..Len(Tail(s)),
                      Tail(s)[j] = x, Tail(s)[k] = x
               PROVE  j = k
    BY DEF Once
  <2>1. j + 1 \in 1..Len(s) /\ k + 1 \in 1..Len(s) /\ s[j + 1] = x /\ s[k + 1] = x
    BY <1>1, <1>2
  <2>2. j + 1 = k + 1
    BY <2>1 DEF Once
  <2> QED BY <2>2
<1>4. ASSUME x = Head(s), Holds(Tail(s), x)  PROVE FALSE
  <2>1. PICK k \in 1..Len(Tail(s)) : Tail(s)[k] = x
    BY <1>4 DEF Holds
  <2>2. k + 1 \in 1..Len(s) /\ s[k + 1] = x /\ 1 \in 1..Len(s) /\ s[1] = x
    BY <1>1, <1>2, <1>4, <2>1
  <2>3. k + 1 = 1
    BY <2>2 DEF Once
  <2> QED BY <2>1, <2>3
<1> QED BY <1>3, <1>4

LEMMA RehydratedOnce ==
    ASSUME NEW st \in [Ids -> Status], NEW s \in Rehydrated(st), NEW x
    PROVE  Once(s, x)
<1> DEFINE Q == {i \in Ids : st[i] = "vod_queued"}
<1>1. IsFiniteSet(Ids)
  BY FS_Interval, VodQueueAssumption DEF Ids
<1>2. Cardinality(Q) \in Nat
  BY <1>1, FS_Subset, FS_CardinalityType
<1>3. /\ s \in [1..Cardinality(Q) -> Q]
      /\ \A j, k \in 1..Cardinality(Q) : j < k => s[j] < s[k]
  BY DEF Rehydrated
<1>4. Q \subseteq Int
  BY VodQueueAssumption DEF Ids
<1> HIDE DEF Q
<1>5. Len(s) = Cardinality(Q)
  BY <1>2, <1>3
<1>6. SUFFICES ASSUME NEW j \in 1..Len(s), NEW k \in 1..Len(s), s[j] = x, s[k] = x, j # k
               PROVE  FALSE
  BY DEF Once
<1>7. j < k \/ k < j
  BY <1>2, <1>5, <1>6
<1>8. s[j] < s[k] \/ s[k] < s[j]
  BY <1>3, <1>5, <1>7
<1>9. s[j] \in Int /\ s[k] \in Int
  BY <1>3, <1>4, <1>5
<1> QED BY <1>6, <1>8, <1>9

LEMMA SentinelsKeep ==
    ASSUME NEW s \in Seq(Entries), NEW i \in Ids
    PROVE  LET t == s \o [k \in 1..Cardinality(Workers) |-> Sentinel]
           IN  /\ Holds(t, i) => Holds(s, i)
               /\ Once(s, i) => Once(t, i)
<1> DEFINE z == [k \in 1..Cardinality(Workers) |-> Sentinel]
           t == s \o z
<1>1. z \in Seq(Entries)
  BY SentinelsIsSeq
<1>2. Len(z) = Cardinality(Workers) /\ \A k \in 1..Len(z) : z[k] # i
  <2>1. Cardinality(Workers) \in Nat
    BY FS_CardinalityType, VodQueueAssumption
  <2> QED BY <2>1, VodQueueAssumption DEF Sentinel, Ids
<1> HIDE DEF z
<1>3. /\ Len(t) = Len(s) + Len(z) /\ Len(s) \in Nat /\ Len(z) \in Nat
      /\ \A k \in 1..Len(s) + Len(z) : t[k] = IF k <= Len(s) THEN s[k] ELSE z[k - Len(s)]
  BY <1>1, ConcatProperties, LenProperties
<1>4. ASSUME NEW k \in 1..Len(t), t[k] = i  PROVE k \in 1..Len(s) /\ s[k] = i
  <2>1. CASE k <= Len(s)
    BY <1>3, <1>4, <2>1
  <2>2. CASE k > Len(s)
    <3>1. k - Len(s) \in 1..Len(z) /\ z[k - Len(s)] = i
      BY <1>3, <1>4, <2>2
    <3> QED BY <1>2, <3>1
  <2> QED BY <1>3, <2>1, <2>2
<1> QED BY <1>4 DEF Holds, Once, z

Idle(i) == ~Holds(fifo, i) /\ pending[i] = 0 /\ \A w \in Workers : job[w] # i

Ended == {"vod_failed", "vod_cancelled"}

\* Row i has at most one entry, and none when it was never inserted, when it
\* may be retried, when it was cancelled, when its batch failed, or when a child
\* its worker abandoned still runs and nobody has retried it.
OneEntry(i) ==
    /\ Once(fifo, i)
    /\ pending[i] \in {0, 1}
    /\ pending[i] = 1 => ~Holds(fifo, i)
    /\ \A w \in Workers : job[w] = i => ~Holds(fifo, i) /\ pending[i] = 0
    /\ \A v, w \in Workers : job[v] = i /\ job[w] = i => v = w
    /\ gen[i] = 0 => status[i] = "absent" /\ Idle(i) /\ i \notin strays
    /\ i \in strays \ again => Idle(i)
    /\ status[i] \in Ended => Idle(i)
    /\ i \in dropped => Idle(i) /\ status[i] \notin Ended

SingleEntry == \A i \in Ids : OnceIssued(i) => OneEntry(i)

\* Nothing about entry or status of row i changes for the worse.
LEMMA QuietEntry ==
    ASSUME NEW i \in Ids, OneEntry(i), UNCHANGED <<fifo, pending, job>>, gen'[i] = gen[i],
           status'[i] \in Ended => status[i] \in Ended,
           status[i] = "absent" => status'[i] = "absent",
           i \in dropped' => i \in dropped,
           i \in strays' => i \in strays, i \in strays' /\ i \in again => i \in again'
    PROVE  OneEntry(i)'
BY DEF OneEntry, Idle, Once, Holds

\* Enqueueing an idle row gives it one entry; other rows are not affected.
LEMMA EnqueueEntry ==
    ASSUME TypeInv, NEW i \in Ids, Enqueue(i), NEW k \in Ids
    PROVE  /\ Holds(fifo', k) <=> Holds(fifo, k) \/ k = i
           /\ Once(fifo, k) /\ (k = i => ~Holds(fifo, k)) => Once(fifo', k)
<1>1. fifo \in Seq(Entries) /\ i \in Entries /\ fifo' = Append(fifo, i)
  BY DEF Enqueue, TypeInv, TypeOK, Entries
<1> QED BY <1>1, AppendHolds, AppendOnce

\* Inserting a row: one that has its id for the first time starts with no
\* entry, and gets the one its producer gives it.
LEMMA InsertEntry ==
    ASSUME TypeInv, SingleEntry, NEW i \in Ids, NEW st \in [Ids -> Status], Insert(i, st),
           \A k \in Ids : st[k] # "absent" => st[k] = status[k],
           UNCHANGED <<job, strays, again>>,
           \/ Enqueue(i) /\ pending' = pending
           \/ fifo' = fifo /\ pending' = [pending EXCEPT ![i] = @ + 1]
    PROVE  SingleEntry'
<1> SUFFICES ASSUME NEW k \in Ids, gen'[k] <= 1  PROVE OneEntry(k)'
  BY DEF SingleEntry, OnceIssued
<1>1. /\ gen' = [gen EXCEPT ![i] = @ + 1]
      /\ status' = [st EXCEPT ![i] = "vod_queued"]
      /\ dropped' = dropped \ {i}
      /\ gen \in [Ids -> Nat] /\ pending \in [Ids -> Nat]
  BY VodQueueAssumption DEF Insert, TypeInv, TypeOK
<1>2. gen[k] <= 1 /\ OneEntry(k)
  BY <1>1 DEF SingleEntry, OnceIssued
<1>3. CASE k = i
  <2>1. gen[i] = 0 /\ gen'[i] = 1 /\ Idle(i) /\ i \notin strays
    BY <1>1, <1>2, <1>3 DEF OneEntry
  <2>2. status'[i] = "vod_queued" /\ i \notin dropped'
    BY <1>1
  <2>3. CASE Enqueue(i) /\ pending' = pending
    <3>1. Once(fifo', i) /\ pending'[i] = 0 /\ \A w \in Workers : job'[w] # i
      BY <1>2, <1>3, <2>1, <2>3, EnqueueEntry DEF OneEntry, Idle
    <3> QED BY <1>3, <2>1, <2>2, <3>1 DEF OneEntry, Ended
  <2>4. CASE fifo' = fifo /\ pending' = [pending EXCEPT ![i] = @ + 1]
    <3>1. Once(fifo', i) /\ ~Holds(fifo', i) /\ pending'[i] = 1 /\ \A w \in Workers : job'[w] # i
      BY <1>1, <1>2, <1>3, <2>1, <2>4 DEF OneEntry, Idle
    <3> QED BY <1>3, <2>1, <2>2, <3>1 DEF OneEntry, Ended
  <2> QED BY <2>3, <2>4
<1>4. CASE k # i
  <2>1. pending'[k] = pending[k] /\ gen'[k] = gen[k] /\ (k \in dropped' => k \in dropped)
    BY <1>1, <1>4
  <2>2. (Holds(fifo', k) <=> Holds(fifo, k)) /\ Once(fifo', k)
    <3>1. Once(fifo, k)
      BY <1>2 DEF OneEntry
    <3>2. CASE Enqueue(i)
      BY <1>4, <3>1, <3>2, EnqueueEntry
    <3>3. CASE fifo' = fifo
      BY <3>1, <3>3
    <3> QED BY <3>2, <3>3
  <2>3. status'[k] = st[k] /\ (st[k] = "absent" \/ st[k] = status[k])
    BY <1>1, <1>4
  <2> QED BY <1>2, <2>1, <2>2, <2>3 DEF OneEntry, Idle, Ended
<1> QED BY <1>3, <1>4

LEMMA ProduceEntry ==
    ASSUME TypeInv, SingleEntry, NEW i \in Ids, Produce(i)
    PROVE  SingleEntry'
<1>0. status \in [Ids -> Status] /\ pending \in [Ids -> Nat]
  BY DEF TypeInv, TypeOK
<1>1. CASE CreateRecording(i)
  BY <1>0, <1>1, InsertEntry DEF CreateRecording, workers
<1>2. CASE \E S \in SUBSET Ids : DvrPullDuringDelete(i, S)
  <2> PICK S \in SUBSET Ids : DvrPullDuringDelete(i, S)
    BY <1>2
  <2>1. /\ Without(S) \in [Ids -> Status]
        /\ \A k \in Ids : Without(S)[k] # "absent" => Without(S)[k] = status[k]
    BY WithoutType DEF Without, TypeInv
  <2> QED BY <2>1, InsertEntry DEF DvrPullDuringDelete, workers
<1>3. CASE BatchInsert(i)
  BY <1>0, <1>3, InsertEntry DEF BatchInsert, workers
<1>4. CASE BatchEnqueue(i)
  <2> SUFFICES ASSUME NEW k \in Ids, OnceIssued(k)'  PROVE OneEntry(k)'
    BY DEF SingleEntry
  <2>1. /\ OneEntry(k) /\ UNCHANGED <<status, gen, job, dropped, strays, again>>
        /\ Enqueue(i) /\ pending[i] > 0
    BY <1>4 DEF BatchEnqueue, SingleEntry, OnceIssued, rows, workers, history
  <2>2. \A j \in Ids : pending'[j] = IF j = i THEN pending[i] - 1 ELSE pending[j]
    BY <1>0, <1>4 DEF BatchEnqueue
  <2>3. CASE k = i
    <3>1. pending[i] = 1 /\ pending'[i] = 0 /\ Once(fifo', i) /\ \A w \in Workers : job'[w] # i
      BY <1>0, <2>1, <2>2, <2>3, EnqueueEntry DEF OneEntry
    <3>2. /\ gen'[i] # 0 /\ status'[i] \notin Ended /\ i \notin dropped'
          /\ i \notin strays' \ again'
      BY <2>1, <2>3, <3>1 DEF OneEntry, Idle
    <3> QED BY <2>3, <3>1, <3>2 DEF OneEntry
  <2>4. CASE k # i
    <3>1. (Holds(fifo', k) <=> Holds(fifo, k)) /\ Once(fifo', k)
      BY <2>1, <2>4, EnqueueEntry DEF OneEntry
    <3> QED BY <2>1, <2>2, <2>4, <3>1 DEF OneEntry, Idle
  <2> QED BY <2>3, <2>4
<1>5. CASE BatchFails(i)
  <2> SUFFICES ASSUME NEW k \in Ids, OnceIssued(k)'  PROVE OneEntry(k)'
    BY DEF SingleEntry
  <2>1. /\ OneEntry(k) /\ UNCHANGED <<status, gen, job, fifo, strays, again>> /\ pending[i] > 0
        /\ dropped' = dropped \cup {i}
    BY <1>5 DEF BatchFails, SingleEntry, OnceIssued, rows, workers
  <2>2. \A j \in Ids : pending'[j] = IF j = i THEN pending[i] - 1 ELSE pending[j]
    BY <1>0, <1>5 DEF BatchFails
  <2>3. CASE k = i
    <3>1. pending[i] = 1 /\ pending'[i] = 0 /\ ~Holds(fifo, i) /\ \A w \in Workers : job[w] # i
      BY <1>0, <2>1, <2>2, <2>3 DEF OneEntry
    <3> QED BY <2>1, <2>3, <3>1 DEF OneEntry, Idle
  <2>4. CASE k # i
    BY <2>1, <2>2, <2>4 DEF OneEntry, Idle
  <2> QED BY <2>3, <2>4
<1> QED BY <1>1, <1>2, <1>3, <1>4, <1>5 DEF Produce

LEMMA RequestEntry ==
    ASSUME TypeInv, SingleEntry, NEW i \in Ids, Request(i)
    PROVE  SingleEntry'
<1> SUFFICES ASSUME NEW k \in Ids, OnceIssued(k)'  PROVE OneEntry(k)'
  BY DEF SingleEntry
<1>0. UNCHANGED <<gen, job, pending, dropped, strays>> /\ again \subseteq again' /\ OneEntry(k)
  BY DEF Request, RetryVod, RetryFrom, CancelVodDownload, FinalizeRecording,
         CancelBacklogDownload, rows, memory, workers, SingleEntry, OnceIssued
<1>1. CASE RetryVod(i)
  <2>1. Enqueue(i) /\ status[i] = "vod_failed"
    BY <1>1 DEF RetryVod, RetryFrom
  <2>2. \A j \in Ids : status'[j] = IF j = i THEN "vod_queued" ELSE status[j]
    BY <1>1 DEF RetryVod, RetryFrom, TypeInv, TypeOK
  <2>3. CASE k = i
    <3>1. Idle(i) /\ gen[i] # 0
      BY <1>0, <2>1, <2>3 DEF OneEntry, Ended
    <3>2. i \notin dropped /\ i \notin strays' \ again'
      BY <1>0, <1>1, <2>1, <2>3 DEF RetryVod, RetryFrom, OneEntry, Ended
    <3> QED BY <1>0, <2>1, <2>2, <2>3, <3>1, <3>2, EnqueueEntry DEF OneEntry, Idle, Ended
  <2>4. CASE k # i
    <3>1. (Holds(fifo', k) <=> Holds(fifo, k)) /\ Once(fifo', k)
      BY <1>0, <2>1, <2>4, EnqueueEntry DEF OneEntry
    <3> QED BY <1>0, <2>2, <2>4, <3>1 DEF OneEntry, Idle
  <2> QED BY <2>3, <2>4
<1>2. CASE CancelVodDownload(i)
  BY <1>0, <1>2, QuietEntry DEF CancelVodDownload, rows
<1>3. CASE FinalizeRecording(i)
  BY <1>0, <1>3, QuietEntry DEF FinalizeRecording, Exists, memory, TypeInv, TypeOK, Ended
<1>4. CASE CancelBacklogDownload(i)
  BY <1>0, <1>4, QuietEntry DEF CancelBacklogDownload, Without, memory, Ended
<1> QED BY <1>1, <1>2, <1>3, <1>4 DEF Request

\* What becomes of the head's row when no download begins.
StatusOfHead(w) ==
    \/ status' = status
    \/ MarkCancelled(Head(fifo))
    \/ \E new \in {"vod_failed", "vod_downloading"} : SetStatus(Head(fifo), new)

LEMMA TakeKeepsJobs ==
    ASSUME NEW w \in Workers, Take(w), ~TakeJob(w)
    PROVE  job' = job /\ StatusOfHead(w)
BY DEF Take, TakeSentinel, TakeCancelled, TakeCancelledFails, SkipCancelled, TakeUnusable,
       TakeFails, StatusOfHead, rows

\* A worker takes the one entry of its row, which becomes its job or is used up.
LEMMA TakeEntry ==
    ASSUME TypeInv, SingleEntry, NEW w \in Workers, Take(w)
    PROVE  SingleEntry'
<1> SUFFICES ASSUME NEW k \in Ids, OnceIssued(k)'  PROVE OneEntry(k)'
  BY DEF SingleEntry
<1> DEFINE h == Head(fifo)
<1>1. fifo \in Seq(Entries) /\ fifo # <<>> /\ fifo' = Tail(fifo) /\ job[w] \notin Ids
  BY TakeGets DEF Get, TypeInv, TypeOK, Entries, WorkerHasJob, BusyState, ChildState
<1>2. UNCHANGED <<gen, pending, dropped, strays, again>> /\ OneEntry(k)
  BY TakeWrites DEF SingleEntry, OnceIssued
<1>3. /\ Once(fifo', k)
      /\ Holds(fifo', k) => Holds(fifo, k) /\ k # h
  BY <1>1, <1>2, TailHolds, TailOnce DEF OneEntry
<1>4. k = h => Holds(fifo, k)
  BY <1>1, TailHolds
<1>5. CASE TakeJob(w)
  <2>1. /\ h \in Ids /\ status[h] # "absent"
        /\ \A j \in Ids : status'[j] = IF j = h THEN "vod_downloading" ELSE status[j]
        /\ \A v \in Workers : job'[v] = IF v = w THEN h ELSE job[v]
    BY <1>5 DEF TakeJob, StartJob, Exists, TypeInv, TypeOK
  <2>2. CASE k = h
    <3>1. ~Holds(fifo', k) /\ pending[k] = 0 /\ \A v \in Workers : job[v] # k
      BY <1>2, <1>3, <1>4, <2>2 DEF OneEntry
    <3>2. gen[k] # 0 /\ k \notin dropped /\ k \notin strays \ again
      BY <1>2, <1>4, <2>1, <2>2 DEF OneEntry, Idle
    <3> QED BY <1>2, <1>3, <2>1, <2>2, <3>1, <3>2 DEF OneEntry, Ended
  <2>3. CASE k # h
    <3>1. \A v \in Workers : job'[v] = k => job[v] = k
      BY <2>1, <2>3
    <3> QED BY <1>2, <1>3, <2>1, <2>3, <3>1 DEF OneEntry, Idle
  <2> QED BY <2>2, <2>3
<1>6. CASE ~TakeJob(w)
  <2>1. job' = job /\ StatusOfHead(w)
    BY <1>6, TakeKeepsJobs
  <2>2. k # h => status'[k] = status[k]
    BY <2>1 DEF StatusOfHead, MarkCancelled, SetStatus, TypeInv, TypeOK
  <2>3. status[k] = "absent" => status'[k] = "absent"
    BY <2>1 DEF StatusOfHead, MarkCancelled, SetStatus, Exists, TypeInv, TypeOK
  <2>4. CASE k = h
    <3>1. Idle(k)'
      BY <1>2, <1>3, <1>4, <2>1, <2>4 DEF OneEntry, Idle
    <3>2. gen[k] # 0 /\ k \notin dropped /\ k \notin strays \ again
      BY <1>2, <1>4, <2>4 DEF OneEntry, Idle
    <3> QED BY <1>2, <1>3, <2>1, <3>1, <3>2 DEF OneEntry, Idle
  <2>5. CASE k # h
    BY <1>2, <1>3, <2>1, <2>2, <2>5 DEF OneEntry, Idle
  <2> QED BY <2>4, <2>5
<1> QED BY <1>5, <1>6

\* Ending a job frees its row; only its own row's status may change.
LEMMA LeaveJobEntry ==
    ASSUME TypeInv, SingleEntry, NEW w \in Workers, NEW next, LeaveJob(w, next), job[w] \in Ids,
           UNCHANGED <<gen, fifo, pending, dropped, again>>,
           strays' \in {strays, strays \cup {job[w]}},
           \A i \in Ids : i # job[w] => status'[i] = status[i],
           \A i \in Ids : status[i] = "absent" => status'[i] = "absent"
    PROVE  SingleEntry'
<1> SUFFICES ASSUME NEW k \in Ids, OnceIssued(k)'  PROVE OneEntry(k)'
  BY DEF SingleEntry
<1>1. \A v \in Workers : job'[v] = IF v = w THEN NoJob ELSE job[v]
  BY DEF LeaveJob, TypeInv, TypeOK
<1>2. NoJob \notin Ids
  BY VodQueueAssumption DEF NoJob, Ids
<1>3. OneEntry(k)
  BY DEF SingleEntry, OnceIssued
<1>4. CASE k = job[w]
  <2>1. Idle(k)'
    BY <1>1, <1>2, <1>3, <1>4 DEF OneEntry, Idle, Holds
  <2>2. gen[k] # 0 /\ k \notin dropped
    BY <1>3, <1>4 DEF OneEntry, Idle
  <2> QED BY <1>3, <2>1, <2>2 DEF OneEntry, Idle, Once, Holds
<1>5. CASE k # job[w]
  <2>1. \A v \in Workers : job'[v] = k => job[v] = k
    BY <1>1, <1>2
  <2>2. status'[k] = status[k] /\ (k \in strays' => k \in strays)
    BY <1>5
  <2> QED BY <1>3, <2>1, <2>2 DEF OneEntry, Idle, Once, Holds
<1> QED BY <1>4, <1>5

\* A worker at one of the handler's steps has a job.
LEMMA HandlerHasJob ==
    ASSUME TypeInv, NEW w \in Workers, Handle(w) \/ AutoPublished(w)
    PROVE  job[w] \in Ids
BY DEF Handle, Spawned, SpawnFails, DrainRaises, OutcomeRaises, ReapFailure, ReapCancelledFails,
       ReapSuccess, Completed, AutoPublished, TypeInv, WorkerHasJob, BusyState, ChildState

\* The handler's step is the end of the job, or the job goes on.
LEMMA HandleEndsOrKeeps ==
    ASSUME NEW w \in Workers, Handle(w) \/ AutoPublished(w)
    PROVE  (\E next \in {"waiting", "exited"} : LeaveJob(w, next)) \/ job' = job
BY EndJobLeaves
DEF Handle, Spawned, SpawnFails, DrainRaises, OutcomeRaises, HandlerRaises, ReapFailure,
    ReapCancelledFails, ReapSuccess, Completed, AutoPublished

LEMMA HandleEntry ==
    ASSUME TypeInv, SingleEntry, NEW w \in Workers, Handle(w) \/ AutoPublished(w)
    PROVE  SingleEntry'
<1>1. job[w] \in Ids
  BY HandlerHasJob
<1>2. UNCHANGED <<gen, fifo, pending, dropped, again>> /\ strays' \in {strays, strays \cup {job[w]}}
  BY HandleWrites
<1>3. /\ \A i \in Ids : i # job[w] => status'[i] = status[i]
      /\ \A i \in Ids : status[i] = "absent" => status'[i] = "absent"
  BY HandleSetsStatus DEF SetStatus, Exists, TypeInv, TypeOK
<1>4. CASE \E next \in {"waiting", "exited"} : LeaveJob(w, next)
  BY <1>1, <1>2, <1>3, <1>4, LeaveJobEntry
<1>5. CASE Spawned(w) \/ ReapSuccess(w)
  <2> SUFFICES ASSUME NEW k \in Ids, OnceIssued(k)'  PROVE OneEntry(k)'
    BY DEF SingleEntry
  <2>1. OneEntry(k)
    BY <1>2 DEF SingleEntry, OnceIssued
  <2>2. UNCHANGED <<status, job, strays>>
    BY <1>5 DEF Spawned, ReapSuccess, rows
  <2> QED BY <1>2, <2>1, <2>2, QuietEntry
<1>6. CASE Completed(w) /\ job' = job
  <2> SUFFICES ASSUME NEW k \in Ids, OnceIssued(k)'  PROVE OneEntry(k)'
    BY DEF SingleEntry
  <2>1. OneEntry(k)
    BY <1>2 DEF SingleEntry, OnceIssued
  <2>2. /\ status'[k] \in Ended => status[k] \in Ended
        /\ status[k] = "absent" => status'[k] = "absent"
        /\ strays' = strays
    BY <1>6 DEF Completed, SetStatus, Exists, Ended, TypeInv, TypeOK
  <2> QED BY <1>2, <1>6, <2>1, <2>2, QuietEntry
<1>7. \/ \E next \in {"waiting", "exited"} : LeaveJob(w, next)
      \/ Spawned(w) \/ ReapSuccess(w)
      \/ Completed(w) /\ job' = job
  BY EndJobLeaves
  DEF Handle, SpawnFails, DrainRaises, OutcomeRaises, HandlerRaises, ReapFailure,
      ReapCancelledFails, Completed, AutoPublished
<1> QED BY <1>4, <1>5, <1>6, <1>7

LEMMA ControlEntry ==
    ASSUME TypeInv, DownIsEmpty, SingleEntry,
           \/ \E S \in SUBSET Ids : DeleteStream(S)
           \/ \E w \in Workers : ChildExits(w) \/ StopTimeout(w)
           \/ \E i \in Ids : StrayExits(i)
           \/ Stop \/ GoDown \/ Startup
    PROVE  SingleEntry'
<1>1. ASSUME NEW S \in SUBSET Ids, DeleteStream(S), NEW k \in Ids, OnceIssued(k)'
      PROVE  OneEntry(k)'
  <2>1. /\ status'[k] \in Ended => status[k] \in Ended
        /\ status[k] = "absent" => status'[k] = "absent"
    BY <1>1 DEF DeleteStream, Without, Ended
  <2> QED BY <1>1, <2>1, QuietEntry
          DEF DeleteStream, memory, workers, history, SingleEntry, OnceIssued
<1>2. ASSUME NEW w \in Workers, ChildExits(w), NEW k \in Ids, OnceIssued(k)'
      PROVE  OneEntry(k)'
  BY <1>2, QuietEntry DEF ChildExits, rows, memory, history, SingleEntry, OnceIssued
<1>3. ASSUME NEW w \in Workers, StopTimeout(w)  PROVE SingleEntry'
  <2>1. LeaveJob(w, LoopTop) /\ job[w] \in Ids
    BY <1>3, EndJobLeaves DEF StopTimeout, TypeInv, WorkerHasJob
  <2> QED BY <1>3, <2>1, LeaveJobEntry DEF StopTimeout, rows, history
<1>4. ASSUME Stop, NEW k \in Ids, OnceIssued(k)'  PROVE OneEntry(k)'
  <2>1. /\ fifo \in Seq(Entries) /\ OneEntry(k)
        /\ UNCHANGED <<status, gen, pending, job, dropped, strays, again>>
    BY <1>4 DEF Stop, rows, workers, history, TypeInv, TypeOK, Entries, SingleEntry, OnceIssued
  <2>2. (Holds(fifo', k) => Holds(fifo, k)) /\ Once(fifo', k)
    BY <1>4, <2>1, SentinelsKeep DEF Stop, OneEntry
  <2> QED BY <2>1, <2>2 DEF OneEntry, Idle
<1>5. ASSUME GoDown, NEW k \in Ids, OnceIssued(k)'  PROVE OneEntry(k)'
  <2>1. OneEntry(k) /\ UNCHANGED <<status, gen>>
    BY <1>5 DEF GoDown, rows, SingleEntry, OnceIssued
  <2>2. /\ fifo' = <<>> /\ dropped' = {} /\ strays' = {} /\ pending'[k] = 0
        /\ \A w \in Workers : job'[w] = NoJob
    BY <1>5 DEF GoDown
  <2>3. NoJob \notin Ids
    BY VodQueueAssumption DEF NoJob, Ids
  <2>4. ~Holds(fifo', k) /\ Once(fifo', k)
    BY <2>2, EmptySeq DEF Holds, Once
  <2> QED BY <2>1, <2>2, <2>3, <2>4 DEF OneEntry, Idle
<1>6. ASSUME Startup, NEW k \in Ids, OnceIssued(k)'  PROVE OneEntry(k)'
  <2>1. OneEntry(k) /\ UNCHANGED <<gen, pending, job, dropped>>
    BY <1>6 DEF Startup, StartupWith, history, SingleEntry, OnceIssued
  <2>2. Recovered \in [Ids -> Status] /\ fifo' \in Rehydrated(Recovered) /\ status' = Recovered
    BY <1>6 DEF Startup, StartupWith, Recovered, TypeInv, TypeOK, Status
  <2>3. Once(fifo', k) /\ (Holds(fifo', k) <=> status'[k] = "vod_queued")
    BY <2>2, RehydratedIsSeq, RehydratedOnce
  <2>4. /\ pending[k] = 0 /\ k \notin dropped \cup strays /\ strays' = strays
        /\ \A w \in Workers : job[w] = NoJob
    BY <1>6 DEF Startup, StartupWith, DownIsEmpty
  <2>5. NoJob \notin Ids
    BY VodQueueAssumption DEF NoJob, Ids
  <2>6. gen[k] = 0 => status'[k] = "absent"
    BY <2>1, <2>2 DEF OneEntry, Recovered
  <2> QED BY <2>1, <2>3, <2>4, <2>5, <2>6 DEF OneEntry, Idle, Ended
<1>7. ASSUME NEW i \in Ids, StrayExits(i), NEW k \in Ids, OnceIssued(k)'
      PROVE  OneEntry(k)'
  BY <1>7, QuietEntry DEF StrayExits, rows, memory, history, SingleEntry, OnceIssued
<1> QED BY <1>1, <1>2, <1>3, <1>4, <1>5, <1>6, <1>7 DEF SingleEntry

LEMMA InitEntry == Init => SingleEntry
<1> SUFFICES ASSUME Init, NEW i \in Ids  PROVE OneEntry(i)
  BY DEF SingleEntry
<1>1. NoJob \notin Ids
  BY VodQueueAssumption DEF NoJob, Ids
<1>2. ~Holds(fifo, i) /\ Once(fifo, i)
  BY EmptySeq DEF Init, Holds, Once
<1> QED BY <1>1, <1>2 DEF Init, OneEntry, Idle, Ended

\* A row that has an id of its own has one entry at most, in every reachable state.
THEOREM OneEntryPerRow == Spec => []SingleEntry
<1>1. ASSUME TypeInv, DownIsEmpty, SingleEntry, [Next]_vars  PROVE SingleEntry'
  <2>1. CASE Next
    BY <1>1, <2>1, ProduceEntry, RequestEntry, TakeEntry, HandleEntry, ControlEntry DEF Next
  <2>2. CASE UNCHANGED vars
    BY <1>1, <2>2
    DEF SingleEntry, OneEntry, OnceIssued, Idle, Once, Holds, vars, rows, memory, workers, history
  <2> QED BY <1>1, <2>1, <2>2
<1> QED BY <1>1, InitEntry, TypeInvariant, PTL DEF Spec

\* Two yt-dlp never write the file of one row, as long as the id of the row has
\* not been given out before, unless somebody retried the row while a child
\* that its worker had abandoned still ran.
THEOREM DownloadIsExclusive == Spec => []ExclusiveDownload
<1>1. TypeInv /\ SingleEntry => ExclusiveDownload
  BY VodQueueAssumption
  DEF SingleEntry, OneEntry, Idle, ExclusiveDownload, OnceIssued, TypeInv, TypeOK, NoJob, Ids
<1> QED BY <1>1, OneEntryPerRow, TypeInvariant, PTL

-----------------------------------------------------------------------------
(***************************************************************************)
(* The queue implements DownloadJobs.                                      *)
(***************************************************************************)

\* What the two sets of the abstract queue hold, now and after a step.
LEMMA JobsView ==
    ASSUME NEW i \in Ids
    PROVE  /\ i \in waitingJobs <=> gen[i] <= 1 /\ (Holds(fifo, i) \/ pending[i] > 0)
           /\ i \in waitingJobs' <=> gen'[i] <= 1 /\ (Holds(fifo', i) \/ pending'[i] > 0)
           /\ \A w \in Workers : <<w, i>> \in workingJobs <=> job[w] = i /\ gen[i] <= 1
           /\ \A w \in Workers : <<w, i>> \in workingJobs' <=> job'[w] = i /\ gen'[i] <= 1
<1>1. i # NoJob
  BY VodQueueAssumption DEF NoJob, Ids
<1> QED BY <1>1 DEF waitingJobs, workingJobs, OnceIssued, InFifo, Holds

LEMMA JobsTyped ==
    ASSUME TypeInv, TypeInv'
    PROVE  /\ waitingJobs \subseteq Ids /\ waitingJobs' \subseteq Ids
           /\ \A a \in workingJobs \cup workingJobs' :
                \E w \in Workers, i \in Ids : a = <<w, i>>
BY DEF waitingJobs, workingJobs, TypeInv, TypeOK

\* A step after which every id waits, and every worker works, as before.
LEMMA JobsStutter ==
    ASSUME TypeInv, TypeInv', job' = job, gen' = gen,
           \A i \in Ids : gen[i] <= 1 =>
               (Holds(fifo', i) \/ pending'[i] > 0 <=> Holds(fifo, i) \/ pending[i] > 0)
    PROVE  UNCHANGED <<waitingJobs, workingJobs>>
<1>1. \A i \in Ids : i \in waitingJobs' <=> i \in waitingJobs
  BY JobsView
<1>2. workingJobs' = workingJobs
  BY DEF workingJobs, OnceIssued
<1>3. waitingJobs' = waitingJobs
  BY <1>1, JobsTyped
<1> QED BY <1>2, <1>3

\* An inserted row is asked for, or its id was given out before and is forgotten.
LEMMA InsertAsks ==
    ASSUME TypeInv, TypeInv', SingleEntry, NEW i \in Ids, NEW st \in [Ids -> Status],
           Insert(i, st), job' = job,
           \/ Enqueue(i) /\ pending' = pending
           \/ fifo' = fifo /\ pending' = [pending EXCEPT ![i] = @ + 1]
    PROVE  Jobs!Next
<1>1. /\ \A k \in Ids : gen'[k] = IF k = i THEN gen[i] + 1 ELSE gen[k]
      /\ gen \in [Ids -> Nat] /\ pending \in [Ids -> Nat]
  BY VodQueueAssumption DEF Insert, TypeInv, TypeOK
<1>2. \A k \in Ids : k # i => (Holds(fifo', k) <=> Holds(fifo, k)) /\ pending'[k] = pending[k]
  <2>1. CASE Enqueue(i) /\ pending' = pending
    BY <2>1, EnqueueEntry
  <2>2. CASE fifo' = fifo /\ pending' = [pending EXCEPT ![i] = @ + 1]
    BY <1>1, <2>2
  <2> QED BY <2>1, <2>2
<1>3. Holds(fifo', i) \/ pending'[i] > 0
  <2>1. CASE Enqueue(i)
    BY <2>1, EnqueueEntry
  <2>2. CASE pending' = [pending EXCEPT ![i] = @ + 1]
    BY <1>1, <2>2
  <2> QED BY <2>1, <2>2
<1>4. \A k \in Ids : k # i => (k \in waitingJobs' <=> k \in waitingJobs)
  BY <1>1, <1>2, JobsView
<1>5. \A w \in Workers, k \in Ids : k # i => (<<w, k>> \in workingJobs' <=> <<w, k>> \in workingJobs)
  BY <1>1, JobsView
<1>6. CASE gen[i] = 0
  <2>1. i \notin waitingJobs /\ \A w \in Workers : job[w] # i
    BY <1>6, JobsView DEF SingleEntry, OneEntry, OnceIssued, Idle
  <2>2. i \in waitingJobs'
    BY <1>1, <1>3, <1>6, JobsView
  <2>3. \A w \in Workers : <<w, i>> \notin workingJobs /\ <<w, i>> \notin workingJobs'
    BY <2>1, JobsView
  <2>4. waitingJobs' = waitingJobs \cup {i}
    BY <1>4, <2>1, <2>2, JobsTyped
  <2>5. workingJobs' = workingJobs
    BY <1>5, <2>3, JobsTyped
  <2>6. Jobs!Ask({i})
    BY <2>1, <2>3, <2>4, <2>5 DEF Jobs!Ask, Jobs!HasWorker
  <2> QED BY <2>6 DEF Jobs!Next
<1>7. CASE gen[i] # 0
  <2>1. i \notin waitingJobs' /\ \A w \in Workers : <<w, i>> \notin workingJobs'
    BY <1>1, <1>7, JobsView
  <2>2. waitingJobs' = waitingJobs \ {i}
    BY <1>4, <2>1, JobsTyped
  <2>3. workingJobs' = {a \in workingJobs : a[2] # i}
    BY <1>5, <2>1, JobsTyped
  <2> QED BY <2>2, <2>3 DEF Jobs!Forget, Jobs!Next
<1> QED BY <1>6, <1>7

LEMMA ProduceAsks ==
    ASSUME TypeInv, TypeInv', SingleEntry, NEW i \in Ids, Produce(i)
    PROVE  [Jobs!Next]_<<waitingJobs, workingJobs>>
<1>0. status \in [Ids -> Status] /\ pending \in [Ids -> Nat]
  BY DEF TypeInv, TypeOK
<1>1. CASE CreateRecording(i)
  BY <1>0, <1>1, InsertAsks DEF CreateRecording, workers
<1>2. CASE \E S \in SUBSET Ids : DvrPullDuringDelete(i, S)
  <2> PICK S \in SUBSET Ids : DvrPullDuringDelete(i, S)
    BY <1>2
  <2>1. Without(S) \in [Ids -> Status]
    BY WithoutType DEF TypeInv
  <2> QED BY <2>1, InsertAsks DEF DvrPullDuringDelete, workers
<1>3. CASE BatchInsert(i)
  BY <1>0, <1>3, InsertAsks DEF BatchInsert, workers
<1>4. CASE BatchEnqueue(i)
  <2>1. Enqueue(i) /\ job' = job /\ gen' = gen /\ pending[i] > 0
    BY <1>4 DEF BatchEnqueue, rows, workers
  <2>2. \A k \in Ids : pending'[k] = IF k = i THEN pending[i] - 1 ELSE pending[k]
    BY <1>0, <1>4 DEF BatchEnqueue
  <2>3. \A k \in Ids : Holds(fifo', k) \/ pending'[k] > 0 <=> Holds(fifo, k) \/ pending[k] > 0
    BY <2>1, <2>2, EnqueueEntry
  <2> QED BY <2>1, <2>3, JobsStutter
<1>5. CASE BatchFails(i)
  <2>1. fifo' = fifo /\ job' = job /\ gen' = gen /\ pending[i] > 0
    BY <1>5 DEF BatchFails, rows, workers
  <2>2. \A k \in Ids : pending'[k] = IF k = i THEN pending[i] - 1 ELSE pending[k]
    BY <1>0, <1>5 DEF BatchFails
  <2>3. CASE gen[i] <= 1
    <3>1. pending'[i] = 0 /\ ~Holds(fifo, i)
      BY <1>0, <2>1, <2>2, <2>3 DEF SingleEntry, OneEntry, OnceIssued
    <3>2. i \in waitingJobs /\ i \notin waitingJobs'
      BY <2>1, <2>3, <3>1, JobsView
    <3>3. \A k \in Ids : k # i => (k \in waitingJobs' <=> k \in waitingJobs)
      BY <2>1, <2>2, JobsView
    <3>4. waitingJobs' = waitingJobs \ {i} /\ workingJobs' = workingJobs
      BY <2>1, <3>2, <3>3, JobsTyped DEF workingJobs, OnceIssued
    <3>5. Jobs!Withdraw({i})
      BY <3>2, <3>4 DEF Jobs!Withdraw
    <3> QED BY <3>5 DEF Jobs!Next
  <2>4. CASE ~(gen[i] <= 1)
    <3>1. \A k \in Ids : gen[k] <= 1 => pending'[k] = pending[k]
      BY <2>2, <2>4
    <3> QED BY <2>1, <3>1, JobsStutter
  <2> QED BY <2>3, <2>4
<1> QED BY <1>1, <1>2, <1>3, <1>4, <1>5 DEF Produce

\* A retry asks for its row once more, after the row has lost its last entry.
LEMMA RequestAsks ==
    ASSUME TypeInv, TypeInv', SingleEntry, NEW i \in Ids, Request(i)
    PROVE  [Jobs!Next]_<<waitingJobs, workingJobs>>
<1>0. gen' = gen /\ job' = job /\ pending' = pending
  BY DEF Request, RetryVod, RetryFrom, CancelVodDownload, FinalizeRecording,
         CancelBacklogDownload, rows, memory, workers
<1>1. CASE RetryVod(i)
  <2>1. Enqueue(i) /\ status[i] = "vod_failed"
    BY <1>1 DEF RetryVod, RetryFrom
  <2>2. \A k \in Ids : Holds(fifo', k) <=> Holds(fifo, k) \/ k = i
    BY <2>1, EnqueueEntry
  <2>3. CASE gen[i] <= 1
    <3>1. Idle(i)
      BY <2>1, <2>3 DEF SingleEntry, OneEntry, OnceIssued, Ended
    <3>2. i \notin waitingJobs /\ i \in waitingJobs'
      BY <1>0, <2>2, <2>3, <3>1, JobsView DEF Idle
    <3>3. \A k \in Ids : k # i => (k \in waitingJobs' <=> k \in waitingJobs)
      BY <1>0, <2>2, JobsView
    <3>4. waitingJobs' = waitingJobs \cup {i} /\ workingJobs' = workingJobs
      BY <1>0, <3>2, <3>3, JobsTyped DEF workingJobs, OnceIssued
    <3>5. \A w \in Workers : <<w, i>> \notin workingJobs
      BY <3>1, JobsView DEF Idle
    <3>6. Jobs!Ask({i})
      BY <3>2, <3>4, <3>5 DEF Jobs!Ask, Jobs!HasWorker
    <3> QED BY <3>6 DEF Jobs!Next
  <2>4. CASE ~(gen[i] <= 1)
    BY <1>0, <2>2, <2>4, JobsStutter
  <2> QED BY <2>3, <2>4
<1>2. CASE CancelVodDownload(i) \/ FinalizeRecording(i) \/ CancelBacklogDownload(i)
  <2>1. fifo' = fifo
    BY <1>2 DEF CancelVodDownload, FinalizeRecording, CancelBacklogDownload, memory
  <2> QED BY <1>0, <2>1, JobsStutter
<1> QED BY <1>1, <1>2 DEF Request

\* Taking the entry of a row that has an id of its own begins its download or
\* withdraws it; no second entry is left.
LEMMA TakeBegins ==
    ASSUME TypeInv, TypeInv', SingleEntry, NEW w \in Workers, Take(w)
    PROVE  [Jobs!Next]_<<waitingJobs, workingJobs>>
<1> DEFINE h == Head(fifo)
<1>1. fifo \in Seq(Entries) /\ fifo # <<>> /\ fifo' = Tail(fifo) /\ job[w] \notin Ids
  BY TakeGets DEF Get, TypeInv, TypeOK, Entries, WorkerHasJob, BusyState, ChildState
<1>2. gen' = gen /\ pending' = pending
  BY TakeWrites
<1>3. \A k \in Ids : gen[k] <= 1 => OneEntry(k)
  BY DEF SingleEntry, OnceIssued
<1>4. Holds(fifo, h) /\ \A k \in Ids : Holds(fifo', k) => Holds(fifo, k)
  BY <1>1, TailHolds
<1>5. \A k \in Ids : k # h => (Holds(fifo', k) <=> Holds(fifo, k))
  BY <1>1, TailHolds
<1>6. \A k \in Ids : k # h => (k \in waitingJobs' <=> k \in waitingJobs)
  BY <1>2, <1>5, JobsView
<1>7. ASSUME h \in Ids, gen[h] <= 1
      PROVE  /\ h \in waitingJobs
             /\ waitingJobs' = waitingJobs \ {h}
             /\ \A v \in Workers : job[v] # h
  <2>1. ~Holds(fifo', h) /\ pending[h] = 0 /\ \A v \in Workers : job[v] # h
    BY <1>1, <1>3, <1>4, <1>7, TailOnce DEF OneEntry
  <2>2. h \in waitingJobs /\ h \notin waitingJobs'
    BY <1>2, <1>4, <1>7, <2>1, JobsView
  <2> QED BY <1>6, <2>1, <2>2, JobsTyped
<1>8. ASSUME ~(h \in Ids /\ gen[h] <= 1)  PROVE waitingJobs' = waitingJobs
  <2>1. \A k \in Ids : k \in waitingJobs' <=> k \in waitingJobs
    BY <1>2, <1>6, <1>8, JobsView
  <2> QED BY <2>1, JobsTyped
<1>9. CASE TakeJob(w)
  <2>1. h \in Ids /\ \A v \in Workers : job'[v] = IF v = w THEN h ELSE job[v]
    BY <1>9 DEF TakeJob, StartJob, TypeInv, TypeOK
  <2>2. \A v \in Workers, k \in Ids :
            <<v, k>> \in workingJobs' <=> <<v, k>> \in workingJobs \/ (v = w /\ k = h /\ gen[h] <= 1)
    BY <1>1, <1>2, <2>1, JobsView
  <2>3. CASE gen[h] <= 1
    <3>1. workingJobs' = workingJobs \cup {<<w, h>>}
      BY <2>1, <2>2, <2>3, JobsTyped
    <3>2. \A k \in Ids : <<w, k>> \notin workingJobs
      BY <1>1, JobsView
    <3>3. \A v \in Workers : <<v, h>> \notin workingJobs
      BY <1>7, <2>1, <2>3, JobsView
    <3>4. Jobs!Begin(w, h)
      BY <1>7, <2>1, <2>3, <3>1, <3>2, <3>3 DEF Jobs!Begin, Jobs!Busy, Jobs!HasWorker
    <3> QED BY <2>1, <3>4 DEF Jobs!Next
  <2>4. CASE ~(gen[h] <= 1)
    <3>1. workingJobs' = workingJobs
      BY <2>2, <2>4, JobsTyped
    <3> QED BY <1>8, <2>4, <3>1
  <2> QED BY <2>3, <2>4
<1>10. CASE ~TakeJob(w)
  <2>1. job' = job
    BY <1>10, TakeKeepsJobs
  <2>2. workingJobs' = workingJobs
    BY <1>2, <2>1 DEF workingJobs, OnceIssued
  <2>3. CASE h \in Ids /\ gen[h] <= 1
    <3>1. Jobs!Withdraw({h})
      BY <1>7, <2>2, <2>3 DEF Jobs!Withdraw
    <3> QED BY <2>3, <3>1 DEF Jobs!Next
  <2>4. CASE ~(h \in Ids /\ gen[h] <= 1)
    BY <1>8, <2>2, <2>4
  <2> QED BY <2>3, <2>4
<1> QED BY <1>9, <1>10

\* A job that ends leaves the abstract queue.
LEMMA LeaveJobEnds ==
    ASSUME TypeInv, TypeInv', NEW w \in Workers, NEW next, LeaveJob(w, next), job[w] \in Ids,
           UNCHANGED <<gen, fifo, pending>>
    PROVE  [Jobs!Next]_<<waitingJobs, workingJobs>>
<1>1. \A v \in Workers : job'[v] = IF v = w THEN NoJob ELSE job[v]
  BY DEF LeaveJob, TypeInv, TypeOK
<1>2. NoJob \notin Ids
  BY VodQueueAssumption DEF NoJob, Ids
<1>3. waitingJobs' = waitingJobs
  BY DEF waitingJobs, OnceIssued, InFifo
<1>4. \A v \in Workers, k \in Ids :
          <<v, k>> \in workingJobs' <=> <<v, k>> \in workingJobs /\ v # w
  BY <1>1, <1>2, JobsView
<1>5. CASE gen[job[w]] <= 1
  <2>1. <<w, job[w]>> \in workingJobs
    BY <1>5, JobsView
  <2>2. \A k \in Ids : <<w, k>> \in workingJobs => k = job[w]
    BY JobsView
  <2>3. workingJobs' = workingJobs \ {<<w, job[w]>>}
    BY <1>4, <2>2, JobsTyped
  <2> QED BY <1>3, <2>1, <2>3 DEF Jobs!End, Jobs!Next
<1>6. CASE ~(gen[job[w]] <= 1)
  <2>1. \A k \in Ids : <<w, k>> \notin workingJobs
    BY <1>6, JobsView
  <2>2. workingJobs' = workingJobs
    BY <1>4, <2>1, JobsTyped
  <2> QED BY <1>3, <2>2
<1> QED BY <1>5, <1>6

LEMMA HandleEnds ==
    ASSUME TypeInv, TypeInv', NEW w \in Workers, Handle(w) \/ AutoPublished(w) \/ StopTimeout(w)
    PROVE  [Jobs!Next]_<<waitingJobs, workingJobs>>
<1>1. job[w] \in Ids
  BY HandlerHasJob DEF StopTimeout, TypeInv, WorkerHasJob
<1>2. UNCHANGED <<gen, fifo, pending>>
  BY HandleWrites DEF StopTimeout, rows
<1>3. (\E next \in {"waiting", "exited"} : LeaveJob(w, next)) \/ job' = job
  BY HandleEndsOrKeeps, EndJobLeaves DEF StopTimeout
<1> QED BY <1>1, <1>2, <1>3, LeaveJobEnds, JobsStutter

\* The sentinels of a shutdown go behind what is in the FIFO.
LEMMA StopKeepsFifo ==
    ASSUME TypeInv, Stop, NEW i \in Ids
    PROVE  Holds(fifo', i) <=> Holds(fifo, i)
<1> DEFINE z == [k \in 1..Cardinality(Workers) |-> Sentinel]
<1>1. fifo \in Seq(Entries) /\ z \in Seq(Entries) /\ fifo' = fifo \o z
  BY SentinelsIsSeq DEF Stop, TypeInv, TypeOK, Entries
<1>2. Holds(fifo', i) => Holds(fifo, i)
  BY <1>1, SentinelsKeep
<1> HIDE DEF z
<1>3. /\ Len(fifo') = Len(fifo) + Len(z) /\ Len(fifo) \in Nat /\ Len(z) \in Nat
      /\ \A k \in 1..Len(fifo) : fifo'[k] = fifo[k]
  BY <1>1, ConcatProperties, LenProperties
<1>4. Holds(fifo, i) => Holds(fifo', i)
  BY <1>3 DEF Holds
<1> QED BY <1>2, <1>4

\* Shutdown, crash and startup: everything is given up and asked for again.
LEMMA ControlAsks ==
    ASSUME TypeInv, TypeInv', DownIsEmpty,
           \/ \E S \in SUBSET Ids : DeleteStream(S)
           \/ \E w \in Workers : ChildExits(w)
           \/ \E i \in Ids : StrayExits(i)
           \/ Stop \/ GoDown \/ Startup
    PROVE  [Jobs!Next]_<<waitingJobs, workingJobs>>
<1>0. NoJob \notin Ids
  BY VodQueueAssumption DEF NoJob, Ids
<1>1. ASSUME NEW S \in SUBSET Ids, DeleteStream(S)
      PROVE  UNCHANGED <<waitingJobs, workingJobs>>
  BY <1>1, JobsStutter DEF DeleteStream, memory, workers
<1>2. ASSUME NEW w \in Workers, ChildExits(w)  PROVE UNCHANGED <<waitingJobs, workingJobs>>
  BY <1>2, JobsStutter DEF ChildExits, rows, memory
<1>3. CASE Stop
  <2>1. UNCHANGED <<gen, pending, job>>
    BY <1>3 DEF Stop, rows, workers
  <2>2. \A k \in Ids : Holds(fifo', k) <=> Holds(fifo, k)
    BY <1>3, StopKeepsFifo
  <2> QED BY <2>1, <2>2, JobsStutter
<1>4. CASE GoDown
  <2>1. /\ fifo' = <<>> /\ \A k \in Ids : pending'[k] = 0
        /\ \A w \in Workers : job'[w] = NoJob
    BY <1>4 DEF GoDown
  <2>2. \A k \in Ids : k \notin waitingJobs' /\ \A w \in Workers : <<w, k>> \notin workingJobs'
    BY <1>0, <2>1, EmptySeq, JobsView DEF Holds
  <2>3. waitingJobs' = {} /\ workingJobs' = {}
    BY <2>2, JobsTyped
  <2>4. Jobs!Restart({})
    BY <2>3 DEF Jobs!Restart
  <2> QED BY <2>4 DEF Jobs!Next
<1>5. CASE Startup
  <2>1. /\ fifo = <<>> /\ \A k \in Ids : pending[k] = 0
        /\ \A w \in Workers : job[w] = NoJob
        /\ UNCHANGED <<gen, job>>
    BY <1>5 DEF Startup, StartupWith, DownIsEmpty
  <2>2. \A k \in Ids : k \notin waitingJobs /\ \A w \in Workers : <<w, k>> \notin workingJobs
    BY <1>0, <2>1, EmptySeq, JobsView DEF Holds
  <2>3. waitingJobs = {} /\ workingJobs = {}
    BY <2>2, JobsTyped
  <2>4. workingJobs' = workingJobs
    BY <2>1 DEF workingJobs, OnceIssued
  <2>5. Jobs!Ask(waitingJobs') /\ waitingJobs' \in SUBSET Ids
    BY <2>3, <2>4, JobsTyped DEF Jobs!Ask, Jobs!HasWorker
  <2> QED BY <2>5 DEF Jobs!Next
<1>6. ASSUME NEW i \in Ids, StrayExits(i)  PROVE UNCHANGED <<waitingJobs, workingJobs>>
  BY <1>6, JobsStutter DEF StrayExits, rows, memory
<1> QED BY <1>1, <1>2, <1>3, <1>4, <1>5, <1>6

\* The queue keeps the promise of DownloadJobs: through producers, retries,
\* cancellations, failures and restarts a download that was asked for is begun
\* at most once, by one worker, and not asked for again while it is under way.
THEOREM QueueImplementsJobs == Spec => ImplementsJobs
<1>1. Init => Jobs!Init
  <2> SUFFICES ASSUME Init  PROVE waitingJobs = {} /\ workingJobs = {}
    BY DEF Jobs!Init
  <2> QED BY EmptySeq DEF Init, waitingJobs, workingJobs, InFifo
<1>2. ASSUME TypeInv, TypeInv', DownIsEmpty, SingleEntry, [Next]_vars
      PROVE  [Jobs!Next]_<<waitingJobs, workingJobs>>
  <2>1. CASE Next
    BY <1>2, <2>1, ProduceAsks, RequestAsks, TakeBegins, HandleEnds, ControlAsks DEF Next
  <2>2. CASE UNCHANGED vars
    BY <2>2
    DEF vars, rows, memory, workers, waitingJobs, workingJobs, OnceIssued, InFifo
  <2> QED BY <1>2, <2>1, <2>2
<1> QED
  BY <1>1, <1>2, OneEntryPerRow, TypeInvariant, PTL DEF ImplementsJobs, Jobs!Spec, Spec

-----------------------------------------------------------------------------
(***************************************************************************)
(* The registry of children and the flags of cancelled rows.  Everything   *)
(* below rests on a row having one entry: in the FIFO, in a batch or with  *)
(* a worker.                                                               *)
(***************************************************************************)

\* The row of a worker's job does not wait.
BusyNotQueued ==
    \A w \in Workers, i \in Ids :
        job[w] = i /\ OnceIssued(i) => status[i] # "vod_queued"

\* A row whose cancellation was confirmed waits with its flag set, or without an
\* entry when it could not be marked, has been cancelled, or is gone; no
\* confirmation is believed after a restart.
FlaggedWhileQueued ==
    \A i \in Ids : acked[i] = "queued" =>
        /\ mode # "down"
        /\ OnceIssued(i) =>
              /\ status[i] \in {"vod_queued", "vod_cancelled", "absent"}
              /\ status[i] = "vod_queued" => i \in cancelledQueued \/ Idle(i)

-----------------------------------------------------------------------------
(***************************************************************************)
(* How a step may use an id.                                               *)
(***************************************************************************)

\* Ids are never taken back.
LEMMA IssuesGrow ==
    ASSUME TypeInv, [Next]_vars, NEW i \in Ids
    PROVE  gen[i] \in Nat /\ gen'[i] \in Nat /\ gen[i] <= gen'[i]
<1>1. gen \in [Ids -> Nat]
  BY VodQueueAssumption DEF TypeInv, TypeOK
<1>2. ASSUME NEW j \in Ids, NEW st, Insert(j, st)  PROVE gen' = [gen EXCEPT ![j] = @ + 1]
  BY <1>2 DEF Insert
<1>3. gen' = gen \/ \E j \in Ids : gen' = [gen EXCEPT ![j] = @ + 1]
  <2>1. ASSUME NEW j \in Ids, Produce(j)
        PROVE  gen' = gen \/ gen' = [gen EXCEPT ![j] = @ + 1]
    BY <1>2, <2>1 DEF Produce, CreateRecording, DvrPullDuringDelete, BatchInsert, BatchEnqueue,
                      BatchFails, rows
  <2>2. ASSUME NEW j \in Ids, Request(j)  PROVE gen' = gen
    BY <2>2 DEF Request, RetryVod, RetryFrom, CancelVodDownload, FinalizeRecording,
                CancelBacklogDownload, rows
  <2>3. ASSUME NEW w \in Workers,
               Take(w) \/ Handle(w) \/ AutoPublished(w) \/ ChildExits(w) \/ StopTimeout(w)
        PROVE  gen' = gen
    BY <2>3, TakeWrites, HandleWrites DEF ChildExits, StopTimeout, rows
  <2>4. CASE \/ (\E S \in SUBSET Ids : DeleteStream(S)) \/ (\E j \in Ids : StrayExits(j))
             \/ Stop \/ GoDown \/ Startup \/ UNCHANGED vars
    BY <2>4 DEF DeleteStream, StrayExits, Stop, GoDown, Startup, StartupWith, rows, vars
  <2> QED BY <2>1, <2>2, <2>3, <2>4 DEF Next
<1> QED BY <1>1, <1>3

LEMMA StaysOnce ==
    ASSUME TypeInv, [Next]_vars, NEW i \in Ids, OnceIssued(i)'
    PROVE  OnceIssued(i)
BY IssuesGrow DEF OnceIssued

\* A worker that takes an entry was waiting; the one entry of the row was there.
LEMMA TakenIsFree ==
    ASSUME TypeInv, SingleEntry, NEW w \in Workers, Take(w), Head(fifo) \in Ids,
           OnceIssued(Head(fifo))
    PROVE  /\ \A v \in Workers : job[v] # Head(fifo)
           /\ status[Head(fifo)] \notin Ended
<1>1. Holds(fifo, Head(fifo))
  BY TakeGets, TailHolds DEF Get, TypeInv, TypeOK
<1> QED BY <1>1 DEF SingleEntry, OneEntry, Idle

-----------------------------------------------------------------------------
(***************************************************************************)
(* The registry of running children.                                       *)
(***************************************************************************)

\* A step that leaves registry and jobs alone and moves no worker into or out of
\* the states of a child.
LEMMA QuietRegistry ==
    ASSUME TypeInv, RegistryExact, [Next]_vars, UNCHANGED <<runningProcs, job>>,
           \A w \in Workers : pc'[w] \in ChildState <=> pc[w] \in ChildState
    PROVE  RegistryExact'
BY StaysOnce DEF RegistryExact

\* The end of a job removes its own child only.
LEMMA LeaveJobRegistry ==
    ASSUME TypeInv, SingleEntry, RegistryExact, [Next]_vars, NEW w \in Workers,
           NEW next \in {"waiting", "exited"}, LeaveJob(w, next), job[w] \in Ids
    PROVE  RegistryExact'
<1>1. next \notin ChildState /\ NoProc \notin Workers /\ NoJob \notin Ids
  BY VodQueueAssumption DEF ChildState, NoJob, Ids
<1>2. /\ \A v \in Workers : pc'[v] = IF v = w THEN next ELSE pc[v]
      /\ \A v \in Workers : job'[v] = IF v = w THEN NoJob ELSE job[v]
      /\ \A i \in Ids : runningProcs'[i] = IF i = job[w] THEN NoProc ELSE runningProcs[i]
  BY DEF LeaveJob, GoTo, Unregister, TypeInv, TypeOK
<1> SUFFICES ASSUME NEW i \in Ids, OnceIssued(i)', NEW v \in Workers
             PROVE  runningProcs'[i] = v <=> pc'[v] \in ChildState /\ job'[v] = i
  BY DEF RegistryExact
<1>3. OnceIssued(i)
  BY StaysOnce
<1>4. runningProcs[i] = v <=> pc[v] \in ChildState /\ job[v] = i
  BY <1>3 DEF RegistryExact
<1>5. i = job[w] /\ job[v] = i => v = w
  BY <1>3 DEF SingleEntry, OneEntry
<1> QED BY <1>1, <1>2, <1>4, <1>5

LEMMA TakeRegistry ==
    ASSUME TypeInv, SingleEntry, RegistryExact, [Next]_vars, NEW w \in Workers, Take(w)
    PROVE  RegistryExact'
<1>1. pc[w] = "waiting" /\ job[w] \notin Ids
  BY TakeGets DEF Get, TypeInv, WorkerHasJob, BusyState, ChildState
<1>2. LoopTop \notin ChildState
  BY DEF LoopTop, ChildState
<1>3. CASE TakeSentinel(w) \/ TakeCancelled(w) \/ TakeCancelledFails(w)
  <2>1. UNCHANGED <<runningProcs, job>>
    BY <1>3 DEF TakeSentinel, TakeCancelled, TakeCancelledFails, SkipCancelled
  <2>2. \A v \in Workers : pc'[v] \in ChildState <=> pc[v] \in ChildState
    BY <1>1, <1>2, <1>3
    DEF TakeSentinel, TakeCancelled, TakeCancelledFails, SkipCancelled, GoTo, ChildState,
        TypeInv, TypeOK
  <2> QED BY <2>1, <2>2, QuietRegistry
<1>4. CASE TakeUnusable(w) \/ TakeFails(w)
  <2> DEFINE h == Head(fifo)
  <2>1. /\ h \in Ids /\ job' = job
        /\ \A i \in Ids : runningProcs'[i] = IF i = h THEN NoProc ELSE runningProcs[i]
    BY <1>4 DEF TakeUnusable, TakeFails, Unregister, TypeInv, TypeOK
  <2>2. \A v \in Workers : pc'[v] \in ChildState <=> pc[v] \in ChildState
    BY <1>1, <1>2, <1>4 DEF TakeUnusable, TakeFails, GoTo, ChildState, TypeInv, TypeOK
  <2>3. OnceIssued(h) => \A v \in Workers : job[v] # h
    BY <2>1, TakenIsFree
  <2>4. ASSUME NEW i \in Ids, OnceIssued(i)', NEW v \in Workers
        PROVE  runningProcs'[i] = v <=> pc'[v] \in ChildState /\ job'[v] = i
    <3>1. OnceIssued(i)
      BY <2>4, StaysOnce
    <3>2. runningProcs[i] = v <=> pc[v] \in ChildState /\ job[v] = i
      BY <3>1 DEF RegistryExact
    <3> QED BY <2>1, <2>2, <2>3, <3>1, <3>2, VodQueueAssumption
  <2> QED BY <2>4 DEF RegistryExact
<1>5. CASE TakeJob(w)
  <2> DEFINE h == Head(fifo)
  <2>1. /\ h \in Ids /\ runningProcs' = runningProcs
        /\ \A v \in Workers : job'[v] = IF v = w THEN h ELSE job[v]
        /\ \A v \in Workers : pc'[v] = IF v = w THEN "spawning" ELSE pc[v]
    BY <1>5 DEF TakeJob, StartJob, GoTo, TypeInv, TypeOK
  <2>2. "spawning" \notin ChildState /\ "waiting" \notin ChildState
    BY DEF ChildState
  <2>3. ASSUME NEW i \in Ids, OnceIssued(i)', NEW v \in Workers
        PROVE  runningProcs'[i] = v <=> pc'[v] \in ChildState /\ job'[v] = i
    <3>1. OnceIssued(i)
      BY <2>3, StaysOnce
    <3>2. runningProcs[i] = v <=> pc[v] \in ChildState /\ job[v] = i
      BY <3>1 DEF RegistryExact
    <3> QED BY <1>1, <2>1, <2>2, <3>2
  <2> QED BY <2>3 DEF RegistryExact
<1> QED BY <1>3, <1>4, <1>5 DEF Take

LEMMA HandleRegistry ==
    ASSUME TypeInv, SingleEntry, RegistryExact, [Next]_vars, NEW w \in Workers,
           Handle(w) \/ AutoPublished(w)
    PROVE  RegistryExact'
<1>1. job[w] \in Ids
  BY HandlerHasJob
<1>2. CASE \E next \in {"waiting", "exited"} : LeaveJob(w, next)
  BY <1>1, <1>2, LeaveJobRegistry
<1>3. CASE Spawned(w) \/ ReapSuccess(w)
  <2>1. /\ job' = job
        /\ \/ /\ pc[w] = "spawning"
              /\ \A v \in Workers : pc'[v] = IF v = w THEN "alive" ELSE pc[v]
              /\ \A i \in Ids : runningProcs'[i] = IF i = job[w] THEN w ELSE runningProcs[i]
           \/ /\ pc[w] = "exit_ok"
              /\ \A v \in Workers : pc'[v] = IF v = w THEN "probing" ELSE pc[v]
              /\ \A i \in Ids : runningProcs'[i] = IF i = job[w] THEN NoProc ELSE runningProcs[i]
    BY <1>3 DEF Spawned, ReapSuccess, GoTo, Unregister, TypeInv, TypeOK
  <2>2. /\ "alive" \in ChildState /\ "exit_ok" \in ChildState
        /\ "spawning" \notin ChildState /\ "probing" \notin ChildState
        /\ NoProc \notin Workers
    BY VodQueueAssumption DEF ChildState
  <2>3. ASSUME NEW i \in Ids, OnceIssued(i)', NEW v \in Workers
        PROVE  runningProcs'[i] = v <=> pc'[v] \in ChildState /\ job'[v] = i
    <3>1. OnceIssued(i)
      BY <2>3, StaysOnce
    <3>2. runningProcs[i] = v <=> pc[v] \in ChildState /\ job[v] = i
      BY <3>1 DEF RegistryExact
    <3>3. i = job[w] /\ job[v] = i => v = w
      BY <3>1 DEF SingleEntry, OneEntry
    <3> QED BY <2>1, <2>2, <3>2, <3>3
  <2> QED BY <2>3 DEF RegistryExact
<1>4. CASE Completed(w) /\ ~EndJob(w)
  <2>1. UNCHANGED <<runningProcs, job>> /\ GoTo(w, "publishing") /\ pc[w] = "probing"
    BY <1>4 DEF Completed
  <2>2. \A v \in Workers : pc'[v] \in ChildState <=> pc[v] \in ChildState
    BY <2>1 DEF GoTo, ChildState, TypeInv, TypeOK
  <2> QED BY <2>1, <2>2, QuietRegistry
<1> QED
  BY <1>2, <1>3, <1>4, EndJobLeaves
  DEF Handle, SpawnFails, DrainRaises, OutcomeRaises, HandlerRaises, ReapFailure,
      ReapCancelledFails, AutoPublished

LEMMA StepRegistry ==
    TypeInv /\ DownIsEmpty /\ SingleEntry /\ RegistryExact /\ [Next]_vars => RegistryExact'
<1> SUFFICES ASSUME TypeInv, DownIsEmpty, SingleEntry, RegistryExact, [Next]_vars
             PROVE  RegistryExact'
  OBVIOUS
<1>1. CASE UNCHANGED <<runningProcs, job, pc>>
  BY <1>1, QuietRegistry
<1>2. ASSUME NEW i \in Ids, Produce(i) \/ Request(i)  PROVE RegistryExact'
  <2>1. CASE CancelVodDownload(i)
    <3>1. UNCHANGED <<runningProcs, job>>
      BY <2>1 DEF CancelVodDownload
    <3>2. \A w \in Workers : pc'[w] \in ChildState <=> pc[w] \in ChildState
      BY <2>1 DEF CancelVodDownload, CancelRunning, CancelQueued, CancelNotFound, ChildState
    <3> QED BY <3>1, <3>2, QuietRegistry
  <2> QED
    BY <1>1, <1>2, <2>1
    DEF Produce, Request, CreateRecording, DvrPullDuringDelete, BatchInsert, BatchEnqueue,
        BatchFails, RetryVod, RetryFrom, FinalizeRecording, CancelBacklogDownload, memory, workers
<1>3. ASSUME NEW w \in Workers, ChildExits(w)  PROVE RegistryExact'
  <2>1. UNCHANGED <<runningProcs, job>>
    BY <1>3 DEF ChildExits, memory
  <2>2. \A v \in Workers : pc'[v] \in ChildState <=> pc[v] \in ChildState
    BY <1>3 DEF ChildExits, GoTo, ChildState, TypeInv, TypeOK
  <2> QED BY <2>1, <2>2, QuietRegistry
<1>4. ASSUME NEW w \in Workers, StopTimeout(w)  PROVE RegistryExact'
  BY <1>4, EndJobLeaves, LeaveJobRegistry DEF StopTimeout, TypeInv, WorkerHasJob
<1>5. CASE \/ (\E S \in SUBSET Ids : DeleteStream(S)) \/ (\E i \in Ids : StrayExits(i))
           \/ Stop \/ UNCHANGED vars
  BY <1>1, <1>5 DEF DeleteStream, StrayExits, Stop, vars, memory, workers
<1>6. CASE GoDown
  BY <1>6, VodQueueAssumption DEF GoDown, RegistryExact, ChildState
<1>7. CASE Startup
  <2>1. UNCHANGED <<runningProcs, job>>
    BY <1>7 DEF Startup, StartupWith
  <2>2. \A v \in Workers : pc'[v] \in ChildState <=> pc[v] \in ChildState
    BY <1>7 DEF Startup, StartupWith, DownIsEmpty, ChildState
  <2> QED BY <2>1, <2>2, QuietRegistry
<1> QED
  BY <1>2, <1>3, <1>4, <1>5, <1>6, <1>7, TakeRegistry, HandleRegistry DEF Next

\* vod_queue.py: _running_procs holds the child that a worker waits for under its
\* row until it is reaped, and nothing else, so cancel() never signals another
\* row's.
THEOREM RegistryIsExact == Spec => []RegistryExact
<1>1. Init => RegistryExact
  BY VodQueueAssumption DEF Init, RegistryExact, ChildState
<1> QED BY <1>1, StepRegistry, OneEntryPerRow, TypeInvariant, PTL DEF Spec

-----------------------------------------------------------------------------
(***************************************************************************)
(* The flags of cancelled rows.                                            *)
(***************************************************************************)

\* A flag goes with the entry of its row.
LEMMA TakeFlag ==
    ASSUME TypeInv, NoStaleFlag, NEW w \in Workers, Take(w), NEW i \in cancelledQueued',
           OnceIssued(i)
    PROVE  (InFifo(i) \/ pending[i] > 0 \/ i \in dropped \cup unwritten)'
<1>1. Get(w) /\ fifo \in Seq(Entries) /\ fifo # <<>> /\ fifo' = Tail(fifo)
  BY TakeGets DEF Get, TypeInv, TypeOK, Entries
<1>2. InFifo(i) /\ i # Head(fifo) => InFifo(i)'
  BY <1>1, TailHolds DEF InFifo, Holds
<1>3. /\ UNCHANGED <<pending, dropped>> /\ unwritten \subseteq unwritten'
      /\ i \in cancelledQueued
  BY TakeWrites
  DEF Take, TakeSentinel, TakeCancelled, TakeCancelledFails, SkipCancelled, TakeUnusable,
      TakeFails, TakeJob, StartJob
<1>4. i # Head(fifo)
  <2>1. i \in Ids /\ Sentinel \notin Ids
    BY <1>3, VodQueueAssumption DEF TypeInv, TypeOK, Ids, Sentinel
  <2> QED
    BY <1>3, <2>1 DEF Take, TakeSentinel, TakeCancelled, TakeCancelledFails, SkipCancelled,
                      TakeUnusable, TakeFails, TakeJob
<1> QED BY <1>2, <1>3, <1>4 DEF NoStaleFlag

LEMMA StepFlags ==
    TypeInv /\ DownIsEmpty /\ QueuedIsScheduled /\ NoStaleFlag /\ [Next]_vars => NoStaleFlag'
<1> SUFFICES ASSUME TypeInv, DownIsEmpty, QueuedIsScheduled, NoStaleFlag, [Next]_vars,
                    NEW i \in cancelledQueued', OnceIssued(i)'
             PROVE  (InFifo(i) \/ pending[i] > 0 \/ i \in dropped \cup unwritten)'
  BY DEF NoStaleFlag
<1>1. cancelledQueued \subseteq Ids /\ pending \in [Ids -> Nat]
  BY DEF TypeInv, TypeOK
<1>2. ASSUME i \in cancelledQueued, InFifo(i) => InFifo(i)', pending[i] > 0 => pending'[i] > 0,
             i \in dropped \cup unwritten => i \in dropped' \cup unwritten'
      PROVE  (InFifo(i) \/ pending[i] > 0 \/ i \in dropped \cup unwritten)'
  BY <1>1, <1>2, StaysOnce DEF NoStaleFlag
<1>3. ASSUME NEW j \in Ids, Produce(j)
      PROVE  (InFifo(i) \/ pending[i] > 0 \/ i \in dropped \cup unwritten)'
  <2>1. i \in cancelledQueued /\ i \in Ids
    BY <1>1, <1>3 DEF Produce, CreateRecording, DvrPullDuringDelete, BatchInsert, BatchEnqueue,
                      BatchFails
  <2>2. Enqueue(j) => (InFifo(i)' <=> InFifo(i) \/ i = j)
    BY <2>1, EnqueueSchedules
  <2>3. CASE CreateRecording(j) \/ \E S \in SUBSET Ids : DvrPullDuringDelete(j, S)
    BY <1>2, <2>1, <2>2, <2>3 DEF CreateRecording, DvrPullDuringDelete, Insert
  <2>4. CASE BatchInsert(j)
    BY <1>1, <1>2, <2>1, <2>4 DEF BatchInsert, Insert, InFifo
  <2>5. CASE BatchEnqueue(j)
    BY <1>1, <1>2, <2>1, <2>2, <2>5 DEF BatchEnqueue, history
  <2>6. CASE BatchFails(j)
    BY <1>1, <1>2, <2>1, <2>6 DEF BatchFails, InFifo
  <2> QED BY <1>3, <2>3, <2>4, <2>5, <2>6 DEF Produce
<1>4. ASSUME NEW j \in Ids, Request(j)
      PROVE  (InFifo(i) \/ pending[i] > 0 \/ i \in dropped \cup unwritten)'
  <2>1. CASE RetryVod(j)
    <3>1. i \in cancelledQueued /\ i \in Ids /\ Enqueue(j) /\ UNCHANGED <<pending, dropped, unwritten>>
      BY <1>1, <2>1 DEF RetryVod, RetryFrom
    <3> QED BY <1>2, <3>1, EnqueueSchedules
  <2>2. CASE CancelVodDownload(j)
    <3>1. UNCHANGED <<fifo, pending, dropped, unwritten, gen, status>> /\ mode = "up"
      BY <2>2 DEF CancelVodDownload, rows
    <3>2. CASE i \in cancelledQueued
      BY <1>2, <3>1, <3>2 DEF InFifo
    <3>3. CASE i \notin cancelledQueued
      <4>1. i = j /\ status[i] = "vod_queued"
        BY <2>2, <3>3 DEF CancelVodDownload, CancelRunning, CancelQueued, CancelNotFound
      <4> QED BY <3>1, <4>1 DEF QueuedIsScheduled, InFifo
    <3> QED BY <3>2, <3>3
  <2>3. CASE FinalizeRecording(j) \/ CancelBacklogDownload(j)
    BY <1>2, <2>3 DEF FinalizeRecording, CancelBacklogDownload, memory, InFifo
  <2> QED BY <1>4, <2>1, <2>2, <2>3 DEF Request
<1>5. ASSUME NEW w \in Workers, Take(w)
      PROVE  (InFifo(i) \/ pending[i] > 0 \/ i \in dropped \cup unwritten)'
  <2>1. i \in cancelledQueued
    BY <1>5 DEF Take, TakeSentinel, TakeCancelled, TakeCancelledFails, SkipCancelled,
                TakeUnusable, TakeFails, TakeJob, StartJob
  <2> QED BY <1>1, <1>5, <2>1, StaysOnce, TakeFlag
<1>6. ASSUME NEW w \in Workers,
             Handle(w) \/ AutoPublished(w) \/ ChildExits(w) \/ StopTimeout(w)
      PROVE  (InFifo(i) \/ pending[i] > 0 \/ i \in dropped \cup unwritten)'
  <2>1. UNCHANGED <<fifo, pending, dropped, cancelledQueued>> /\ unwritten \subseteq unwritten'
    BY <1>6, HandleWrites DEF ChildExits, StopTimeout, memory, history
  <2> QED BY <1>2, <2>1 DEF InFifo
<1>7. CASE Stop
  <2>1. /\ fifo' = fifo \o [k \in 1..Cardinality(Workers) |-> Sentinel]
        /\ UNCHANGED <<pending, dropped, unwritten, cancelledQueued>>
    BY <1>7 DEF Stop, history
  <2>2. InFifo(i) => InFifo(i)'
    <3> DEFINE z == [k \in 1..Cardinality(Workers) |-> Sentinel]
    <3>1. fifo \in Seq(Entries) /\ z \in Seq(Entries)
      BY SentinelsIsSeq DEF TypeInv, TypeOK, Entries
    <3>2. fifo' = fifo \o z
      BY <2>1
    <3> HIDE DEF z
    <3>3. \A k \in 1..Len(fifo) : fifo'[k] = fifo[k] /\ k \in 1..Len(fifo')
      BY <3>1, <3>2
    <3> QED BY <3>3 DEF InFifo
  <2> QED BY <1>2, <2>1, <2>2
<1>8. CASE GoDown \/ Startup
  BY <1>8 DEF GoDown, Startup, StartupWith, DownIsEmpty
<1>9. CASE \/ (\E S \in SUBSET Ids : DeleteStream(S)) \/ (\E j \in Ids : StrayExits(j))
           \/ UNCHANGED vars
  BY <1>2, <1>9 DEF DeleteStream, StrayExits, vars, memory, history, InFifo
<1> QED BY <1>3, <1>4, <1>5, <1>6, <1>7, <1>8, <1>9 DEF Next

\* vod_queue.py: a flag is consumed with the entry it was set for and never
\* kills a later retry of the row.
THEOREM FlagsAreFresh == Spec => []NoStaleFlag
<1>1. Init => NoStaleFlag
  BY DEF Init, NoStaleFlag
<1> QED BY <1>1, StepFlags, QueuedNeverLost, TypeInvariant, PTL DEF Spec

-----------------------------------------------------------------------------
(***************************************************************************)
(* Confirmed cancellations and cancelled rows.                             *)
(***************************************************************************)

\* Everything that may happen to the status of a row, and the last answer to its
\* cancellation when it does.
Forgotten(i) == acked'[i] = "none"
StatusStep(i) ==
    \/ status'[i] = status[i]
    \/ status'[i] = "absent"
    \/ status[i] = "absent" /\ gen[i] = 0 /\ Forgotten(i)
    \/ status[i] = "vod_failed" /\ Forgotten(i)
    \/ status'[i] = "complete" /\ Forgotten(i)
    \/ /\ status[i] = "vod_queued" /\ status'[i] = "vod_cancelled"
       /\ acked' = acked
    \/ /\ \E w \in Workers : Take(w) /\ Head(fifo) = i
       /\ i \notin cancelledQueued /\ Exists(i)
       /\ status'[i] # "vod_queued" /\ acked' = acked
    \/ /\ \E w \in Workers : job[w] = i
       /\ Exists(i) /\ status'[i] # "vod_queued" /\ acked' = acked
    \/ mode = "down" /\ status[i] = "vod_downloading"

LEMMA ProduceStatus ==
    ASSUME TypeInv, SingleEntry, NEW j \in Ids, Produce(j), NEW i \in Ids, gen'[i] <= 1
    PROVE  StatusStep(i)
<1>0. status \in [Ids -> Status] /\ acked \in [Ids -> Acks] /\ gen \in [Ids -> Nat]
  BY VodQueueAssumption DEF TypeInv, TypeOK
<1>1. ASSUME NEW st \in [Ids -> Status], Insert(j, st),
             \A k \in Ids : st[k] = status[k] \/ st[k] = "absent"
      PROVE  StatusStep(i)
  <2>1. CASE i = j
    <3>1. gen[i] = 0 /\ Forgotten(i)
      BY <1>0, <1>1, <2>1 DEF Insert, Forgotten
    <3>2. status[i] = "absent"
      BY <3>1 DEF SingleEntry, OneEntry, OnceIssued
    <3> QED BY <3>1, <3>2 DEF StatusStep
  <2>2. CASE i # j
    BY <1>0, <1>1, <2>2 DEF Insert, StatusStep
  <2> QED BY <2>1, <2>2
<1>2. CASE CreateRecording(j) \/ BatchInsert(j)
  BY <1>0, <1>1, <1>2 DEF CreateRecording, BatchInsert
<1>3. ASSUME NEW S \in SUBSET Ids, DvrPullDuringDelete(j, S)  PROVE StatusStep(i)
  <2>1. Without(S) \in [Ids -> Status]
    BY WithoutType DEF TypeInv
  <2>2. \A k \in Ids : Without(S)[k] = status[k] \/ Without(S)[k] = "absent"
    BY DEF Without
  <2> QED BY <1>1, <1>3, <2>1, <2>2 DEF DvrPullDuringDelete
<1>4. CASE BatchEnqueue(j) \/ BatchFails(j)
  BY <1>4 DEF BatchEnqueue, BatchFails, rows, StatusStep
<1> QED BY <1>2, <1>3, <1>4 DEF Produce

LEMMA RequestStatus ==
    ASSUME TypeInv, NEW j \in Ids, Request(j), NEW i \in Ids
    PROVE  StatusStep(i)
<1>0. status \in [Ids -> Status] /\ acked \in [Ids -> Acks]
  BY DEF TypeInv, TypeOK
<1>1. CASE RetryVod(j)
  BY <1>0, <1>1 DEF RetryVod, RetryFrom, StatusStep, Forgotten
<1>2. CASE CancelVodDownload(j)
  BY <1>2 DEF CancelVodDownload, rows, StatusStep
<1>3. CASE FinalizeRecording(j)
  BY <1>0, <1>3 DEF FinalizeRecording, StatusStep, Forgotten
<1>4. CASE CancelBacklogDownload(j)
  BY <1>0, <1>4 DEF CancelBacklogDownload, Without, StatusStep
<1> QED BY <1>1, <1>2, <1>3, <1>4 DEF Request

LEMMA TakeStatus ==
    ASSUME TypeInv, NEW w \in Workers, Take(w), NEW i \in Ids
    PROVE  StatusStep(i)
<1>0. status \in [Ids -> Status]
  BY DEF TypeInv, TypeOK
<1>1. CASE TakeSentinel(w)
  BY <1>1 DEF TakeSentinel, rows, StatusStep
<1>2. CASE TakeCancelled(w)
  BY <1>0, <1>2 DEF TakeCancelled, SkipCancelled, MarkCancelled, history, StatusStep
<1>3. CASE TakeUnusable(w)
  BY <1>0, <1>3 DEF TakeUnusable, Take, SetStatus, history, StatusStep
<1>4. CASE TakeJob(w)
  BY <1>0, <1>4 DEF TakeJob, Take, StartJob, history, StatusStep
<1>5. CASE TakeCancelledFails(w)
  BY <1>5 DEF TakeCancelledFails, StatusStep
<1>6. CASE TakeFails(w)
  <2>1. /\ Head(fifo) \in Ids /\ Head(fifo) \notin cancelledQueued /\ acked' = acked
        /\ \/ status' = status
           \/ \E new \in {"vod_failed", "vod_downloading"} : SetStatus(Head(fifo), new)
    BY <1>6 DEF TakeFails, NotWritten, history
  <2>2. status'[i] = status[i] \/ (i = Head(fifo) /\ Exists(i) /\ status'[i] # "vod_queued")
    <3>1. CASE status' = status
      BY <3>1
    <3>2. ASSUME NEW new \in {"vod_failed", "vod_downloading"}, SetStatus(Head(fifo), new)
          PROVE  status'[i] = status[i] \/ (i = Head(fifo) /\ Exists(i) /\ status'[i] = new)
      BY <1>0, <2>1, <3>2 DEF SetStatus
    <3> QED BY <2>1, <3>1, <3>2
  <2>3. Take(w)
    BY <1>6 DEF Take
  <2> QED BY <2>1, <2>2, <2>3 DEF StatusStep
<1> QED BY <1>1, <1>2, <1>3, <1>4, <1>5, <1>6 DEF Take

LEMMA HandleStatus ==
    ASSUME TypeInv, NEW w \in Workers, Handle(w) \/ AutoPublished(w), NEW i \in Ids
    PROVE  StatusStep(i)
<1>1. acked' = acked
  BY HandleWrites
<1>2. \/ status' = status
      \/ \E new \in {"vod_failed", "vod_cancelled", "complete"} : SetStatus(job[w], new)
  BY HandleSetsStatus
<1>3. status \in [Ids -> Status]
  BY DEF TypeInv, TypeOK
<1>4. CASE status'[i] # status[i]
  <2>1. PICK new \in {"vod_failed", "vod_cancelled", "complete"} : SetStatus(job[w], new)
    BY <1>2, <1>4
  <2>2. job[w] = i /\ Exists(i) /\ status'[i] = new
    BY <1>3, <1>4, <2>1 DEF SetStatus
  <2> QED BY <1>1, <2>1, <2>2 DEF StatusStep
<1> QED BY <1>4 DEF StatusStep

LEMMA StepStatus ==
    ASSUME TypeInv, SingleEntry, [Next]_vars, NEW i \in Ids, gen'[i] <= 1
    PROVE  StatusStep(i)
<1>1. ASSUME NEW S \in SUBSET Ids, DeleteStream(S)  PROVE StatusStep(i)
  BY <1>1 DEF DeleteStream, Without, StatusStep
<1>2. ASSUME NEW w \in Workers, ChildExits(w) \/ StopTimeout(w)  PROVE StatusStep(i)
  BY <1>2 DEF ChildExits, StopTimeout, rows, StatusStep
<1>3. CASE Stop \/ GoDown \/ UNCHANGED vars
  BY <1>3 DEF Stop, GoDown, vars, rows, StatusStep
<1>4. CASE Startup
  BY <1>4 DEF Startup, StartupWith, Recovered, StatusStep
<1>5. ASSUME NEW j \in Ids, StrayExits(j)  PROVE StatusStep(i)
  BY <1>5 DEF StrayExits, rows, StatusStep
<1> QED
  BY <1>1, <1>2, <1>3, <1>4, <1>5, ProduceStatus, RequestStatus, TakeStatus, HandleStatus DEF Next

\* vod_cancelled is final: no retry, recovery or left-over entry brings the row
\* back; only finalize and deletion touch it.
THEOREM CancelledStaysCancelled == Spec => CancelledIsTerminal
<1>1. ASSUME TypeInv, SingleEntry, [Next]_vars, NEW i \in Ids, status[i] = "vod_cancelled",
             gen'[i] <= 1
      PROVE  status'[i] \in {"vod_cancelled", "complete", "absent"}
  <2>1. OnceIssued(i)
    BY <1>1, StaysOnce DEF OnceIssued
  <2>2. ~Holds(fifo, i) /\ \A w \in Workers : job[w] # i
    BY <1>1, <2>1 DEF SingleEntry, OneEntry, Idle, Ended
  <2>3. \A w \in Workers : Take(w) => Head(fifo) # i
    BY <1>1, <2>1, TakenIsFree DEF Ended
  <2> QED BY <1>1, <2>2, <2>3, StepStatus DEF StatusStep
<1>2. TypeInv /\ SingleEntry /\ [Next]_vars =>
        [\A i \in Ids : status[i] = "vod_cancelled" /\ gen'[i] <= 1 =>
            status'[i] \in {"vod_cancelled", "complete", "absent"}]_vars
  BY <1>1
<1> QED BY <1>2, OneEntryPerRow, TypeInvariant, PTL DEF Spec, CancelledIsTerminal

\* Only a worker gives a row a job, and it marks the row as it does.
LEMMA StepBusy ==
    TypeInv /\ DownIsEmpty /\ SingleEntry /\ BusyNotQueued /\ [Next]_vars => BusyNotQueued'
<1> SUFFICES ASSUME TypeInv, DownIsEmpty, SingleEntry, BusyNotQueued, [Next]_vars,
                    NEW w \in Workers, NEW i \in Ids, job'[w] = i, gen'[i] <= 1
             PROVE  status'[i] # "vod_queued"
  BY DEF BusyNotQueued, OnceIssued
<1>0. OnceIssued(i) /\ NoJob \notin Ids
  BY StaysOnce, VodQueueAssumption DEF OnceIssued, NoJob, Ids
<1>1. CASE job[w] = i
  <2>1. status[i] # "vod_queued" /\ mode # "down"
    BY <1>0, <1>1 DEF BusyNotQueued, DownIsEmpty
  <2>2. gen[i] # 0 /\ status[i] # "vod_failed"
    BY <1>0, <1>1 DEF SingleEntry, OneEntry, Idle, Ended
  <2> QED BY <2>1, <2>2, StepStatus DEF StatusStep
<1>2. CASE job[w] # i
  <2>1. ASSUME NEW v \in Workers, Take(v)  PROVE status'[i] # "vod_queued"
    <3>1. TakeJob(v) /\ Head(fifo) = i
      BY <1>2, <2>1, TakeKeepsJobs DEF TakeJob, StartJob, TypeInv, TypeOK
    <3> QED BY <3>1 DEF TakeJob, StartJob, TypeInv, TypeOK
  <2>2. ASSUME NEW v \in Workers,
               Handle(v) \/ AutoPublished(v) \/ ChildExits(v) \/ StopTimeout(v)
        PROVE  FALSE
    <3>1. (\E next \in {"waiting", "exited"} : LeaveJob(v, next)) \/ job' = job
      BY <2>2, HandleEndsOrKeeps, EndJobLeaves DEF ChildExits, StopTimeout
    <3> QED BY <1>0, <1>2, <3>1 DEF LeaveJob, TypeInv, TypeOK
  <2>3. ASSUME NEW j \in Ids, Produce(j) \/ Request(j)  PROVE FALSE
    BY <1>2, <2>3
    DEF Produce, Request, CreateRecording, DvrPullDuringDelete, BatchInsert, BatchEnqueue,
        BatchFails, RetryVod, RetryFrom, CancelVodDownload, FinalizeRecording,
        CancelBacklogDownload, workers
  <2>4. CASE \/ (\E S \in SUBSET Ids : DeleteStream(S)) \/ (\E j \in Ids : StrayExits(j))
             \/ Stop \/ GoDown \/ Startup \/ UNCHANGED vars
    BY <1>0, <1>2, <2>4 DEF DeleteStream, StrayExits, Stop, GoDown, Startup, StartupWith, vars, workers
  <2> QED BY <2>1, <2>2, <2>3, <2>4 DEF Next
<1> QED BY <1>1, <1>2

\* An entry whose row has an id of its own was the row's last hold on the queue.
LEMMA TakenIsIdle ==
    ASSUME TypeInv, SingleEntry, NEW w \in Workers, Take(w), ~TakeJob(w),
           NEW i \in Ids, i = Head(fifo), OnceIssued(i)
    PROVE  Idle(i)'
<1>1. fifo \in Seq(Entries) /\ fifo # <<>> /\ fifo' = Tail(fifo)
  BY TakeGets DEF Get, TypeInv, TypeOK, Entries
<1>2. OneEntry(i) /\ Holds(fifo, i)
  BY <1>1, TailHolds DEF SingleEntry
<1>3. ~Holds(fifo', i)
  BY <1>1, <1>2, TailOnce DEF OneEntry
<1>4. pending[i] = 0 /\ \A v \in Workers : job[v] # i
  BY <1>2 DEF OneEntry
<1>5. pending' = pending /\ job' = job
  BY TakeWrites, TakeKeepsJobs
<1> QED BY <1>3, <1>4, <1>5 DEF Idle

\* A waiting row without an entry gets none from anyone, until a restart.
LEMMA IdleStays ==
    ASSUME TypeInv, SingleEntry, [Next]_vars, NEW i \in Ids, gen'[i] <= 1, Idle(i),
           status[i] = "vod_queued", mode # "down"
    PROVE  Idle(i)'
<1>0. /\ fifo \in Seq(Entries) /\ pending \in [Ids -> Nat] /\ gen \in [Ids -> Nat]
      /\ NoJob \notin Ids
  BY VodQueueAssumption DEF TypeInv, TypeOK, Entries, NoJob, Ids
<1>1. ASSUME ~Holds(fifo', i), pending'[i] = pending[i],
             \A v \in Workers : job'[v] \in {job[v], NoJob}
      PROVE  Idle(i)'
  BY <1>0, <1>1 DEF Idle
<1>2. gen[i] # 0
  BY IssuesGrow DEF SingleEntry, OneEntry, OnceIssued
<1>3. ASSUME NEW j \in Ids, Produce(j)  PROVE Idle(i)'
  <2>1. job' = job
    BY <1>3 DEF Produce, CreateRecording, DvrPullDuringDelete, BatchInsert, BatchEnqueue,
                BatchFails, workers
  <2>2. i # j
    <3>1. ASSUME NEW st, Insert(j, st)  PROVE i # j
      BY <1>0, <1>2, <3>1 DEF Insert
    <3>2. CASE BatchEnqueue(j) \/ BatchFails(j)
      BY <3>2 DEF BatchEnqueue, BatchFails, Idle
    <3> QED BY <1>3, <3>1, <3>2
            DEF Produce, CreateRecording, DvrPullDuringDelete, BatchInsert
  <2>3. pending'[i] = pending[i] /\ (fifo' = fifo \/ Enqueue(j))
    BY <1>0, <1>3, <2>2 DEF Produce, CreateRecording, DvrPullDuringDelete, BatchInsert,
                            BatchEnqueue, BatchFails
  <2>4. ~Holds(fifo', i)
    BY <2>2, <2>3, EnqueueEntry DEF Idle
  <2> QED BY <1>1, <2>1, <2>3, <2>4
<1>4. ASSUME NEW j \in Ids, Request(j)  PROVE Idle(i)'
  <2>1. job' = job /\ pending' = pending
    BY <1>4 DEF Request, RetryVod, RetryFrom, CancelVodDownload, FinalizeRecording,
                CancelBacklogDownload, memory, workers
  <2>2. fifo' = fifo \/ (Enqueue(j) /\ j # i)
    BY <1>4 DEF Request, RetryVod, RetryFrom, CancelVodDownload, FinalizeRecording,
                CancelBacklogDownload, memory
  <2>3. ~Holds(fifo', i)
    BY <2>2, EnqueueEntry DEF Idle
  <2> QED BY <1>1, <2>1, <2>3
<1>5. ASSUME NEW w \in Workers, Take(w)  PROVE Idle(i)'
  <2>1. fifo # <<>> /\ fifo' = Tail(fifo) /\ pending' = pending
    BY <1>5, TakeGets, TakeWrites DEF Get
  <2>2. ~Holds(fifo', i) /\ i # Head(fifo)
    BY <1>0, <2>1, TailHolds DEF Idle
  <2>3. \A v \in Workers : job'[v] # i
    <3>1. CASE TakeJob(w)
      BY <2>2, <3>1 DEF TakeJob, StartJob, Idle, TypeInv, TypeOK
    <3>2. CASE ~TakeJob(w)
      BY <1>5, <3>2, TakeKeepsJobs DEF Idle
    <3> QED BY <3>1, <3>2
  <2> QED BY <2>1, <2>2, <2>3 DEF Idle
<1>6. ASSUME NEW w \in Workers, Handle(w) \/ AutoPublished(w) \/ StopTimeout(w) \/ ChildExits(w)
      PROVE  Idle(i)'
  <2>1. fifo' = fifo /\ pending' = pending
    BY <1>6, HandleWrites DEF StopTimeout, ChildExits, memory
  <2>2. (\E next \in {"waiting", "exited"} : LeaveJob(w, next)) \/ job' = job
    BY <1>6, HandleEndsOrKeeps, EndJobLeaves DEF StopTimeout, ChildExits
  <2> QED BY <1>1, <2>1, <2>2 DEF Idle, LeaveJob, TypeInv, TypeOK
<1>7. CASE Stop
  <2>1. ~Holds(fifo', i)
    BY <1>7, StopKeepsFifo DEF Idle
  <2> QED BY <1>1, <1>7, <2>1 DEF Stop, workers
<1>8. CASE GoDown
  <2>1. ~Holds(fifo', i)
    BY <1>8, EmptySeq DEF GoDown, Holds
  <2> QED BY <1>0, <1>8, <2>1 DEF GoDown, Idle
<1>9. CASE \/ (\E S \in SUBSET Ids : DeleteStream(S)) \/ (\E j \in Ids : StrayExits(j))
           \/ UNCHANGED vars
  BY <1>1, <1>9 DEF DeleteStream, StrayExits, vars, memory, workers, Idle
<1>10. CASE Startup
  BY <1>10 DEF Startup, StartupWith
<1> QED BY <1>3, <1>4, <1>5, <1>6, <1>7, <1>8, <1>9, <1>10 DEF Next

\* A flag that has been consumed in vain.
Unmarked(i) == \E w \in Workers : TakeCancelledFails(w) /\ Head(fifo) = i

\* "queued" is answered in one place only, and every flag that goes without its
\* row being marked goes with the row's entry.
LEMMA StepAnswer ==
    ASSUME TypeInv, [Next]_vars, NEW i \in Ids, acked'[i] = "queued"
    PROVE  \/ /\ status'[i] = "vod_queued" /\ i \in cancelledQueued'
              /\ mode' = "up"
           \/ /\ acked[i] = "queued"
              /\ mode' = "down" => mode = "down"
              /\ i \in cancelledQueued =>
                    i \in cancelledQueued' \/ status'[i] # "vod_queued" \/ Unmarked(i)
<1>0. status \in [Ids -> Status] /\ acked \in [Ids -> Acks] /\ cancelledQueued \subseteq Ids
  BY DEF TypeInv, TypeOK
<1>1. ASSUME NEW j \in Ids, Produce(j)
      PROVE  UNCHANGED <<cancelledQueued, mode>> /\ acked[i] = "queued"
  BY <1>0, <1>1 DEF Produce, CreateRecording, DvrPullDuringDelete, BatchInsert, BatchEnqueue,
                    BatchFails, Insert, history
<1>2. ASSUME NEW j \in Ids, RetryVod(j) \/ FinalizeRecording(j) \/ CancelBacklogDownload(j)
      PROVE  UNCHANGED <<cancelledQueued, mode>> /\ acked[i] = "queued"
  BY <1>0, <1>2 DEF RetryVod, RetryFrom, FinalizeRecording, CancelBacklogDownload, memory
<1>3. ASSUME NEW j \in Ids, CancelVodDownload(j)
      PROVE  \/ status'[i] = "vod_queued" /\ i \in cancelledQueued' /\ mode' = "up"
             \/ /\ acked[i] = "queued" /\ mode' = mode
                /\ cancelledQueued \subseteq cancelledQueued'
  BY <1>0, <1>3 DEF CancelVodDownload, CancelRunning, CancelQueued, CancelNotFound, rows
<1>4. ASSUME NEW w \in Workers, Take(w)
      PROVE  /\ UNCHANGED <<acked, mode>>
             /\ i \in cancelledQueued =>
                  i \in cancelledQueued' \/ status'[i] # "vod_queued" \/ Unmarked(i)
  <2>1. UNCHANGED <<acked, mode>>
    BY <1>4, TakeWrites
  <2>2. CASE TakeCancelledFails(w)
    BY <2>1, <2>2 DEF TakeCancelledFails, Unmarked
  <2>3. CASE ~TakeCancelledFails(w)
    BY <1>0, <1>4, <2>1, <2>3
    DEF Take, TakeSentinel, TakeCancelled, SkipCancelled, MarkCancelled, TakeUnusable,
        TakeFails, TakeJob, StartJob
  <2> QED BY <2>2, <2>3
<1>5. ASSUME NEW w \in Workers, Handle(w) \/ AutoPublished(w) \/ ChildExits(w) \/ StopTimeout(w)
      PROVE  UNCHANGED <<cancelledQueued, mode, acked>>
  BY <1>5, HandleWrites DEF ChildExits, StopTimeout, memory, history
<1>6. CASE \/ (\E S \in SUBSET Ids : DeleteStream(S)) \/ (\E j \in Ids : StrayExits(j))
           \/ Stop \/ Startup \/ UNCHANGED vars
  BY <1>6 DEF DeleteStream, StrayExits, Stop, Startup, StartupWith, vars, memory, history
<1>7. CASE GoDown
  BY <1>0, <1>7 DEF GoDown
<1> QED BY <1>1, <1>2, <1>3, <1>4, <1>5, <1>6, <1>7 DEF Next, Request

LEMMA StepHonours ==
    /\ TypeInv /\ SingleEntry /\ BusyNotQueued /\ FlaggedWhileQueued
    /\ [Next]_vars
    => FlaggedWhileQueued'
<1> SUFFICES ASSUME TypeInv, SingleEntry, BusyNotQueued, FlaggedWhileQueued, [Next]_vars,
                    NEW i \in Ids, acked'[i] = "queued"
             PROVE  /\ mode' # "down"
                    /\ gen'[i] <= 1 =>
                          /\ status'[i] \in {"vod_queued", "vod_cancelled", "absent"}
                          /\ status'[i] = "vod_queued" => i \in cancelledQueued' \/ Idle(i)'
  BY DEF FlaggedWhileQueued, OnceIssued
<1>1. CASE status'[i] = "vod_queued" /\ i \in cancelledQueued' /\ mode' = "up"
  BY <1>1
<1>2. CASE /\ acked[i] = "queued"
           /\ mode' = "down" => mode = "down"
           /\ i \in cancelledQueued =>
                i \in cancelledQueued' \/ status'[i] # "vod_queued" \/ Unmarked(i)
  <2>1. mode # "down" /\ mode' # "down"
    BY <1>2 DEF FlaggedWhileQueued
  <2>2. ASSUME gen'[i] <= 1
        PROVE  /\ status'[i] \in {"vod_queued", "vod_cancelled", "absent"}
               /\ status'[i] = "vod_queued" => i \in cancelledQueued' \/ Idle(i)'
    <3>1. OnceIssued(i)
      BY <2>2, StaysOnce DEF OnceIssued
    <3>2. /\ status[i] \in {"vod_queued", "vod_cancelled", "absent"}
          /\ status[i] = "vod_queued" => i \in cancelledQueued \/ Idle(i)
      BY <1>2, <3>1 DEF FlaggedWhileQueued
    <3>3. ASSUME NEW w \in Workers, Take(w), Head(fifo) = i
          PROVE  status[i] # "vod_cancelled" /\ ~Idle(i)
      <4>1. Holds(fifo, i)
        BY <3>3, TakeGets, TailHolds DEF Get, TypeInv, TypeOK
      <4> QED BY <3>1, <3>3, <4>1, TakenIsFree DEF Ended, Idle
    <3>4. (\E w \in Workers : job[w] = i) => status[i] \notin {"vod_queued", "vod_cancelled"}
      BY <3>1 DEF BusyNotQueued, SingleEntry, OneEntry, Idle, Ended
    <3>5. ~Forgotten(i)
      BY DEF Forgotten
    <3>6. \/ status'[i] = status[i]
          \/ status'[i] \in {"absent", "vod_cancelled"}
      BY <2>1, <2>2, <3>2, <3>3, <3>4, <3>5, StepStatus DEF StatusStep, Exists
    <3>7. ASSUME Unmarked(i)  PROVE Idle(i)'
      <4> PICK w \in Workers : TakeCancelledFails(w) /\ Head(fifo) = i
        BY <3>7 DEF Unmarked
      <4>1. Take(w) /\ ~TakeJob(w)
        BY DEF Take, TakeJob, TakeCancelledFails, SkipCancelled
      <4> QED BY <3>1, <4>1, TakenIsIdle
    <3>8. status'[i] = "vod_queued" => status[i] = "vod_queued"
      BY <3>6
    <3>9. status'[i] = "vod_queued" /\ Idle(i) => Idle(i)'
      BY <2>1, <2>2, <3>8, IdleStays
    <3> QED BY <1>2, <3>2, <3>6, <3>7, <3>8, <3>9
  <2> QED BY <2>1, <2>2
<1> QED BY <1>1, <1>2, StepAnswer

\* After the cancel endpoint answered "queued", the row is not downloaded for as
\* long as the application stays up.
THEOREM QueuedCancelIsHonoured == Spec => []QueuedCancelHonoured
<1>1. Init => BusyNotQueued /\ FlaggedWhileQueued
  BY DEF Init, BusyNotQueued, FlaggedWhileQueued
<1>2. FlaggedWhileQueued => QueuedCancelHonoured
  BY DEF FlaggedWhileQueued, QueuedCancelHonoured
<1>3. Spec => [](BusyNotQueued /\ FlaggedWhileQueued)
  BY <1>1, StepBusy, StepHonours, OneEntryPerRow, TypeInvariant, PTL DEF Spec
<1> QED BY <1>2, <1>3, PTL
=============================================================================
