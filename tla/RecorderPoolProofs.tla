------------------------- MODULE RecorderPoolProofs -------------------------
(***************************************************************************)
(* Safety of RecorderPool, and that it implements RecordingSlots, for any  *)
(* number of streams and recorders and any capacity.                       *)
(***************************************************************************)
EXTENDS RecorderPool, FiniteSetTheorems, TLAPS

\* A recorder in use has a stream, so the end of its task pops an entry.
InUseHasStream == \A r \in Recorders : rstate[r] # "unused" => rstream[r] \in Streams

\* Types and the dictionary are inductive together: a task that ends pops the
\* entry of its own stream, which has to be its own entry.
PoolInv == PoolTypeOK /\ InUseHasStream /\ RegistryExact

\* Inserting is the only step that fills the dictionary, and it tests first.
RegisteredBounded == Cardinality(Registered) <= MaxConcurrent

-----------------------------------------------------------------------------
(***************************************************************************)
(* The dictionary.                                                         *)
(***************************************************************************)

\* At the start no recorder is in use and the dictionary is empty.
LEMMA InitEstablishesPoolInv == PoolInit => PoolInv
<1> SUFFICES ASSUME PoolInit  PROVE PoolInv
  OBVIOUS
<1> USE RecorderPoolAssumption DEF PoolInit
<1>1. PoolTypeOK
  BY DEF PoolTypeOK, RecorderState
<1>2. InUseHasStream
  BY DEF InUseHasStream
<1>3. RegistryExact
  BY DEF RegistryExact
<1> QED BY <1>1, <1>2, <1>3 DEF PoolInv

\* The end of a task empties exactly its own entry.
LEMMA TaskEndsPreservesPoolInv ==
    ASSUME PoolInv, NEW r \in Recorders, rstate[r] # "unused", TaskEnds(r)
    PROVE  PoolInv'
<1> USE DEF PoolInv, PoolTypeOK, TaskEnds
<1>1. rstream[r] \in Streams /\ registered[rstream[r]] = r
  BY DEF InUseHasStream, RegistryExact
<1>2. PoolTypeOK'
  BY DEF RecorderState
<1>3. InUseHasStream'
  BY DEF InUseHasStream
<1>4. ASSUME NEW q \in Recorders, NEW s \in Streams
      PROVE  (registered[s] = q <=> rstate[q] # "unused" /\ rstream[q] = s)'
  <2>1. CASE q = r
    <3>1. rstate'[q] = "unused"
      BY <2>1
    <3>2. registered'[s] # q
      <4>1. CASE s = rstream[r]
        BY <4>1, RecorderPoolAssumption
      <4>2. CASE s # rstream[r]
        BY <2>1, <4>2 DEF RegistryExact
      <4> QED BY <4>1, <4>2
    <3> QED BY <3>1, <3>2
  <2>2. CASE q # r
    <3>1. rstate'[q] = rstate[q] /\ rstream'[q] = rstream[q]
      BY <2>2
    <3>2. CASE s = rstream[r]
      BY <1>1, <2>2, <3>1, <3>2, RecorderPoolAssumption DEF RegistryExact
    <3>3. CASE s # rstream[r]
      BY <3>1, <3>3 DEF RegistryExact
    <3> QED BY <3>2, <3>3
  <2> QED BY <2>1, <2>2
<1>5. RegistryExact'
  BY <1>4 DEF RegistryExact
<1> QED BY <1>2, <1>3, <1>5

\* A step that moves recorders among the states in use leaves the dictionary exact.
LEMMA InUsePreservesPoolInv ==
    ASSUME PoolInv, UNCHANGED <<rstream, registered>>,
           rstate' \in [Recorders -> RecorderState],
           \A r \in Recorders : rstate'[r] = "unused" <=> rstate[r] = "unused",
           (stopRequested \subseteq Recorders)', (overflowed \subseteq Recorders)'
    PROVE  PoolInv'
<1> USE DEF PoolInv
<1>1. PoolTypeOK'
  BY DEF PoolTypeOK
<1>2. InUseHasStream'
  BY DEF InUseHasStream
<1>3. RegistryExact'
  BY DEF RegistryExact
<1> QED BY <1>1, <1>2, <1>3

\* Every step preserves the invariant.
LEMMA NextPreservesPoolInv == PoolInv /\ [PoolNext]_poolVars => PoolInv'
<1> SUFFICES ASSUME PoolInv, [PoolNext]_poolVars  PROVE PoolInv'
  OBVIOUS
<1>1. ASSUME NEW r \in Recorders, NEW s \in Streams, PoolStart(r, s)  PROVE PoolInv'
  <2> USE <1>1 DEF PoolStart, Register, PoolInv, PoolTypeOK
  <2>1. rstate[r] = "unused" /\ registered[s] = NoRecorder
    BY DEF Refuses, IsRecording
  <2>2. PoolTypeOK'
    BY DEF RecorderState
  <2>3. InUseHasStream'
    BY DEF InUseHasStream
  <2>4. ASSUME NEW q \in Recorders, NEW t \in Streams
        PROVE  (registered[t] = q <=> rstate[q] # "unused" /\ rstream[q] = t)'
    <3>1. CASE q = r
      <4>1. rstate'[q] # "unused" /\ rstream'[q] = s
        BY <3>1
      <4>2. registered'[t] = q <=> t = s
        BY <2>1, <3>1 DEF RegistryExact
      <4> QED BY <4>1, <4>2
    <3>2. CASE q # r
      <4>1. rstate'[q] = rstate[q] /\ rstream'[q] = rstream[q]
        BY <3>2
      <4>2. CASE t = s
        BY <2>1, <3>2, <4>1, <4>2, RecorderPoolAssumption DEF RegistryExact
      <4>3. CASE t # s
        BY <4>1, <4>3 DEF RegistryExact
      <4> QED BY <4>2, <4>3
    <3> QED BY <3>1, <3>2
  <2>5. RegistryExact'
    BY <2>4 DEF RegistryExact
  <2> QED BY <2>2, <2>3, <2>5
<1>2. ASSUME NEW s \in Streams, PoolStop(s)  PROVE PoolInv'
  <2>1. registered[s] \in Recorders
    BY <1>2 DEF PoolStop, IsRecording, PoolInv, PoolTypeOK
  <2>2. rstate' \in [Recorders -> RecorderState] /\ (stopRequested \subseteq Recorders)'
    BY <1>2, <2>1 DEF PoolStop, StopRecorder, PoolInv, PoolTypeOK, RecorderState, Writing
  <2>3. \A r \in Recorders : rstate'[r] = "unused" <=> rstate[r] = "unused"
    BY <1>2, <2>1 DEF PoolStop, StopRecorder, PoolInv, PoolTypeOK, Writing
  <2>4. (overflowed \subseteq Recorders)'
    BY <1>2 DEF PoolStop, StopRecorder, PoolInv, PoolTypeOK
  <2> QED BY <1>2, <2>2, <2>3, <2>4, InUsePreservesPoolInv DEF PoolStop, StopRecorder
<1>3. ASSUME NEW r \in Recorders, RecorderStep(r)  PROVE PoolInv'
  <2>1. CASE SpawnFails(r)
    BY <2>1, TaskEndsPreservesPoolInv DEF SpawnFails
  <2>2. CASE Reaped(r)
    BY <2>2, TaskEndsPreservesPoolInv DEF Reaped
  <2>3. CASE Spawned(r) \/ OutputOverflows(r) \/ ChildBlocks(r) \/ BroadcastEnds(r)
                \/ ChildTerminates(r)
    <3> USE <2>3 DEF Spawned, OutputOverflows, ChildBlocks, BroadcastEnds, ChildTerminates, ChildEnds,
                     PoolInv, PoolTypeOK, RecorderState, Writing
    <3>1. rstate' \in [Recorders -> RecorderState] /\ (stopRequested \subseteq Recorders)'
      OBVIOUS
    <3>2. \A q \in Recorders : rstate'[q] = "unused" <=> rstate[q] = "unused"
      OBVIOUS
    <3>3. UNCHANGED <<rstream, registered>>
      OBVIOUS
    <3>4. (overflowed \subseteq Recorders)'
      OBVIOUS
    <3> QED BY <3>1, <3>2, <3>3, <3>4, InUsePreservesPoolInv
  <2> QED BY <1>3, <2>1, <2>2, <2>3 DEF RecorderStep
<1>4. CASE UNCHANGED poolVars
  BY <1>4 DEF poolVars, PoolInv, PoolTypeOK, InUseHasStream, RegistryExact
<1> QED BY <1>1, <1>2, <1>3, <1>4 DEF PoolNext

\* The invariant holds in every state of the pool.
LEMMA PoolInvariant == PoolSpec => []PoolInv
BY InitEstablishesPoolInv, NextPreservesPoolInv, PTL DEF PoolSpec

\* Type correctness.
THEOREM PoolTypeCorrect == PoolSpec => []PoolTypeOK
<1>1. PoolInv => PoolTypeOK
  BY DEF PoolInv
<1> QED BY <1>1, PoolInvariant, PTL

\* pool.py: _workers holds a recorder under its own stream exactly while its
\* task exists.
THEOREM RegistryIsExact == PoolSpec => []RegistryExact
<1>1. PoolInv => RegistryExact
  BY DEF PoolInv
<1> QED BY <1>1, PoolInvariant, PTL

\* A recorder in use, hence one whose child runs, is the one registered for its stream.
LEMMA InUseIsRegistered ==
    ASSUME PoolInv, NEW r \in Recorders, rstate[r] # "unused"
    PROVE  rstream[r] \in Streams /\ registered[rstream[r]] = r /\ rstream[r] \in Registered
BY RecorderPoolAssumption DEF PoolInv, InUseHasStream, RegistryExact, Registered, IsRecording

\* Two yt-dlp never write to one stream's directory.
THEOREM NoTwoWriters == PoolSpec => []OneWriterPerStream
<1>1. PoolInv => OneWriterPerStream
  BY InUseIsRegistered DEF OneWriterPerStream, Writing
<1> QED BY <1>1, PoolInvariant, PTL

-----------------------------------------------------------------------------
(***************************************************************************)
(* The capacity.                                                           *)
(***************************************************************************)

\* The streams that have an entry are finitely many.
LEMMA RegisteredIsFinite ==
    IsFiniteSet(Registered) /\ Cardinality(Registered) \in Nat
BY RecorderPoolAssumption, FS_Subset, FS_CardinalityType DEF Registered

\* pool.start tests the capacity in the step that adds the entry; no other
\* step adds one.
LEMMA NextPreservesRegisteredBounded ==
    PoolInv /\ RegisteredBounded /\ [PoolNext]_poolVars => RegisteredBounded'
<1> SUFFICES ASSUME PoolInv, RegisteredBounded, [PoolNext]_poolVars
             PROVE  RegisteredBounded'
  OBVIOUS
<1>1. ASSUME NEW r \in Recorders, NEW s \in Streams, PoolStart(r, s)
      PROVE  RegisteredBounded'
  <2>1. ~Refuses(s) /\ registered' = [registered EXCEPT ![s] = r]
    BY <1>1 DEF PoolStart, Register
  <2>2. Registered' = Registered \cup {s}
    BY <2>1, RecorderPoolAssumption DEF Registered, IsRecording, PoolInv, PoolTypeOK
  <2>3. Cardinality(Registered') <= Cardinality(Registered) + 1
    BY <2>2, RegisteredIsFinite, FS_AddElement
  <2>4. Cardinality(Registered) < MaxConcurrent
    BY <2>1, RegisteredIsFinite, RecorderPoolAssumption DEF Refuses
  <2>5. IsFiniteSet(Registered')
    BY <2>2, RegisteredIsFinite, FS_AddElement
  <2>6. Cardinality(Registered') \in Nat
    BY <2>5, FS_CardinalityType
  <2> QED
    BY <2>3, <2>4, <2>6, RegisteredIsFinite, RecorderPoolAssumption DEF RegisteredBounded
<1>2. ASSUME Registered' \subseteq Registered  PROVE RegisteredBounded'
  <2>1. IsFiniteSet(Registered') /\ Cardinality(Registered') <= Cardinality(Registered)
    BY <1>2, RegisteredIsFinite, FS_Subset
  <2>2. Cardinality(Registered') \in Nat
    BY <2>1, FS_CardinalityType
  <2> QED BY <2>1, <2>2, RegisteredIsFinite, RecorderPoolAssumption DEF RegisteredBounded
<1>3. ASSUME NEW s \in Streams, PoolStop(s)  PROVE Registered' \subseteq Registered
  BY <1>3 DEF PoolStop, Registered, IsRecording
<1>4. ASSUME NEW r \in Recorders, RecorderStep(r)  PROVE Registered' \subseteq Registered
  <2>1. CASE TaskEnds(r)
    BY <2>1 DEF TaskEnds, Registered, IsRecording, PoolInv, PoolTypeOK
  <2>2. CASE UNCHANGED registered
    BY <2>2 DEF Registered, IsRecording
  <2> QED
    BY <1>4, <2>1, <2>2 DEF RecorderStep, Spawned, SpawnFails, OutputOverflows, ChildBlocks,
                            BroadcastEnds, ChildTerminates, ChildEnds, Reaped
<1>5. CASE UNCHANGED poolVars
  BY <1>5 DEF poolVars, RegisteredBounded, Registered, IsRecording
<1> QED BY <1>1, <1>2, <1>3, <1>4, <1>5 DEF PoolNext

\* The dictionary never exceeds the capacity.
LEMMA RegisteredIsBounded == PoolSpec => []RegisteredBounded
<1>1. PoolInit => RegisteredBounded
  <2> SUFFICES ASSUME PoolInit  PROVE RegisteredBounded
    OBVIOUS
  <2>1. Registered = {}
    BY DEF PoolInit, Registered, IsRecording
  <2> QED BY <2>1, FS_EmptySet, RecorderPoolAssumption DEF RegisteredBounded
<1> QED
  BY <1>1, PoolInvariant, NextPreservesRegisteredBounded, PTL DEF PoolSpec

\* Mapping each child to its stream is injective, so the children of streams in T
\* are no more than T.
LEMMA WritersInjectIntoStreams ==
    ASSUME PoolInv, NEW T \in SUBSET Registered, \A a \in writers : a[2] \in T
    PROVE  IsFiniteSet(writers) /\ Cardinality(writers) <= Cardinality(T)
<1> DEFINE f == [a \in writers |-> a[2]]
<1>1. \A a \in writers : \E r \in Recorders : rstate[r] \in Writing /\ a = <<r, rstream[r]>>
  BY DEF writers
<1>2. ASSUME NEW a \in writers, NEW b \in writers, a[2] = b[2]  PROVE a = b
  <2>1. PICK q \in Recorders : rstate[q] \in Writing /\ a = <<q, rstream[q]>>
    BY <1>1
  <2>2. PICK r \in Recorders : rstate[r] \in Writing /\ b = <<r, rstream[r]>>
    BY <1>1
  <2>3. rstream[q] = rstream[r]
    BY <1>2, <2>1, <2>2
  <2>4. rstate[q] # "unused" /\ rstate[r] # "unused"
    BY <2>1, <2>2 DEF Writing
  <2>5. q = r
    BY <2>3, <2>4, InUseIsRegistered
  <2> QED BY <2>1, <2>2, <2>5
<1>3. f \in Injection(writers, T)
  BY <1>2 DEF Injection, IsInjective
<1>4. IsFiniteSet(T)
  BY RegisteredIsFinite, FS_Subset
<1> HIDE DEF f
<1> QED BY <1>3, <1>4, FS_Injection

\* config.py: max_concurrent_recordings bounds the children that run.
THEOREM CapacityHolds == PoolSpec => []WithinCapacity
<1>1. ASSUME PoolInv, RegisteredBounded  PROVE WithinCapacity
  <2> DEFINE W == {r \in Recorders : rstate[r] \in Writing}
             f == [r \in W |-> rstream[r]]
  <2>1. f \in Injection(W, Registered)
    BY <1>1, InUseIsRegistered DEF Injection, IsInjective, Writing
  <2>2. Cardinality(W) <= Cardinality(Registered) /\ IsFiniteSet(W)
    <3> HIDE DEF f
    <3> QED BY <2>1, RegisteredIsFinite, FS_Injection
  <2>3. Cardinality(W) \in Nat
    BY <2>2, FS_CardinalityType
  <2> QED
    BY <1>1, <2>2, <2>3, RegisteredIsFinite, RecorderPoolAssumption
    DEF RegisteredBounded, WithinCapacity
<1> QED BY <1>1, PoolInvariant, RegisteredIsBounded, PTL

-----------------------------------------------------------------------------
(***************************************************************************)
(* The pool implements RecordingSlots.                                     *)
(***************************************************************************)

\* A step that changes neither which children write nor their streams is a stutter.
LEMMA SameWriters ==
    ASSUME \A r \in Recorders : (rstate[r] \in Writing)' <=> rstate[r] \in Writing,
           \A r \in Recorders : rstate[r] \in Writing => rstream'[r] = rstream[r]
    PROVE  UNCHANGED writers
<1>1. \A a : a \in writers' => a \in writers
  BY DEF writers
<1>2. \A a : a \in writers => a \in writers'
  BY DEF writers
<1> QED BY <1>1, <1>2

\* The end of a task is not the end of a child: the child has exited before, or
\* was never spawned.
LEMMA TaskEndsStutters ==
    ASSUME PoolInv, NEW r \in Recorders, rstate[r] \notin Writing, TaskEnds(r)
    PROVE  UNCHANGED writers
<1>1. \A q \in Recorders : (rstate[q] \in Writing)' <=> rstate[q] \in Writing
  BY DEF TaskEnds, PoolInv, PoolTypeOK, Writing
<1>2. \A q \in Recorders : rstate[q] \in Writing => rstream'[q] = rstream[q]
  BY DEF TaskEnds, PoolInv, PoolTypeOK
<1> QED BY <1>1, <1>2, SameWriters

\* A spawn whose child is kept begins a recording: the entry of its stream is its
\* own, so no other child writes for that stream and a slot is free.
LEMMA SpawnedBegins ==
    ASSUME PoolInv, RegisteredBounded, NEW r \in Recorders, Spawned(r)
    PROVE  Slots!Begin(r, rstream[r])
<1> DEFINE s == rstream[r]
<1> USE DEF PoolInv, PoolTypeOK
<1>1. rstate[r] = "scheduled" /\ rstate[r] # "unused" /\ rstate[r] \notin Writing
  BY DEF Spawned, Writing
<1>2. s \in Registered /\ registered[s] = r
  BY <1>1, InUseIsRegistered
<1>3. \A a \in writers : \E q \in Recorders : rstate[q] \in Writing /\ a = <<q, rstream[q]>>
  BY DEF writers
<1>4. ASSUME NEW a \in writers  PROVE a[1] # r /\ a[2] # s /\ a[2] \in Registered
  <2>1. PICK q \in Recorders : rstate[q] \in Writing /\ a = <<q, rstream[q]>>
    BY <1>3
  <2>2. rstate[q] # "unused" /\ q # r
    BY <1>1, <2>1 DEF Writing
  <2>3. registered[rstream[q]] = q /\ rstream[q] \in Registered
    BY <2>2, InUseIsRegistered
  <2> QED BY <1>2, <2>1, <2>2, <2>3
<1>5. Cardinality(writers) < MaxConcurrent
  <2>1. Cardinality(Registered \ {s}) = Cardinality(Registered) - 1
    BY <1>2, RegisteredIsFinite, FS_RemoveElement
  <2>2. IsFiniteSet(writers) /\ Cardinality(writers) <= Cardinality(Registered \ {s})
    BY <1>4, WritersInjectIntoStreams
  <2>3. Cardinality(writers) \in Nat
    BY <2>2, FS_CardinalityType
  <2> QED
    BY <2>1, <2>2, <2>3, RegisteredIsFinite, RecorderPoolAssumption DEF RegisteredBounded
<1>6. writers' = writers \cup {<<r, s>>}
  <2>1. rstream' = rstream /\ rstate'[r] \in Writing
    BY DEF Spawned, Writing
  <2>2. \A q \in Recorders : q # r => rstate'[q] = rstate[q]
    BY DEF Spawned
  <2>3. ASSUME NEW a \in writers'  PROVE a \in writers \cup {<<r, s>>}
    <3>1. PICK q \in Recorders : rstate'[q] \in Writing /\ a = <<q, rstream[q]>>
      BY <2>1 DEF writers
    <3>2. CASE q = r
      BY <3>1, <3>2
    <3>3. CASE q # r
      BY <2>2, <3>1, <3>3 DEF writers
    <3> QED BY <3>2, <3>3
  <2>4. ASSUME NEW a \in writers  PROVE a \in writers'
    <3>1. PICK q \in Recorders : rstate[q] \in Writing /\ a = <<q, rstream[q]>>
      BY <1>3
    <3>2. rstate'[q] \in Writing
      BY <1>1, <2>2, <3>1
    <3> QED BY <2>1, <3>1, <3>2 DEF writers
  <2>5. <<r, s>> \in writers'
    BY <2>1 DEF writers
  <2> QED BY <2>3, <2>4, <2>5
<1> QED BY <1>4, <1>5, <1>6 DEF Slots!Begin, Slots!Cardinality, Cardinality

\* The end of a child ends its recording.
LEMMA ChildEndsEnds ==
    ASSUME PoolInv, NEW r \in Recorders, rstate[r] \in Writing, ChildEnds(r)
    PROVE  Slots!End(r, rstream[r])
<1> USE DEF PoolInv, PoolTypeOK
<1> DEFINE s == rstream[r]
<1>1. <<r, s>> \in writers
  BY DEF writers
<1>2. rstream' = rstream /\ rstate'[r] \notin Writing
  BY DEF ChildEnds, Writing
<1>3. \A q \in Recorders : q # r => rstate'[q] = rstate[q]
  BY DEF ChildEnds
<1>4. ASSUME NEW a \in writers'  PROVE a \in writers \ {<<r, s>>}
  <2>1. PICK q \in Recorders : rstate'[q] \in Writing /\ a = <<q, rstream[q]>>
    BY <1>2 DEF writers
  <2>2. q # r /\ rstate[q] \in Writing
    BY <1>2, <1>3, <2>1
  <2> QED BY <2>1, <2>2 DEF writers
<1>5. ASSUME NEW a \in writers \ {<<r, s>>}  PROVE a \in writers'
  <2>1. PICK q \in Recorders : rstate[q] \in Writing /\ a = <<q, rstream[q]>>
    BY DEF writers
  <2>2. q # r
    BY <2>1
  <2> QED BY <1>2, <1>3, <2>1, <2>2 DEF writers
<1> QED BY <1>1, <1>4, <1>5 DEF Slots!End

\* Every step of the pool is a step of the slots or a stutter.
LEMMA PoolStepSimulates ==
    PoolInv /\ RegisteredBounded /\ [PoolNext]_poolVars => [Slots!Next]_writers
<1> SUFFICES ASSUME PoolInv, RegisteredBounded, [PoolNext]_poolVars
             PROVE  Slots!Next \/ UNCHANGED writers
  OBVIOUS
<1> USE DEF PoolInv, PoolTypeOK
<1>1. ASSUME NEW r \in Recorders, NEW s \in Streams, PoolStart(r, s)
      PROVE  UNCHANGED writers
  <2>1. rstate[r] \notin Writing /\ rstate' = [rstate EXCEPT ![r] = "scheduled"]
    BY <1>1 DEF PoolStart, Register, Writing
  <2>2. \A q \in Recorders : (rstate[q] \in Writing)' <=> rstate[q] \in Writing
    BY <2>1 DEF Writing
  <2>3. \A q \in Recorders : rstate[q] \in Writing => rstream'[q] = rstream[q]
    BY <1>1, <2>1 DEF PoolStart, Register
  <2> QED BY <2>2, <2>3, SameWriters
<1>2. ASSUME NEW s \in Streams, PoolStop(s)  PROVE UNCHANGED writers
  <2>1. \A q \in Recorders : (rstate[q] \in Writing)' <=> rstate[q] \in Writing
    BY <1>2 DEF PoolStop, StopRecorder, Writing
  <2>2. \A q \in Recorders : rstate[q] \in Writing => rstream'[q] = rstream[q]
    BY <1>2 DEF PoolStop, StopRecorder
  <2> QED BY <2>1, <2>2, SameWriters
<1>3. ASSUME NEW r \in Recorders, RecorderStep(r)  PROVE Slots!Next \/ UNCHANGED writers
  <2>1. CASE Spawned(r)
    <3>1. rstream[r] \in Streams
      BY <2>1, InUseIsRegistered DEF Spawned
    <3> QED BY <2>1, <3>1, SpawnedBegins DEF Slots!Next
  <2>2. CASE BroadcastEnds(r) \/ ChildTerminates(r)
    <3>1. rstate[r] \in Writing /\ ChildEnds(r)
      BY <2>2 DEF BroadcastEnds, ChildTerminates, Writing
    <3>2. rstream[r] \in Streams
      BY <3>1, InUseIsRegistered DEF Writing
    <3> QED BY <3>1, <3>2, ChildEndsEnds DEF Slots!Next
  <2>3. CASE SpawnFails(r) \/ Reaped(r)
    <3>1. rstate[r] \notin Writing /\ TaskEnds(r)
      BY <2>3 DEF SpawnFails, Reaped, Writing
    <3> QED BY <3>1, TaskEndsStutters
  <2>4. CASE ChildBlocks(r)
    <3>1. \A q \in Recorders : (rstate[q] \in Writing)' <=> rstate[q] \in Writing
      BY <2>4 DEF ChildBlocks, Writing
    <3>2. \A q \in Recorders : rstate[q] \in Writing => rstream'[q] = rstream[q]
      BY <2>4 DEF ChildBlocks
    <3> QED BY <3>1, <3>2, SameWriters
  <2>5. CASE OutputOverflows(r)
    BY <2>5 DEF OutputOverflows, writers
  <2> QED BY <1>3, <2>1, <2>2, <2>3, <2>4, <2>5 DEF RecorderStep
<1>4. CASE UNCHANGED poolVars
  BY <1>4 DEF poolVars, writers
<1> QED BY <1>1, <1>2, <1>3, <1>4 DEF PoolNext

\* The pool keeps the promise of RecordingSlots: every behaviour of tasks, stop
\* flags and children is, seen through the children that write, one of the slots.
THEOREM PoolImplementsSlots == PoolSpec => ImplementsSlots
<1>1. PoolInit => Slots!Init
  <2> SUFFICES ASSUME PoolInit  PROVE writers = {}
    BY DEF Slots!Init
  <2> QED BY DEF PoolInit, writers, Writing
<1> QED
  BY <1>1, PoolInvariant, RegisteredIsBounded, PoolStepSimulates, PTL
  DEF PoolSpec, ImplementsSlots, Slots!Spec
=============================================================================
