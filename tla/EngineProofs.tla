---------------------------- MODULE EngineProofs ----------------------------
(***************************************************************************)
(* The semaphore and the WaitGroup of the engine account exactly for its   *)
(* goroutines, for every number of events, every buffer size and every     *)
(* concurrency limit, crashes and shutdowns included.                      *)
(*                                                                         *)
(* Both counts change when the loop starts a worker for the event in its   *)
(* hand, so neither is inductive without knowing that no worker of that    *)
(* event is running.  That follows from the order of the pipeline: offsets *)
(* only grow from the workers through the loop's hand and the channel to   *)
(* the reader's hand.  From the same order follows that no event vanishes: *)
(* what was read is in one place or finished.                              *)
(***************************************************************************)
EXTENDS Engine, FiniteSetTheorems, TLAPS

\* Offsets increase along the pipeline and none lies beyond the consumer's position.
PipelineOrdered ==
    /\ \A e \in Events : stage[e] # "none" =>
          /\ e <= position
          /\ loop.pc = "acquire" => e < loop.event
          /\ \A i \in 1..Len(eventChan) : e < eventChan[i]
          /\ reader.pc = "sending" => e < reader.event
    /\ loop.pc = "acquire" =>
          /\ loop.event \in Events
          /\ loop.event <= position
          /\ \A i \in 1..Len(eventChan) : loop.event < eventChan[i]
          /\ reader.pc = "sending" => loop.event < reader.event
    /\ \A i \in 1..Len(eventChan) :
          /\ eventChan[i] <= position
          /\ reader.pc = "sending" => eventChan[i] < reader.event
    /\ \A i, j \in 1..Len(eventChan) : i < j => eventChan[i] < eventChan[j]
    /\ reader.pc = "sending" => reader.event \in Events /\ reader.event <= position

\* A process that was not started runs nothing, and the loop is alive until it stops.
Lifecycle ==
    /\ ~started => alive = {} /\ loop.pc = "off" /\ \A e \in Events : stage[e] = "none"
    /\ loop.pc \in {"select", "acquire"} => "loop" \in alive

\* TypeOK without the two counters, whose types follow from what they count.
Typed ==
    /\ started \in BOOLEAN
    /\ ctxDone \in BOOLEAN
    /\ alive \subseteq Tracked
    /\ reader \in ReaderStates
    /\ eventChan \in Seq(Events)
    /\ Len(eventChan) <= BufferSize
    /\ loop \in LoopStates
    /\ stage \in [Events -> Stages]
    /\ stopping \in {"no", "cancelled", "waiting", "flushing", "done"}
    /\ metrics \in Counters
    /\ lastCheckpointAt \in BOOLEAN
    /\ position \in 0..NumEvents
    /\ committed \in 0..NumEvents
    /\ resumed \in 0..NumEvents
    /\ outcome \in [Events -> Outcomes]
    /\ delivered \in [Events -> Nat]
    /\ givenUp \subseteq Events
    /\ crashes \in Nat

\* The inductive invariant.
IInv == Typed /\ PipelineOrdered /\ Lifecycle /\ ConcurrencyBounded /\ WaitGroupAccounts

(* Incrementing one of the counters of StreamMetrics gives counters again. *)
LEMMA CountersBump ==
    ASSUME NEW m \in Counters
    PROVE  /\ [m EXCEPT !.processed = @ + 1] \in Counters
           /\ [m EXCEPT !.filtered = @ + 1] \in Counters
           /\ [m EXCEPT !.backpressure = @ + 1] \in Counters
BY DEF Counters

(* The states of the reader and of the loop are closed under a change of their pc. *)
LEMMA PcChanges ==
    /\ \A r \in ReaderStates, pc \in {"select", "reading", "stopped"} :
          [r EXCEPT !.pc = pc] \in ReaderStates
    /\ \A l \in LoopStates, pc \in {"select", "stopped"} : [l EXCEPT !.pc = pc] \in LoopStates
    /\ \A pc \in {"off", "select", "stopped"} : [pc |-> pc, event |-> NoEvent] \in ReaderStates
    /\ \A pc \in {"off", "select"} : [pc |-> pc, event |-> NoEvent] \in LoopStates
    /\ \A e \in Events : /\ [pc |-> "sending", event |-> e] \in ReaderStates
                         /\ [pc |-> "acquire", event |-> e] \in LoopStates
BY DEF ReaderStates, LoopStates, NoEvent

(* Every step of a goroutine, of Stop or of the environment keeps the types. *)
LEMMA TypedStep == Typed /\ PipelineOrdered /\ [Next]_vars => Typed'
<1> SUFFICES ASSUME Typed, PipelineOrdered, [Next]_vars PROVE Typed'
    OBVIOUS
<1> USE DEF Typed, control, waits, intake, work, stats, kafka, results
<1>1. CASE Start
    BY <1>1, PcChanges DEF Start
<1>2. CASE SourceStart
    BY <1>2, PcChanges DEF SourceStart
<1>3. CASE ReaderSelect
    BY <1>3, PcChanges DEF ReaderSelect
<1>4. CASE ReadMessage
  <2>1. CASE position < NumEvents /\ reader' = [pc |-> "sending", event |-> position + 1]
                                  /\ position' = position + 1
    <3>1. position + 1 \in Events /\ position + 1 \in 0..NumEvents
        BY <2>1, EngineAssumption DEF Events
    <3>2. reader' \in ReaderStates
        BY <2>1, <3>1, PcChanges
    <3> QED
        BY <1>4, <2>1, <3>1, <3>2 DEF ReadMessage
  <2>2. CASE reader' = [reader EXCEPT !.pc = "select"] /\ position' = position
    <3>1. reader' \in ReaderStates
        BY <2>2, PcChanges
    <3> QED
        BY <1>4, <2>2, <3>1 DEF ReadMessage
  <2> QED
      BY <1>4, <2>1, <2>2 DEF ReadMessage
<1>5. CASE ReaderSend
    BY <1>5, PcChanges, EngineAssumption DEF ReaderSend, PipelineOrdered
<1>6. CASE ReaderCancelled
    BY <1>6, PcChanges DEF ReaderCancelled, Finish, PipelineOrdered, Outcomes
<1>7. CASE LoopTake
  <2>1. /\ Head(eventChan) \in Events
        /\ Tail(eventChan) \in Seq(Events)
        /\ Len(Tail(eventChan)) <= BufferSize
      BY <1>7, EngineAssumption DEF LoopTake
  <2>2. metrics' \in Counters
      BY <1>7, CountersBump DEF LoopTake
  <2>3. loop' \in LoopStates
      BY <1>7, <2>1, PcChanges DEF LoopTake
  <2> QED
      BY <1>7, <2>1, <2>2, <2>3 DEF LoopTake
<1>8. CASE LoopDispatch
    BY <1>8, PcChanges DEF LoopDispatch, PipelineOrdered, Stages, Working
<1>9. CASE LoopExit
    BY <1>9, PcChanges DEF LoopExit
<1>10. ASSUME NEW e \in Events, RunOperators(e) PROVE Typed'
  <2>1. CASE OperatorsFail(e)
      BY <1>10, <2>1 DEF RunOperators, OperatorsFail, Finish, Stages, Working, Outcomes
  <2>2. CASE OperatorsFilter(e)
    <3>1. metrics' \in Counters
        BY <2>2, CountersBump DEF OperatorsFilter
    <3> QED
        BY <1>10, <2>2, <3>1
        DEF RunOperators, OperatorsFilter, Finish, Stages, Working, Outcomes
  <2>3. CASE OperatorsForward(e)
      BY <1>10, <2>3 DEF RunOperators, OperatorsForward, Stages, Working
  <2> QED
      BY <1>10, <2>1, <2>2, <2>3 DEF RunOperators
<1>11. ASSUME NEW e \in Events, WriteSinks(e) PROVE Typed'
  <2>1. metrics' \in Counters
      BY <1>11, CountersBump DEF WriteSinks
  <2>2. delivered' \in [Events -> Nat] /\ givenUp' \subseteq Events
      BY <1>11 DEF WriteSinks
  <2> QED
      BY <1>11, <2>1, <2>2 DEF WriteSinks, Finish, Stages, Working, Outcomes
<1>12. ASSUME NEW e \in Events, ReleaseSemaphore(e) PROVE Typed'
    BY <1>12 DEF ReleaseSemaphore, Stages
<1>13. ASSUME NEW e \in Events, WorkerDone(e) PROVE Typed'
    BY <1>13 DEF WorkerDone, Stages
<1>14. CASE WatermarkExit \/ createCheckpoint \/ \E g \in alive : PeriodicExit(g)
    BY <1>14 DEF WatermarkExit, createCheckpoint, PeriodicExit
<1>15. CASE Stop
    BY <1>15 DEF Stop, StopCancel, StopSources, StopWaited, StopFlushed
<1>16. CASE AutoCommit
    BY <1>16 DEF AutoCommit
<1>17. CASE Crash
  <2>1. started' \in BOOLEAN /\ ctxDone' \in BOOLEAN /\ lastCheckpointAt' \in BOOLEAN
      BY <1>17 DEF Crash
  <2>2. eventChan' \in Seq(Events) /\ Len(eventChan') <= BufferSize
      BY <1>17, EngineAssumption DEF Crash
  <2>3. metrics' \in Counters
      BY <1>17 DEF Crash, Counters
  <2>4. reader' \in ReaderStates /\ loop' \in LoopStates
      BY <1>17, PcChanges DEF Crash
  <2> QED
      BY <1>17, <2>1, <2>2, <2>3, <2>4 DEF Crash, Stages, Outcomes
<1>18. CASE UNCHANGED vars
    BY <1>18 DEF vars
<1> QED
    BY <1>1, <1>2, <1>3, <1>4, <1>5, <1>6, <1>7, <1>8, <1>9, <1>10, <1>11, <1>12, <1>13,
       <1>14, <1>15, <1>16, <1>17, <1>18
    DEF Next, Source, Loop, Periodic, worker, processEvent

-----------------------------------------------------------------------------
(* The order of the offsets along the pipeline is kept by every step. *)
LEMMA OrderedStep == Typed /\ PipelineOrdered /\ Lifecycle /\ [Next]_vars => PipelineOrdered'
<1> SUFFICES ASSUME Typed, PipelineOrdered, Lifecycle, [Next]_vars PROVE PipelineOrdered'
    OBVIOUS
<1>0. /\ position \in Nat /\ NumEvents \in Nat
      /\ eventChan \in Seq(Events) /\ \A e \in Events : e \in Nat
      /\ reader \in ReaderStates /\ loop \in LoopStates
      /\ stage \in [Events -> Stages]
    BY EngineAssumption DEF Typed, Events
<1> USE DEF PipelineOrdered, control, waits, intake, work, stats, kafka, results
<1>1. CASE Start
    BY <1>0, <1>1 DEF Start, LoopStates
<1>2. CASE SourceStart \/ ReaderSelect
    BY <1>0, <1>2 DEF SourceStart, ReaderSelect, ReaderStates
<1>3. CASE ReadMessage
  <2>1. CASE reader' = [pc |-> "sending", event |-> position + 1] /\ position' = position + 1
                 /\ position < NumEvents
    <3>1. position + 1 \in Events
        BY <1>0, <2>1 DEF Events
    <3>2. reader'.event = position + 1 /\ UNCHANGED <<stage, loop, eventChan>>
        BY <1>3, <2>1 DEF ReadMessage
    <3>3. \A e \in Events : e <= position => e < position + 1 /\ e <= position + 1
        BY <1>0
    <3>4. \A i \in 1..Len(eventChan) : eventChan[i] \in Events
        BY <1>0
    <3> QED
        BY <1>0, <2>1, <3>1, <3>2, <3>3, <3>4
  <2>2. CASE reader' = [reader EXCEPT !.pc = "select"] /\ position' = position
      BY <1>0, <1>3, <2>2 DEF ReadMessage, ReaderStates
  <2> QED
      BY <1>3, <2>1, <2>2 DEF ReadMessage
<1>4. CASE ReaderSend
  <2>1. /\ Len(eventChan') = Len(eventChan) + 1
        /\ \A i \in 1..Len(eventChan) : eventChan'[i] = eventChan[i]
        /\ eventChan'[Len(eventChan) + 1] = reader.event
        /\ Len(eventChan) \in Nat
      BY <1>0, <1>4 DEF ReaderSend
  <2>2. \A i \in 1..Len(eventChan') : i \in 1..Len(eventChan) \/ i = Len(eventChan) + 1
      BY <2>1
  <2>3. reader.pc = "sending" /\ reader'.pc = "select" /\ UNCHANGED <<stage, loop, position>>
      BY <1>4 DEF ReaderSend
  <2>4. \A i, j \in 1..Len(eventChan') : i < j => eventChan'[i] < eventChan'[j]
      BY <2>1, <2>2, <2>3
  <2> QED
      BY <2>1, <2>2, <2>3, <2>4
<1>5. CASE ReaderCancelled
    BY <1>0, <1>5 DEF ReaderCancelled
<1>6. CASE LoopTake
  <2>1. /\ Len(eventChan) \in Nat \ {0}
        /\ Len(eventChan') = Len(eventChan) - 1
        /\ \A i \in 1..Len(eventChan') : eventChan'[i] = eventChan[i + 1]
                                         /\ i + 1 \in 1..Len(eventChan)
        /\ Head(eventChan) = eventChan[1]
        /\ 1 \in 1..Len(eventChan)
      BY <1>0, <1>6, SMTT(30) DEF LoopTake
  <2>2. /\ loop'.pc = "acquire" /\ loop'.event = eventChan[1] /\ eventChan[1] \in Events
        /\ UNCHANGED <<stage, reader, position>>
      BY <1>0, <1>6, <2>1 DEF LoopTake
  <2>3. \A i \in 1..Len(eventChan') : eventChan[1] < eventChan'[i]
      BY <2>1
  <2>4. \A i, j \in 1..Len(eventChan') : i < j => eventChan'[i] < eventChan'[j]
      BY <2>1
  <2> QED
      BY <2>1, <2>2, <2>3, <2>4
<1>7. CASE LoopDispatch
    BY <1>0, <1>7 DEF LoopDispatch
<1>8. CASE LoopExit
    BY <1>0, <1>8 DEF LoopExit, LoopStates
<1>9. ASSUME NEW e \in Events, worker(e) PROVE PipelineOrdered'
  <2>1. \A x \in Events : stage'[x] # "none" => stage[x] # "none"
      BY <1>0, <1>9 DEF worker, processEvent, RunOperators, OperatorsFail, OperatorsFilter,
                        OperatorsForward, WriteSinks, ReleaseSemaphore, WorkerDone
  <2>2. UNCHANGED <<position, loop, eventChan, reader>>
      BY <1>9 DEF worker, processEvent, RunOperators, WriteSinks, ReleaseSemaphore,
                  WorkerDone
  <2> QED
      BY <2>1, <2>2
<1>10. CASE Crash
    BY <1>0, <1>10 DEF Crash
<1>11. CASE Periodic \/ Stop \/ AutoCommit \/ UNCHANGED vars
  <2>1. UNCHANGED <<position, loop, eventChan, reader, stage>>
      BY <1>11 DEF Periodic, WatermarkExit, createCheckpoint, PeriodicExit, Stop, StopCancel,
                   StopSources, StopWaited, StopFlushed, AutoCommit, vars
  <2> QED
      BY <2>1
<1> QED
    BY <1>1, <1>2, <1>3, <1>4, <1>5, <1>6, <1>7, <1>8, <1>9, <1>10, <1>11
    DEF Next, Source, Loop

(* So is the relation between started, the loop and what runs. *)
LEMMA LifecycleStep == Typed /\ PipelineOrdered /\ Lifecycle /\ [Next]_vars => Lifecycle'
<1> SUFFICES ASSUME Typed, PipelineOrdered, Lifecycle, [Next]_vars PROVE Lifecycle'
    OBVIOUS
<1>0. reader \in ReaderStates /\ loop \in LoopStates /\ stage \in [Events -> Stages]
    BY DEF Typed
<1> USE DEF Lifecycle, control, waits, intake, work, stats, kafka, results
<1>1. CASE Start
    BY <1>0, <1>1 DEF Start, Tracked
<1>2. CASE Source
    BY <1>0, <1>2 DEF Source, SourceStart, ReaderSelect, ReadMessage, ReaderSend,
                      ReaderCancelled
<1>3. CASE Loop
    BY <1>0, <1>3 DEF Loop, LoopTake, LoopDispatch, LoopExit, LoopStates, PipelineOrdered
<1>4. ASSUME NEW e \in Events, worker(e) PROVE Lifecycle'
  <2>1. stage[e] # "none" /\ UNCHANGED <<started, alive, loop>>
      BY <1>4 DEF worker, processEvent, RunOperators, WriteSinks, ReleaseSemaphore,
                  WorkerDone
  <2> QED
      BY <2>1
<1>5. CASE Periodic \/ Stop \/ AutoCommit \/ UNCHANGED vars
    BY <1>5 DEF Periodic, WatermarkExit, createCheckpoint, PeriodicExit, Stop, StopCancel,
                StopSources, StopWaited, StopFlushed, AutoCommit, vars
<1>6. CASE Crash
    BY <1>6 DEF Crash
<1> QED
    BY <1>1, <1>2, <1>3, <1>4, <1>5, <1>6 DEF Next

-----------------------------------------------------------------------------
\* What the semaphore and the WaitGroup count.
Slots == {e \in Events : stage[e] \in Working}
Counted == alive \cup (IF started THEN {"watermark"} ELSE {})

(* The goroutines that Start launches are finitely many. *)
LEMMA TrackedFinite == IsFiniteSet(Tracked) /\ Cardinality(Tracked) \in Nat
<1> DEFINE A == {"watermark"} B == A \cup {"source"} C == B \cup {"loop"}
           D == C \cup {"metrics"} E == D \cup {"checkpoint"}
<1>1. IsFiniteSet(A)
    BY FS_Singleton
<1>2. IsFiniteSet(B)
    BY <1>1, FS_AddElement
<1>3. IsFiniteSet(C)
    BY <1>2, FS_AddElement
<1>4. IsFiniteSet(D)
    BY <1>3, FS_AddElement
<1>5. IsFiniteSet(E)
    BY <1>4, FS_AddElement
<1>6. Tracked = E
    BY DEF Tracked
<1> QED
    BY <1>5, <1>6, FS_CardinalityType

(* The sets that the two counters count are finite. *)
LEMMA CountedFinite ==
    ASSUME Typed
    PROVE  /\ IsFiniteSet(Slots) /\ Cardinality(Slots) \in Nat
           /\ IsFiniteSet(Workers) /\ Cardinality(Workers) \in Nat
           /\ IsFiniteSet(Counted) /\ Cardinality(Counted) \in Nat
<1>1. IsFiniteSet(Events)
    BY FS_Interval, EngineAssumption DEF Events
<1>2. IsFiniteSet(Tracked)
    BY TrackedFinite
<1>3. Slots \in SUBSET Events /\ Workers \in SUBSET Events /\ Counted \in SUBSET Tracked
    BY DEF Slots, Workers, Counted, Typed, Tracked
<1> QED
    BY <1>1, <1>2, <1>3, FS_Subset, FS_CardinalityType

(* The semaphore counts the workers that hold a slot, at most MaxConcurrency. *)
LEMMA SemaphoreStep ==
    Typed /\ PipelineOrdered /\ ConcurrencyBounded /\ [Next]_vars => ConcurrencyBounded'
<1> SUFFICES ASSUME Typed, PipelineOrdered, ConcurrencyBounded, [Next]_vars
             PROVE  semaphore' = Cardinality(Slots') /\ semaphore' <= MaxConcurrency
    BY DEF ConcurrencyBounded, Slots
<1>0. /\ semaphore = Cardinality(Slots) /\ semaphore <= MaxConcurrency
      /\ IsFiniteSet(Slots) /\ semaphore \in Nat /\ MaxConcurrency \in Nat
      /\ stage \in [Events -> Stages]
    BY CountedFinite, EngineAssumption DEF ConcurrencyBounded, Slots, Typed
<1> USE DEF control, waits, intake, work, stats, kafka, results
<1> DEFINE Goal == semaphore' = Cardinality(Slots') /\ semaphore' <= MaxConcurrency
<1>1. CASE LoopDispatch
  <2>1. loop.event \in Events /\ stage[loop.event] = "none"
      BY <1>1, EngineAssumption DEF LoopDispatch, PipelineOrdered, Events
  <2>2. Slots' = Slots \cup {loop.event} /\ loop.event \notin Slots
      BY <1>0, <1>1, <2>1 DEF LoopDispatch, Slots, Working
  <2>3. Cardinality(Slots') = Cardinality(Slots) + 1
      BY <1>0, <2>2, FS_AddElement
  <2> QED
      BY <1>0, <1>1, <2>3 DEF LoopDispatch
<1>2. ASSUME NEW e \in Events, ReleaseSemaphore(e) PROVE Goal
  <2>1. Slots' = Slots \ {e} /\ e \in Slots
      BY <1>0, <1>2 DEF ReleaseSemaphore, Slots, Working
  <2> QED
      BY <1>0, <1>2, <2>1, FS_RemoveElement, SMTT(30) DEF ReleaseSemaphore
<1>3. ASSUME NEW e \in Events, processEvent(e) \/ WorkerDone(e) PROVE Goal
  <2>1. Slots' = Slots
      BY <1>0, <1>3 DEF processEvent, RunOperators, OperatorsFail, OperatorsFilter,
                        OperatorsForward, WriteSinks, WorkerDone, Slots, Working
  <2>2. semaphore' = semaphore
      BY <1>3 DEF processEvent, RunOperators, WriteSinks, WorkerDone
  <2> QED
      BY <1>0, <2>1, <2>2
<1>4. CASE Crash
  <2>1. Slots' = {} /\ semaphore' = 0
      BY <1>4 DEF Crash, Slots, Working
  <2> QED
      BY <1>0, <2>1, FS_EmptySet
<1>5. CASE Start \/ Source \/ LoopTake \/ LoopExit \/ Periodic \/ Stop \/ AutoCommit
              \/ UNCHANGED vars
  <2>1. stage' = stage /\ semaphore' = semaphore
      BY <1>5 DEF Start, Source, SourceStart, ReaderSelect, ReadMessage, ReaderSend,
                  ReaderCancelled, LoopTake, LoopExit, Periodic, WatermarkExit,
                  createCheckpoint, PeriodicExit, Stop, StopCancel, StopSources, StopWaited,
                  StopFlushed, AutoCommit, vars
  <2> QED
      BY <1>0, <2>1 DEF Slots
<1> QED
    BY <1>1, <1>2, <1>3, <1>4, <1>5 DEF Next, Loop, worker

(* The WaitGroup counts the goroutines of Start and the workers. *)
LEMMA WaitGroupStep == IInv /\ [Next]_vars => WaitGroupAccounts'
<1> SUFFICES ASSUME IInv, [Next]_vars
             PROVE  wg' = Cardinality(Counted') + Cardinality(Workers')
    BY DEF WaitGroupAccounts, Counted
<1>0. /\ wg = Cardinality(Counted) + Cardinality(Workers)
      /\ IsFiniteSet(Counted) /\ Cardinality(Counted) \in Nat
      /\ IsFiniteSet(Workers) /\ Cardinality(Workers) \in Nat
      /\ stage \in [Events -> Stages] /\ alive \subseteq Tracked
    BY CountedFinite DEF IInv, WaitGroupAccounts, Counted, Typed
<1> USE DEF control, waits, intake, work, stats, kafka, results
<1> DEFINE Goal == wg' = Cardinality(Counted') + Cardinality(Workers')
<1>1. CASE Start
  <2>1. Counted' = Tracked /\ wg' = Cardinality(Tracked)
      BY <1>1 DEF Start, Counted, Tracked
  <2>2. Workers' = {}
      BY <1>1 DEF Start, IInv, Lifecycle, Workers
  <2>3. Cardinality(Counted') \in Nat
      BY <2>1, TrackedFinite
  <2> QED
      BY <2>1, <2>2, <2>3, FS_EmptySet
<1>2. ASSUME NEW g \in alive, g # "watermark", alive' = alive \ {g}, wg' = wg - 1,
             UNCHANGED <<started, stage>>
      PROVE  Goal
  <2>1. Counted' = Counted \ {g} /\ g \in Counted /\ Workers' = Workers
      BY <1>2 DEF Counted, Workers
  <2>2. Cardinality(Counted') = Cardinality(Counted) - 1
      BY <1>0, <2>1, FS_RemoveElement
  <2> QED
      BY <1>0, <1>2, <2>1, <2>2
<1>3. CASE SourceStart
    BY <1>2, <1>3 DEF SourceStart
<1>4. ASSUME NEW g \in alive, PeriodicExit(g) PROVE Goal
    BY <1>2, <1>4 DEF PeriodicExit
<1>5. CASE LoopExit
    BY <1>2, <1>5 DEF LoopExit, IInv, Lifecycle
<1>6. CASE WatermarkExit
  <2>1. started
      BY <1>6 DEF WatermarkExit, IInv, Lifecycle
  <2>2. Counted' = Counted /\ Workers' = Workers /\ wg' = wg
      BY <1>6, <2>1 DEF WatermarkExit, Counted, Workers
  <2> QED
      BY <1>0, <2>2
<1>7. CASE LoopDispatch
  <2>1. loop.event \in Events /\ stage[loop.event] = "none"
      BY <1>7, EngineAssumption DEF LoopDispatch, IInv, PipelineOrdered, Events
  <2>2. Workers' = Workers \cup {loop.event} /\ loop.event \notin Workers /\ Counted' = Counted
      BY <1>0, <1>7, <2>1 DEF LoopDispatch, Workers, Counted
  <2>3. Cardinality(Workers') = Cardinality(Workers) + 1
      BY <1>0, <2>2, FS_AddElement
  <2> QED
      BY <1>0, <1>7, <2>2, <2>3 DEF LoopDispatch
<1>8. ASSUME NEW e \in Events, WorkerDone(e) PROVE Goal
  <2>1. Workers' = Workers \ {e} /\ e \in Workers /\ Counted' = Counted
      BY <1>0, <1>8 DEF WorkerDone, Workers, Counted
  <2>2. Cardinality(Workers') = Cardinality(Workers) - 1
      BY <1>0, <2>1, FS_RemoveElement
  <2> QED
      BY <1>0, <1>8, <2>1, <2>2 DEF WorkerDone
<1>9. ASSUME NEW e \in Events, processEvent(e) \/ ReleaseSemaphore(e) PROVE Goal
  <2>1. Workers' = Workers
      BY <1>0, <1>9 DEF processEvent, RunOperators, OperatorsFail, OperatorsFilter,
                        OperatorsForward, WriteSinks, ReleaseSemaphore, Workers
  <2>2. wg' = wg /\ Counted' = Counted
      BY <1>9 DEF processEvent, RunOperators, WriteSinks, ReleaseSemaphore, Counted
  <2> QED
      BY <1>0, <2>1, <2>2
<1>10. CASE Crash
  <2>1. Workers' = {} /\ Counted' = {} /\ wg' = 0
      BY <1>10 DEF Crash, Workers, Counted
  <2> QED
      BY <2>1, FS_EmptySet
<1>11. CASE ReaderSelect \/ ReadMessage \/ ReaderSend \/ ReaderCancelled \/ LoopTake
               \/ createCheckpoint \/ Stop \/ AutoCommit \/ UNCHANGED vars
  <2>1. UNCHANGED <<wg, alive, started, stage>>
      BY <1>11 DEF ReaderSelect, ReadMessage, ReaderSend, ReaderCancelled, LoopTake,
                   createCheckpoint, Stop, StopCancel, StopSources, StopWaited, StopFlushed,
                   AutoCommit, vars
  <2> QED
      BY <1>0, <2>1 DEF Workers, Counted
<1> QED
    BY <1>1, <1>3, <1>4, <1>5, <1>6, <1>7, <1>8, <1>9, <1>10, <1>11
    DEF Next, Source, Loop, Periodic, worker

-----------------------------------------------------------------------------
(* A new engine satisfies the inductive invariant. *)
LEMMA InitIInv == Init => IInv
<1> SUFFICES ASSUME Init PROVE IInv
    OBVIOUS
<1>1. Typed
  <2>1. started \in BOOLEAN /\ ctxDone \in BOOLEAN /\ lastCheckpointAt \in BOOLEAN
      BY DEF Init
  <2>2. eventChan \in Seq(Events) /\ Len(eventChan) <= BufferSize
      BY EngineAssumption DEF Init
  <2>3. metrics \in Counters
      BY DEF Init, Counters
  <2>4. reader \in ReaderStates /\ loop \in LoopStates
      BY PcChanges DEF Init
  <2> QED
      BY <2>1, <2>2, <2>3, <2>4, EngineAssumption DEF Init, Typed, Stages, Outcomes
<1>2. PipelineOrdered /\ Lifecycle
    BY DEF Init, PipelineOrdered, Lifecycle
<1>3. ConcurrencyBounded
  <2>1. {e \in Events : stage[e] \in Working} = {}
      BY DEF Init, Working
  <2>2. Cardinality({e \in Events : stage[e] \in Working}) = 0
      BY <2>1, FS_EmptySet
  <2> QED
      BY <2>2, EngineAssumption DEF Init, ConcurrencyBounded
<1>4. WaitGroupAccounts
  <2>1. Workers = {} /\ alive \cup (IF started THEN {"watermark"} ELSE {}) = {}
      BY DEF Init, Workers
  <2> QED
      BY <2>1, FS_EmptySet DEF Init, WaitGroupAccounts
<1> QED
    BY <1>1, <1>2, <1>3, <1>4 DEF IInv

(* The inductive invariant of the engine. *)
THEOREM Inductive == Spec => []IInv
<1>1. IInv /\ [Next]_vars => IInv'
    BY TypedStep, OrderedStep, LifecycleStep, SemaphoreStep, WaitGroupStep DEF IInv
<1> QED
    BY InitIInv, <1>1, PTL DEF Spec

(* The engine's state keeps its type: in particular neither the semaphore nor the
   WaitGroup counter, which panics below zero, is ever decremented too often. *)
THEOREM TypeCorrect == Spec => []TypeOK
<1>1. IInv => TypeOK
  <2> SUFFICES ASSUME IInv PROVE TypeOK
      OBVIOUS
  <2>1. wg \in Nat /\ semaphore \in Nat
      BY CountedFinite DEF IInv, WaitGroupAccounts, ConcurrencyBounded, Slots, Counted
  <2> QED
      BY <2>1 DEF IInv, Typed, TypeOK
<1> QED
    BY Inductive, <1>1, PTL

(* Never more than MaxConcurrency events are inside processEvent. *)
THEOREM Concurrency == Spec => []ConcurrencyBounded
<1>1. IInv => ConcurrencyBounded
    BY DEF IInv
<1> QED
    BY Inductive, <1>1, PTL

(* The WaitGroup accounts for every goroutine, and keeps one too many for ever. *)
THEOREM WaitGroup == Spec => []WaitGroupAccounts
<1>1. IInv => WaitGroupAccounts
    BY DEF IInv
<1> QED
    BY Inductive, <1>1, PTL

-----------------------------------------------------------------------------
(* Where the events are.                                                   *)

\* What the engine holds in memory, and what finished in a given way.
Memory == {e \in Events : InMemory(e)}
Finished(how) == {e \in Events : outcome[e] = how}

\* A hand holds an event while it has one to pass on; what was read is in memory or
\* finished, never both.
Placed ==
    /\ reader.pc = "sending" <=> reader.event # NoEvent
    /\ loop.pc = "acquire" <=> loop.event # NoEvent
    /\ resumed <= position
    /\ \A e \in Events : e \in (resumed + 1)..position <=> e \in Memory \/ outcome[e] # "none"
    /\ \A e \in Memory : outcome[e] = "none"

\* The reader is spawned once, by the goroutine around the source's Start.
ReaderSpawned == "source" \in alive \/ ~started => reader.pc = "off"

\* The counters of StreamMetrics count what finished.
Counts ==
    /\ metrics.processed = Cardinality(Finished("processed"))
    /\ metrics.filtered = Cardinality(Finished("filtered"))

\* The events are finitely many, and so are those that finished in a given way.
LEMMA FinishedFinite ==
    ASSUME NEW how
    PROVE  IsFiniteSet(Finished(how)) /\ Cardinality(Finished(how)) \in Nat
<1>1. IsFiniteSet(Events)
    BY FS_Interval, EngineAssumption DEF Events
<1>2. Finished(how) \in SUBSET Events
    BY DEF Finished
<1> QED BY <1>1, <1>2, FS_Subset, FS_CardinalityType

\* A step that moves an event from one place to the next, or none at all.
LEMMA MovedKeeps ==
    ASSUME Placed, Counts,
           reader'.pc = "sending" <=> reader'.event # NoEvent,
           loop'.pc = "acquire" <=> loop'.event # NoEvent,
           Memory' = Memory,
           metrics'.processed = metrics.processed, metrics'.filtered = metrics.filtered,
           UNCHANGED <<resumed, position, outcome>>
    PROVE  Placed' /\ Counts'
<1>1. Placed'
    BY DEF Placed
<1>2. \A how : Finished(how)' = Finished(how)
    BY DEF Finished
<1> QED BY <1>1, <1>2 DEF Counts

\* A step that finishes an event.
LEMMA FinishedKeeps ==
    ASSUME Typed, Placed, Counts, NEW e \in Memory, NEW how \in {"processed", "filtered", "failed", "dropped"},
           reader'.pc = "sending" <=> reader'.event # NoEvent,
           loop'.pc = "acquire" <=> loop'.event # NoEvent,
           Memory' = Memory \ {e}, Finish(e, how),
           metrics'.processed = metrics.processed + (IF how = "processed" THEN 1 ELSE 0),
           metrics'.filtered = metrics.filtered + (IF how = "filtered" THEN 1 ELSE 0),
           UNCHANGED <<resumed, position>>
    PROVE  Placed' /\ Counts'
<1>0. e \in Events /\ outcome[e] = "none"
    BY DEF Placed, Memory
<1>1. \A x \in Events : outcome'[x] = IF x = e THEN how ELSE outcome[x]
    BY DEF Finish, Typed
<1>2. Placed'
  <2>1. ASSUME NEW x \in Events
        PROVE  x \in (resumed + 1)..position <=> x \in Memory' \/ outcome'[x] # "none"
      BY <1>0, <1>1 DEF Placed
  <2>2. \A x \in Memory' : outcome'[x] = "none"
      BY <1>1 DEF Placed, Memory
  <2> QED BY <2>1, <2>2 DEF Placed
<1>3. \A k \in {"processed", "filtered"} :
         /\ k = how => Finished(k)' = Finished(k) \cup {e} /\ e \notin Finished(k)
         /\ k # how => Finished(k)' = Finished(k)
    BY <1>0, <1>1 DEF Finished
<1>4. ASSUME NEW k \in {"processed", "filtered"}
      PROVE  Cardinality(Finished(k)') = Cardinality(Finished(k)) + (IF how = k THEN 1 ELSE 0)
  <2>1. CASE k = how
      BY <1>3, <2>1, FinishedFinite, FS_AddElement, ZenonT(30)
  <2>2. CASE k # how
      BY <1>3, <2>2, FinishedFinite
  <2> QED BY <2>1, <2>2
<1>5. Counts'
    BY <1>4 DEF Counts
<1> QED BY <1>2, <1>5

\* The next message comes into the reader's hand.
LEMMA ReadKeeps ==
    ASSUME Typed, Placed, Counts, position < NumEvents, position' = position + 1,
           reader'.pc = "sending", reader'.event = position + 1,
           loop'.pc = "acquire" <=> loop'.event # NoEvent,
           Memory' = Memory \cup {position + 1},
           UNCHANGED <<resumed, outcome, metrics>>
    PROVE  Placed' /\ Counts'
<1>0. position \in Nat /\ resumed \in Nat /\ NumEvents \in Nat
    BY EngineAssumption DEF Typed
<1>1. position + 1 \in Events /\ position + 1 \notin (resumed + 1)..position
    BY <1>0 DEF Events
<1>2. position + 1 \notin Memory /\ outcome[position + 1] = "none"
    BY <1>1 DEF Placed
<1>3. \A e \in Events : e \in (resumed + 1)..(position + 1) <=> e \in (resumed + 1)..position \/ e = position + 1
    BY <1>0 DEF Events, Placed
<1>4. position + 1 # NoEvent /\ resumed <= position + 1
    BY <1>0 DEF NoEvent, Placed
<1>5. Placed'
    BY <1>2, <1>3, <1>4 DEF Placed
<1>6. \A how : Finished(how)' = Finished(how)
    BY DEF Finished
<1> QED BY <1>5, <1>6 DEF Counts

\* Only Start and the source's goroutine change who may spawn the reader.
LEMMA SpawnedStep == IInv /\ ReaderSpawned /\ [Next]_vars => ReaderSpawned'
<1> SUFFICES ASSUME IInv, ReaderSpawned, [Next]_vars PROVE ReaderSpawned'
    OBVIOUS
<1>0. reader \in ReaderStates
    BY DEF IInv, Typed
<1> USE DEF ReaderSpawned, control, waits, intake, work, stats, kafka, results
<1>1. CASE Start \/ Crash
    BY <1>1 DEF Start, Crash
<1>2. CASE SourceStart
    BY <1>2 DEF SourceStart, IInv, Lifecycle
<1>3. CASE ReaderSelect \/ ReadMessage \/ ReaderSend \/ ReaderCancelled
    BY <1>3 DEF ReaderSelect, ReadMessage, ReaderSend, ReaderCancelled
<1>4. CASE Loop \/ Periodic \/ Stop \/ AutoCommit \/ UNCHANGED vars
    BY <1>4 DEF Loop, LoopTake, LoopDispatch, LoopExit, Periodic, WatermarkExit, createCheckpoint,
                PeriodicExit, Stop, StopCancel, StopSources, StopWaited, StopFlushed, AutoCommit, vars
<1>5. ASSUME NEW e \in Events, worker(e) PROVE ReaderSpawned'
    BY <1>5 DEF worker, processEvent, RunOperators, WriteSinks, ReleaseSemaphore, WorkerDone
<1> QED BY <1>1, <1>2, <1>3, <1>4, <1>5 DEF Next, Source

\* Every step moves an event on, finishes it, or leaves it where it is.
LEMMA PlacedStep == IInv /\ ReaderSpawned /\ Placed /\ Counts /\ [Next]_vars => Placed' /\ Counts'
<1> SUFFICES ASSUME IInv, ReaderSpawned, Placed, Counts, [Next]_vars PROVE Placed' /\ Counts'
    OBVIOUS
<1> DEFINE Hands == /\ reader'.pc = "sending" <=> reader'.event # NoEvent
                    /\ loop'.pc = "acquire" <=> loop'.event # NoEvent
<1>0. /\ reader \in ReaderStates /\ loop \in LoopStates /\ eventChan \in Seq(Events)
      /\ stage \in [Events -> Stages] /\ metrics \in Counters /\ position \in 0..NumEvents
      /\ Typed /\ NoEvent \notin Events
    BY DEF IInv, Typed, NoEvent, Events
<1>00. /\ reader.pc = "sending" <=> reader.event # NoEvent
       /\ loop.pc = "acquire" <=> loop.event # NoEvent
    BY DEF Placed
<1> USE DEF control, waits, intake, work, stats, kafka, results
<1>1. CASE Start
  <2>1. /\ loop'.event = loop.event /\ loop'.pc = "select" /\ loop.pc = "off"
        /\ UNCHANGED <<reader, eventChan, stage, metrics, outcome, resumed, position>>
      BY <1>0, <1>1 DEF Start, LoopStates, IInv, Lifecycle
  <2>2. Memory' = Memory
      BY <2>1 DEF Memory, InMemory, InReader, InChannel, InLoop, InWorker
  <2> QED BY <1>00, <2>1, <2>2, MovedKeeps
<1>2. CASE SourceStart \/ ReaderSelect
  <2>1. /\ reader'.event = reader.event /\ reader'.pc # "sending" /\ reader.pc # "sending"
        /\ UNCHANGED <<loop, eventChan, stage, metrics, outcome, resumed, position>>
      BY <1>0, <1>2 DEF SourceStart, ReaderSelect, ReaderStates, ReaderSpawned
  <2>2. Memory' = Memory
      BY <2>1 DEF Memory, InMemory, InReader, InChannel, InLoop, InWorker
  <2> QED BY <1>00, <2>1, <2>2, MovedKeeps
<1>3. CASE ReadMessage
  <2>1. /\ reader.pc = "reading" /\ reader.event = NoEvent
        /\ UNCHANGED <<loop, eventChan, stage, metrics, outcome, resumed>>
      BY <1>00, <1>3 DEF ReadMessage
  <2>2. CASE position < NumEvents /\ position' = position + 1 /\ reader' = [pc |-> "sending", event |-> position + 1]
    <3>1. reader'.pc = "sending" /\ reader'.event = position + 1
        BY <2>2
    <3>2. position + 1 \in Events
        BY <1>0, <2>2, EngineAssumption DEF Events
    <3>3. Memory' = Memory \cup {position + 1}
        BY <1>0, <2>1, <3>1, <3>2 DEF Memory, InMemory, InReader, InChannel, InLoop, InWorker
    <3> QED BY <1>0, <1>00, <2>1, <2>2, <3>1, <3>3, ReadKeeps
  <2>3. CASE reader' = [reader EXCEPT !.pc = "select"] /\ position' = position
    <3>1. reader'.event = reader.event /\ reader'.pc = "select"
        BY <1>0, <2>3 DEF ReaderStates
    <3>2. Memory' = Memory
        BY <2>1, <3>1 DEF Memory, InMemory, InReader, InChannel, InLoop, InWorker
    <3> QED BY <1>00, <2>1, <2>3, <3>1, <3>2, MovedKeeps
  <2> QED BY <1>3, <2>2, <2>3 DEF ReadMessage
<1>4. CASE ReaderSend
  <2>1. /\ Len(eventChan) \in Nat /\ Len(eventChan') = Len(eventChan) + 1
        /\ \A i \in 1..Len(eventChan) : eventChan'[i] = eventChan[i]
        /\ eventChan'[Len(eventChan) + 1] = reader.event
      BY <1>0, <1>4 DEF ReaderSend
  <2>2. /\ reader'.pc = "select" /\ reader'.event = NoEvent /\ reader.event \in Events
        /\ UNCHANGED <<loop, stage, metrics, outcome, resumed, position>>
      BY <1>4 DEF ReaderSend, IInv, PipelineOrdered
  <2>3. \A e : InChannel(e)' <=> InChannel(e) \/ e = reader.event
      BY <2>1 DEF InChannel
  <2>4. Memory' = Memory
      BY <1>0, <2>2, <2>3 DEF Memory, InMemory, InReader, InLoop, InWorker
  <2> QED BY <1>00, <2>2, <2>4, MovedKeeps
<1>5. CASE ReaderCancelled
  <2>1. /\ reader'.pc = "stopped" /\ reader'.event = NoEvent /\ reader.event \in Events /\ reader.pc = "sending"
        /\ Finish(reader.event, "dropped")
        /\ UNCHANGED <<loop, eventChan, stage, metrics, resumed, position>>
      BY <1>5 DEF ReaderCancelled, IInv, PipelineOrdered
  <2>2. reader.event \in Memory
      BY <2>1 DEF Memory, InMemory, InReader
  <2>3. /\ \A i \in 1..Len(eventChan) : eventChan[i] # reader.event
        /\ loop.event # reader.event /\ stage[reader.event] = "none"
    <3>1. \A i \in 1..Len(eventChan) : eventChan[i] # reader.event
        BY <1>0, <2>1 DEF IInv, PipelineOrdered, Events
    <3>2. loop.event # reader.event
        BY <1>0, <1>00, <2>1, EngineAssumption DEF IInv, PipelineOrdered, Events, NoEvent
    <3>3. stage[reader.event] = "none"
        BY <1>0, <2>1 DEF IInv, PipelineOrdered, Events
    <3> QED BY <3>1, <3>2, <3>3
  <2>4. Memory' = Memory \ {reader.event}
      BY <1>0, <2>1, <2>3 DEF Memory, InMemory, InReader, InChannel, InLoop, InWorker
  <2>5. metrics.processed \in Nat /\ metrics.filtered \in Nat
      BY <1>0 DEF Counters
  <2> QED BY <1>0, <1>00, <2>1, <2>2, <2>4, <2>5, FinishedKeeps
<1>6. CASE LoopTake
  <2>1. /\ Len(eventChan) \in Nat \ {0}
        /\ Len(eventChan') = Len(eventChan) - 1
        /\ \A i \in 1..(Len(eventChan) - 1) : eventChan'[i] = eventChan[i + 1]
        /\ Head(eventChan) = eventChan[1] /\ eventChan[1] \in Events
      BY <1>0, <1>6 DEF LoopTake
  <2>2. /\ loop'.pc = "acquire" /\ loop'.event = eventChan[1] /\ loop.pc = "select" /\ loop.event = NoEvent
        /\ UNCHANGED <<reader, stage, outcome, resumed, position>>
      BY <1>00, <1>6, <2>1 DEF LoopTake
  <2>3. metrics'.processed = metrics.processed /\ metrics'.filtered = metrics.filtered
      BY <1>0, <1>6 DEF LoopTake, Counters
  <2>4. ASSUME NEW e PROVE InChannel(e) <=> InChannel(e)' \/ e = eventChan[1]
    <3>1. ASSUME NEW i \in 1..Len(eventChan), eventChan[i] = e, i # 1
          PROVE  i - 1 \in 1..(Len(eventChan) - 1) /\ eventChan'[i - 1] = e
      <4>1. i - 1 \in 1..(Len(eventChan) - 1) /\ (i - 1) + 1 = i
          BY <2>1, <3>1
      <4> QED BY <2>1, <3>1, <4>1
    <3>2. ASSUME NEW i \in 1..(Len(eventChan) - 1), eventChan'[i] = e
          PROVE  i + 1 \in 1..Len(eventChan) /\ eventChan[i + 1] = e
        BY <2>1, <3>2
    <3>3. 1 \in 1..Len(eventChan)
        BY <2>1
    <3> QED BY <2>1, <3>1, <3>2, <3>3 DEF InChannel
  <2>5. Memory' = Memory
      BY <1>0, <2>1, <2>2, <2>4 DEF Memory, InMemory, InReader, InLoop, InWorker
  <2> QED BY <1>0, <1>00, <2>1, <2>2, <2>3, <2>5, MovedKeeps
<1>7. CASE LoopDispatch
  <2>1. /\ loop.pc = "acquire" /\ loop.event \in Events
        /\ stage' = [stage EXCEPT ![loop.event] = "operators"]
        /\ loop'.pc = "select" /\ loop'.event = NoEvent
        /\ UNCHANGED <<reader, eventChan, metrics, outcome, resumed, position>>
      BY <1>7 DEF LoopDispatch, IInv, PipelineOrdered
  <2>2. \A e \in Events : InWorker(e)' <=> InWorker(e) \/ e = loop.event
      BY <1>0, <2>1 DEF InWorker
  <2>3. Memory' = Memory
      BY <1>0, <2>1, <2>2 DEF Memory, InMemory, InReader, InChannel, InLoop
  <2> QED BY <1>00, <2>1, <2>3, MovedKeeps
<1>8. CASE LoopExit
  <2>1. /\ loop'.event = loop.event /\ loop'.pc # "acquire" /\ loop.pc # "acquire"
        /\ UNCHANGED <<reader, eventChan, stage, metrics, outcome, resumed, position>>
      BY <1>0, <1>8 DEF LoopExit, LoopStates
  <2>2. Memory' = Memory
      BY <2>1 DEF Memory, InMemory, InReader, InChannel, InLoop, InWorker
  <2> QED BY <1>00, <2>1, <2>2, MovedKeeps
<1>9. ASSUME NEW e \in Events, NEW how \in {"processed", "filtered", "failed"},
             stage[e] \in {"operators", "sinks"}, stage' = [stage EXCEPT ![e] = "release"], Finish(e, how),
             metrics'.processed = metrics.processed + (IF how = "processed" THEN 1 ELSE 0),
             metrics'.filtered = metrics.filtered + (IF how = "filtered" THEN 1 ELSE 0),
             UNCHANGED <<reader, eventChan, loop, resumed, position>>
      PROVE  Placed' /\ Counts'
  <2>1. e \in Memory
      BY <1>9 DEF Memory, InMemory, InWorker
  <2>2. /\ \A i \in 1..Len(eventChan) : eventChan[i] # e
        /\ loop.event # e /\ reader.event # e
    <3>1. \A i \in 1..Len(eventChan) : eventChan[i] # e
        BY <1>0, <1>9 DEF IInv, PipelineOrdered, Events
    <3>2. loop.event # e /\ reader.event # e
        BY <1>0, <1>00, <1>9, EngineAssumption DEF IInv, PipelineOrdered, Events, NoEvent
    <3> QED BY <3>1, <3>2
  <2>3. Memory' = Memory \ {e}
      BY <1>0, <1>9, <2>2 DEF Memory, InMemory, InReader, InChannel, InLoop, InWorker
  <2> QED BY <1>0, <1>00, <1>9, <2>1, <2>3, FinishedKeeps
<1>10. ASSUME NEW e \in Events, RunOperators(e) PROVE Placed' /\ Counts'
  <2>0. stage[e] = "operators" /\ UNCHANGED <<reader, eventChan, loop, resumed, position>>
      BY <1>10 DEF RunOperators
  <2>1. metrics.processed \in Nat /\ metrics.filtered \in Nat
      BY <1>0 DEF Counters
  <2>2. CASE OperatorsFail(e)
    <3>1. /\ metrics'.processed = metrics.processed + (IF "failed" = "processed" THEN 1 ELSE 0)
          /\ metrics'.filtered = metrics.filtered + (IF "failed" = "filtered" THEN 1 ELSE 0)
        BY <2>1, <2>2 DEF OperatorsFail
    <3>2. stage' = [stage EXCEPT ![e] = "release"] /\ Finish(e, "failed")
        BY <2>2 DEF OperatorsFail
    <3> QED BY <1>9, <2>0, <3>1, <3>2
  <2>3. CASE OperatorsFilter(e)
    <3>0. metrics'.processed = metrics.processed /\ metrics'.filtered = metrics.filtered + 1
        BY <1>0, <2>3 DEF OperatorsFilter, Counters
    <3>1. /\ metrics'.processed = metrics.processed + (IF "filtered" = "processed" THEN 1 ELSE 0)
          /\ metrics'.filtered = metrics.filtered + (IF "filtered" = "filtered" THEN 1 ELSE 0)
        BY <2>1, <3>0
    <3>2. stage' = [stage EXCEPT ![e] = "release"] /\ Finish(e, "filtered")
        BY <2>3 DEF OperatorsFilter
    <3> QED BY <1>9, <2>0, <3>1, <3>2
  <2>4. CASE OperatorsForward(e)
    <3>1. stage' = [stage EXCEPT ![e] = "sinks"] /\ UNCHANGED <<metrics, outcome>>
        BY <2>4 DEF OperatorsForward
    <3>2. Memory' = Memory
        BY <1>0, <2>0, <3>1 DEF Memory, InMemory, InReader, InChannel, InLoop, InWorker
    <3> QED BY <1>00, <2>0, <3>1, <3>2, MovedKeeps
  <2> QED BY <1>10, <2>2, <2>3, <2>4 DEF RunOperators
<1>11. ASSUME NEW e \in Events, WriteSinks(e) PROVE Placed' /\ Counts'
  <2>1. metrics'.processed = metrics.processed + 1 /\ metrics'.filtered = metrics.filtered
        /\ metrics.filtered \in Nat
      BY <1>0, <1>11 DEF WriteSinks, Counters
  <2>2. /\ metrics'.processed = metrics.processed + (IF "processed" = "processed" THEN 1 ELSE 0)
        /\ metrics'.filtered = metrics.filtered + (IF "processed" = "filtered" THEN 1 ELSE 0)
      BY <2>1
  <2>3. /\ stage[e] = "sinks" /\ stage' = [stage EXCEPT ![e] = "release"] /\ Finish(e, "processed")
        /\ UNCHANGED <<reader, eventChan, loop, resumed, position>>
      BY <1>11 DEF WriteSinks
  <2> QED BY <1>9, <2>2, <2>3
<1>12. ASSUME NEW e \in Events, ReleaseSemaphore(e) \/ WorkerDone(e) PROVE Placed' /\ Counts'
  <2>1. /\ UNCHANGED <<reader, eventChan, loop, metrics, outcome, resumed, position>>
        /\ \A x \in Events : InWorker(x)' <=> InWorker(x)
      BY <1>0, <1>12 DEF ReleaseSemaphore, WorkerDone, InWorker
  <2>2. Memory' = Memory
      BY <2>1 DEF Memory, InMemory, InReader, InChannel, InLoop
  <2> QED BY <1>00, <2>1, <2>2, MovedKeeps
<1>13. CASE Crash
  <2>1. /\ reader'.pc = "off" /\ reader'.event = NoEvent /\ loop'.pc = "off" /\ loop'.event = NoEvent
        /\ resumed' = position' /\ Len(eventChan') = 0 /\ committed \in Nat /\ position' = committed
        /\ \A e \in Events : stage'[e] = "none" /\ outcome'[e] = "none"
        /\ metrics'.processed = 0 /\ metrics'.filtered = 0
      BY <1>13, EngineAssumption DEF Crash, IInv, Typed
  <2>2. Memory' = {}
      BY <1>0, <2>1 DEF Memory, InMemory, InReader, InChannel, InLoop, InWorker
  <2>3. Placed'
      BY <2>1, <2>2 DEF Placed
  <2>4. Finished("processed")' = {} /\ Finished("filtered")' = {}
      BY <2>1 DEF Finished
  <2> QED BY <2>1, <2>3, <2>4, FS_EmptySet DEF Counts
<1>14. CASE Periodic \/ Stop \/ AutoCommit \/ UNCHANGED vars
  <2>1. UNCHANGED <<reader, eventChan, loop, stage, metrics, outcome, resumed, position>>
      BY <1>14 DEF Periodic, WatermarkExit, createCheckpoint, PeriodicExit, Stop, StopCancel,
                   StopSources, StopWaited, StopFlushed, AutoCommit, vars
  <2>2. Memory' = Memory
      BY <2>1 DEF Memory, InMemory, InReader, InChannel, InLoop, InWorker
  <2> QED BY <1>00, <2>1, <2>2, MovedKeeps
<1> QED
    BY <1>1, <1>2, <1>3, <1>4, <1>5, <1>6, <1>7, <1>8, <1>10, <1>11, <1>12, <1>13, <1>14
    DEF Next, Source, Loop, worker, processEvent

\* A new engine has read nothing.
LEMMA PlacedInitially == Init => ReaderSpawned /\ Placed /\ Counts
<1> SUFFICES ASSUME Init PROVE ReaderSpawned /\ Placed /\ Counts
    OBVIOUS
<1>0. ReaderSpawned
    BY DEF Init, ReaderSpawned
<1>1. Memory = {} /\ Finished("processed") = {} /\ Finished("filtered") = {}
    BY DEF Init, Memory, InMemory, InReader, InChannel, InLoop, InWorker, Finished, NoEvent, Events
<1>2. Placed
    BY <1>1 DEF Init, Placed
<1>3. Counts
    BY <1>1, FS_EmptySet DEF Init, Counts
<1> QED BY <1>0, <1>2, <1>3

\* What this incarnation has read is in one place or finished, and is counted.
THEOREM NoEventVanishes == Spec => []NothingVanishes
<1>1. Spec => [](ReaderSpawned /\ Placed /\ Counts)
    BY Inductive, PlacedInitially, SpawnedStep, PlacedStep, PTL DEF Spec
<1>2. IInv /\ Placed /\ Counts => NothingVanishes
  <2> SUFFICES ASSUME IInv, Placed, Counts PROVE NothingVanishes
      OBVIOUS
  <2>1. ASSUME NEW e \in Events
        PROVE  /\ e \in (resumed + 1)..position <=> InMemory(e) \/ outcome[e] # "none"
               /\ InMemory(e) => outcome[e] = "none"
      BY DEF Placed, Memory
  <2>2. NoEvent \notin Events /\ \A e, f \in Events : e < f => e # f
      BY DEF Events, NoEvent
  <2>3. \A i \in 1..Len(eventChan) : eventChan[i] \in Events
      BY DEF IInv, Typed
  <2>4. ASSUME NEW e \in Events
        PROVE  /\ InReader(e) => ~InChannel(e) /\ ~InLoop(e) /\ ~InWorker(e)
               /\ InChannel(e) => ~InLoop(e) /\ ~InWorker(e)
               /\ InLoop(e) => ~InWorker(e)
    <3>1. InReader(e) => reader.pc = "sending"
        BY <2>2 DEF InReader, Placed
    <3>2. InLoop(e) => loop.pc = "acquire"
        BY <2>2 DEF InLoop, Placed
    <3> QED BY <2>2, <2>3, <3>1, <3>2 DEF IInv, PipelineOrdered, InReader, InChannel, InLoop, InWorker
  <2>5. \A i, j \in 1..Len(eventChan) : i < j => eventChan[i] < eventChan[j]
      BY DEF IInv, PipelineOrdered
  <2> QED BY <2>1, <2>4, <2>5 DEF NothingVanishes, Counts, Finished
<1> QED BY <1>1, <1>2, Inductive, PTL

-----------------------------------------------------------------------------
(***************************************************************************)
(* The engine as a delivery log.                                           *)
(***************************************************************************)

\* An event that finished otherwise than by being dropped was written or given up.
OutcomesTold ==
    \A e \in Events :
        /\ outcome[e] = "processed" => delivered[e] > 0 \/ e \in givenUp
        /\ outcome[e] \in {"filtered", "failed"} => e \in givenUp

\* This incarnation adds one delivery at most, to an event it has processed.
OnePerStart ==
    \A e \in Events : delivered[e] <= crashes + (IF outcome[e] = "processed" THEN 1 ELSE 0)

\* The event in the reader's hand is the last one read; the reader that drops it reads no more.
LastInHand ==
    /\ reader.pc = "sending" => reader.event = position
    /\ \A e \in Events : outcome[e] = "dropped" => e = position /\ ctxDone /\ reader.pc = "stopped"

\* Without auto-commit nothing is ever acknowledged.
FromTheStart == ~EnableAutoCommit => committed = 0 /\ resumed = 0

\* What the delivery log adds to the invariant.
DeliveryInv == OutcomesTold /\ OnePerStart /\ LastInHand /\ FromTheStart

\* The numbers and functions the arguments below calculate with.
LEMMA LogTyped ==
    ASSUME IInv
    PROVE  /\ position \in Nat /\ resumed \in Nat /\ committed \in Nat /\ crashes \in Nat
           /\ NumEvents \in Nat /\ outcome \in [Events -> Outcomes] /\ delivered \in [Events -> Nat]
           /\ reader \in ReaderStates /\ givenUp \subseteq Events
BY EngineAssumption DEF IInv, Typed

\* What is in memory is what was read and has no outcome yet.
LEMMA MemoryIs ==
    ASSUME Placed
    PROVE  Memory = {e \in Events : e \in (resumed + 1)..position /\ outcome[e] = "none"}
BY DEF Placed, Memory

\* What the steps do to what source and sink can see, one disjunct for each action of the log.
Unseen == UNCHANGED <<position, resumed, committed, outcome, delivered, givenUp, ctxDone, crashes>>
Reads ==
    /\ position < NumEvents /\ position' = position + 1
    /\ reader.pc = "reading" /\ reader'.pc = "sending" /\ reader'.event = position + 1
    /\ UNCHANGED <<resumed, committed, outcome, delivered, givenUp, ctxDone, crashes>>
Drops ==
    /\ reader.pc = "sending" /\ ctxDone /\ Finish(reader.event, "dropped") /\ reader'.pc = "stopped"
    /\ UNCHANGED <<position, resumed, committed, delivered, givenUp, ctxDone, crashes>>
Writes(e) ==
    /\ stage[e] = "sinks" /\ Finish(e, "processed")
    /\ delivered' = [delivered EXCEPT ![e] = @ + 1]
    /\ UNCHANGED <<position, resumed, committed, givenUp, ctxDone, crashes>>
GivesUp(e) ==
    /\ stage[e] \in {"operators", "sinks"}
    /\ \E how \in {"processed", "filtered", "failed"} : Finish(e, how)
    /\ givenUp' = givenUp \cup {e}
    /\ UNCHANGED <<position, resumed, committed, delivered, ctxDone, crashes>>
Cancels ==
    /\ ctxDone'
    /\ UNCHANGED <<position, resumed, committed, outcome, delivered, givenUp, crashes>>
Commits ==
    /\ EnableAutoCommit /\ committed' = position
    /\ UNCHANGED <<position, resumed, outcome, delivered, givenUp, ctxDone, crashes>>
Resumes ==
    /\ position' = committed /\ resumed' = committed /\ ~ctxDone' /\ crashes' = crashes + 1
    /\ outcome' = [e \in Events |-> "none"] /\ reader'.pc = "off"
    /\ UNCHANGED <<committed, delivered, givenUp>>

\* The reader does nothing, or what it does does not change its hand.
HandStays ==
    /\ reader'.pc = "sending" => reader.pc = "sending" /\ reader'.event = reader.event
    /\ reader.pc = "stopped" => reader'.pc = "stopped"

\* Every step is one of these.
LEMMA StepKinds ==
    ASSUME IInv, ReaderSpawned, [Next]_vars
    PROVE  \/ Unseen /\ HandStays
           \/ Reads \/ Drops
           \/ \E e \in Events : (Writes(e) \/ GivesUp(e)) /\ UNCHANGED reader
           \/ (Cancels \/ Commits) /\ UNCHANGED reader
           \/ Resumes
<1>0. reader \in ReaderStates
    BY LogTyped
<1> USE DEF control, waits, intake, work, stats, kafka, results, HandStays
<1>1. CASE Start \/ Periodic \/ Loop \/ UNCHANGED vars
    BY <1>1
    DEF Start, Periodic, WatermarkExit, createCheckpoint, PeriodicExit, Loop, LoopTake, LoopDispatch,
        LoopExit, vars, Unseen
<1>2. CASE SourceStart
  <2>1. reader.pc = "off" /\ reader'.pc = "select"
      BY <1>0, <1>2 DEF SourceStart, ReaderSpawned, ReaderStates
  <2> QED BY <1>2, <2>1 DEF SourceStart, Unseen
<1>3. CASE ReaderSelect \/ ReaderSend
    BY <1>0, <1>3 DEF ReaderSelect, ReaderSend, Unseen, ReaderStates
<1>4. CASE ReadMessage
    BY <1>0, <1>4 DEF ReadMessage, Unseen, Reads, ReaderStates
<1>5. CASE ReaderCancelled
    BY <1>5 DEF ReaderCancelled, Drops
<1>6. ASSUME NEW e \in Events, worker(e)
      PROVE  (Unseen \/ Writes(e) \/ GivesUp(e)) /\ UNCHANGED reader
  <2>1. CASE RunOperators(e)
      BY <2>1 DEF RunOperators, OperatorsFail, OperatorsFilter, OperatorsForward, Unseen, GivesUp
  <2>2. CASE WriteSinks(e)
      BY <2>2 DEF WriteSinks, Writes, GivesUp
  <2>3. CASE ReleaseSemaphore(e) \/ WorkerDone(e)
      BY <2>3 DEF ReleaseSemaphore, WorkerDone, Unseen
  <2> QED BY <1>6, <2>1, <2>2, <2>3 DEF worker, processEvent
<1>7. CASE StopCancel
    BY <1>7 DEF StopCancel, Cancels
<1>8. CASE StopSources \/ AutoCommit
    BY <1>8 DEF StopSources, AutoCommit, Commits, Unseen
<1>9. CASE StopWaited \/ StopFlushed
    BY <1>9 DEF StopWaited, StopFlushed, Unseen
<1>10. CASE Crash
    BY <1>10 DEF Crash, Resumes
<1> QED
    BY <1>1, <1>2, <1>3, <1>4, <1>5, <1>6, <1>7, <1>8, <1>9, <1>10 DEF Next, Source, Stop

\* The event a worker or the reader holds is in memory and has no outcome.
LEMMA HeldOpen ==
    ASSUME IInv, Placed
    PROVE  /\ \A e \in Events : stage[e] \in {"operators", "sinks"} => e \in Memory /\ outcome[e] = "none"
           /\ reader.pc = "sending" => reader.event \in Memory /\ outcome[reader.event] = "none"
<1>1. \A e \in Events : stage[e] \in {"operators", "sinks"} => e \in Memory
    BY DEF Memory, InMemory, InWorker
<1>2. reader.pc = "sending" => reader.event \in Memory
    BY LogTyped DEF Memory, InMemory, InReader, Placed, ReaderStates
<1> QED BY <1>1, <1>2 DEF Placed

\* The delivery log's part of the invariant is kept.
LEMMA DeliveryStep ==
    ASSUME IInv, ReaderSpawned, Placed, DeliveryInv, [Next]_vars
    PROVE  DeliveryInv'
<1>0. /\ position \in Nat /\ resumed \in Nat /\ committed \in Nat /\ crashes \in Nat
      /\ outcome \in [Events -> Outcomes] /\ delivered \in [Events -> Nat]
    BY LogTyped
<1> USE DEF DeliveryInv
<1>1. CASE Unseen /\ HandStays
    BY <1>1 DEF Unseen, HandStays, OutcomesTold, OnePerStart, LastInHand, FromTheStart
<1>2. CASE Reads
    BY <1>2 DEF Reads, OutcomesTold, OnePerStart, LastInHand, FromTheStart
<1>3. CASE Drops
  <2>1. reader.event \in Events /\ reader.event = position /\ outcome[position] = "none"
      BY <1>3, HeldOpen DEF Drops, LastInHand, Memory
  <2>2. \A x \in Events : outcome'[x] = IF x = position THEN "dropped" ELSE outcome[x]
      BY <1>0, <1>3, <2>1 DEF Drops, Finish
  <2> QED
      BY <1>3, <2>1, <2>2 DEF Drops, OutcomesTold, OnePerStart, LastInHand, FromTheStart
<1>4. ASSUME NEW e \in Events, Writes(e), UNCHANGED reader PROVE DeliveryInv'
  <2>1. outcome[e] = "none"
      BY <1>4, HeldOpen DEF Writes
  <2>2. \A x \in Events : /\ outcome'[x] = IF x = e THEN "processed" ELSE outcome[x]
                          /\ delivered'[x] = IF x = e THEN delivered[x] + 1 ELSE delivered[x]
      BY <1>0, <1>4 DEF Writes, Finish
  <2>3. delivered[e] \in Nat /\ delivered[e] <= crashes
      BY <1>0, <2>1 DEF OnePerStart
  <2>4. OnePerStart' /\ OutcomesTold'
      BY <1>0, <1>4, <2>2, <2>3 DEF Writes, OnePerStart, OutcomesTold
  <2>5. LastInHand' /\ FromTheStart'
      BY <1>4, <2>2 DEF Writes, LastInHand, FromTheStart
  <2> QED BY <2>4, <2>5
<1>5. ASSUME NEW e \in Events, GivesUp(e), UNCHANGED reader PROVE DeliveryInv'
  <2>1. outcome[e] = "none"
      BY <1>5, HeldOpen DEF GivesUp
  <2>2. PICK how \in {"processed", "filtered", "failed"} :
            \A x \in Events : outcome'[x] = IF x = e THEN how ELSE outcome[x]
      BY <1>0, <1>5 DEF GivesUp, Finish
  <2>3. delivered[e] \in Nat /\ delivered[e] <= crashes
      BY <1>0, <2>1 DEF OnePerStart
  <2>4. OnePerStart'
      BY <1>0, <1>5, <2>2, <2>3 DEF GivesUp, OnePerStart
  <2>5. OutcomesTold' /\ LastInHand' /\ FromTheStart'
      BY <1>5, <2>2 DEF GivesUp, OutcomesTold, LastInHand, FromTheStart
  <2> QED BY <2>4, <2>5
<1>6. CASE (Cancels \/ Commits) /\ UNCHANGED reader
    BY <1>6 DEF Cancels, Commits, OutcomesTold, OnePerStart, LastInHand, FromTheStart
<1>7. CASE Resumes
  <2>1. \A e \in Events : delivered[e] \in Nat /\ delivered[e] <= crashes + 1
      BY <1>0 DEF OnePerStart
  <2>2. \A e \in Events : outcome'[e] = "none"
      BY <1>7 DEF Resumes
  <2> QED
      BY <1>0, <1>7, <2>1, <2>2 DEF Resumes, OutcomesTold, OnePerStart, LastInHand, FromTheStart
<1> QED BY <1>1, <1>2, <1>3, <1>4, <1>5, <1>6, <1>7, StepKinds

\* The log's invariant, always.
LEMMA KnownAlways == Spec => [](IInv /\ ReaderSpawned /\ Placed /\ DeliveryInv)
<1>1. Spec => [](IInv /\ ReaderSpawned /\ Placed)
  <2>1. Spec => [](ReaderSpawned /\ Placed /\ Counts)
      BY Inductive, PlacedInitially, SpawnedStep, PlacedStep, PTL DEF Spec
  <2> QED BY <2>1, Inductive, PTL
<1>2. Init => DeliveryInv
    BY DEF Init, DeliveryInv, OutcomesTold, OnePerStart, LastInHand, FromTheStart
<1>3. IInv /\ ReaderSpawned /\ Placed /\ DeliveryInv /\ [Next]_vars => DeliveryInv'
    BY DeliveryStep
<1> QED BY <1>1, <1>2, <1>3, PTL DEF Spec

\* A step of the engine is a step of the log.
LEMMA LogStep ==
    ASSUME IInv, ReaderSpawned, Placed, Placed', DeliveryInv, [Next]_vars
    PROVE  [Delivery!DeliveryNext]_(Delivery!deliveryVars)
<1>0. /\ position \in Nat /\ resumed \in Nat /\ committed \in Nat /\ NumEvents \in Nat
      /\ outcome \in [Events -> Outcomes] /\ Events = 1..NumEvents
      /\ resumed <= position
    BY LogTyped DEF Events, Placed
<1>m. /\ Memory = {e \in Events : e \in (resumed + 1)..position /\ outcome[e] = "none"}
      /\ Memory' = {e \in Events : e \in (resumed' + 1)..position' /\ outcome'[e] = "none"}
      /\ Memory = {e \in Events : InMemory(e)} /\ Memory' = {e \in Events : InMemory(e)}'
  <2>1. (Placed => Memory = {e \in Events : e \in (resumed + 1)..position /\ outcome[e] = "none"})'
      BY MemoryIs, PTL
  <2> QED BY <2>1, MemoryIs DEF Memory, Events
<1>1. CASE Unseen
    BY <1>1, <1>m DEF Unseen, Delivery!deliveryVars
<1>2. CASE Reads
  <2>1. position + 1 \in Events /\ position + 1 \notin (resumed + 1)..position /\ outcome[position + 1] = "none"
      BY <1>0, <1>2 DEF Reads, Placed
  <2>2. Memory' = Memory \cup {position + 1}
      BY <1>0, <1>2, <1>m, <2>1 DEF Reads
  <2>3. Delivery!Read
      BY <1>2, <1>m, <2>2 DEF Reads, Delivery!Read
  <2> QED BY <2>3 DEF Delivery!DeliveryNext
<1>3. CASE Drops
  <2>1. reader.event \in Events /\ reader.event = position /\ position \in Memory
      BY <1>3, HeldOpen DEF Drops, DeliveryInv, LastInHand, Memory
  <2>2. \A x \in Events : outcome'[x] = IF x = position THEN "dropped" ELSE outcome[x]
      BY <1>0, <1>3, <2>1 DEF Drops, Finish
  <2>3. Memory' = Memory \ {position}
      BY <1>3, <1>m, <2>1, <2>2 DEF Drops
  <2>4. Delivery!Drop
      BY <1>3, <1>m, <2>1, <2>3 DEF Drops, Delivery!Drop
  <2> QED BY <2>4 DEF Delivery!DeliveryNext
<1>4. ASSUME NEW e \in Events, Writes(e) \/ GivesUp(e)
      PROVE  Delivery!Write(e) \/ Delivery!GiveUp(e)
  <2>1. e \in Memory
      BY <1>4, HeldOpen DEF Writes, GivesUp
  <2>2. \A x \in Events : outcome'[x] = "none" <=> x # e /\ outcome[x] = "none"
      BY <1>0, <1>4 DEF Writes, GivesUp, Finish
  <2>3. UNCHANGED <<position, resumed>>
      BY <1>4 DEF Writes, GivesUp
  <2>4. Memory' = Memory \ {e}
      BY <1>m, <2>2, <2>3
  <2>5. CASE Writes(e)
      BY <1>m, <2>1, <2>4, <2>5 DEF Writes, Delivery!Write
  <2>6. CASE GivesUp(e)
      BY <1>m, <2>1, <2>4, <2>6 DEF GivesUp, Delivery!GiveUp
  <2> QED BY <1>4, <2>5, <2>6
<1>5. CASE Cancels
  <2>1. ctxDone' = TRUE
      BY <1>5 DEF Cancels
  <2>2. Delivery!Close
      BY <1>5, <1>m, <2>1 DEF Cancels, Delivery!Close
  <2> QED BY <2>2 DEF Delivery!DeliveryNext
<1>6. CASE Commits
  <2>1. Delivery!Acknowledge
      BY <1>6, <1>m DEF Commits, Delivery!Acknowledge
  <2> QED BY <2>1 DEF Delivery!DeliveryNext
<1>7. CASE Resumes
  <2>1. Memory' = {}
      BY <1>0, <1>7, <1>m DEF Resumes
  <2>2. Delivery!Restart
      BY <1>7, <1>m, <2>1 DEF Resumes, Delivery!Restart
  <2> QED BY <2>2 DEF Delivery!DeliveryNext
<1> QED
    BY <1>0, <1>1, <1>2, <1>3, <1>4, <1>5, <1>6, <1>7, StepKinds DEF Delivery!DeliveryNext

(* The reader, the channel, the loop, the semaphore, the workers, Stop and restarts together
   implement the delivery log, for every number of events, buffer size and concurrency. *)
THEOREM EngineImplementsDelivery == Spec => ImplementsDelivery
<1>1. Init => Delivery!DeliveryInit
  <2> SUFFICES ASSUME Init PROVE Delivery!DeliveryInit
      OBVIOUS
  <2>1. Memory = {}
      BY DEF Init, Memory, InMemory, InReader, InChannel, InLoop, InWorker, Events, NoEvent
  <2> QED BY <2>1 DEF Init, Memory, Events, Delivery!DeliveryInit
<1>2. /\ IInv /\ ReaderSpawned /\ Placed /\ DeliveryInv /\ Placed' /\ [Next]_vars
      => [Delivery!DeliveryNext]_(Delivery!deliveryVars)
    BY LogStep
<1> QED BY <1>1, <1>2, KnownAlways, PTL DEF Spec, ImplementsDelivery, Delivery!DeliverySpec

(* An event is written to the sink at most once by each incarnation of the engine: duplicates
   need a crash, for every concurrency. *)
THEOREM OncePerStart == Spec => []DeliveredPerStart
<1>1. IInv /\ DeliveryInv => DeliveredPerStart
  <2> SUFFICES ASSUME IInv, DeliveryInv, NEW e \in Events PROVE delivered[e] <= crashes + 1
      BY DEF DeliveredPerStart
  <2>1. delivered[e] \in Nat /\ crashes \in Nat
      BY LogTyped
  <2> QED BY <2>1 DEF DeliveryInv, OnePerStart
<1> QED BY <1>1, KnownAlways, PTL

\* What was read is accounted for.
LEMMA AccountedFor == ASSUME IInv, Placed, DeliveryInv PROVE ReadAccounted
<1> SUFFICES ASSUME NEW e \in 1..position, ~InMemory(e), e > resumed
             PROVE  delivered[e] > 0 \/ e \in givenUp \/ (e = position /\ ctxDone)
    BY LogTyped DEF ReadAccounted
<1>1. e \in Events /\ e \in (resumed + 1)..position
    BY LogTyped DEF Events, IInv, Typed
<1>2. outcome[e] \in Outcomes /\ outcome[e] # "none"
    BY <1>1, LogTyped DEF Placed, Memory
<1> QED BY <1>1, <1>2 DEF DeliveryInv, OutcomesTold, LastInHand, Outcomes

(* Every event the consumer has passed is in memory, written or given up, unless a restart
   resumed behind it or it was the one in the reader's hand when the engine was told to stop. *)
THEOREM EveryReadAccounted == Spec => []ReadAccounted
<1>1. IInv /\ Placed /\ DeliveryInv => ReadAccounted
    BY AccountedFor
<1> QED BY <1>1, KnownAlways, PTL

(* With EnableAutoCommit off no event is ever skipped, whatever crashes: the exception for what a
   restart resumed behind is only there because of the auto-commit. *)
THEOREM NothingSkipped ==
    ASSUME ~EnableAutoCommit
    PROVE  Spec => [](\A e \in 1..position :
                        InMemory(e) \/ delivered[e] > 0 \/ e \in givenUp \/ (e = position /\ ctxDone))
<1>1. IInv /\ Placed /\ DeliveryInv =>
        \A e \in 1..position :
            InMemory(e) \/ delivered[e] > 0 \/ e \in givenUp \/ (e = position /\ ctxDone)
    BY AccountedFor DEF ReadAccounted, DeliveryInv, FromTheStart
<1> QED BY <1>1, KnownAlways, PTL
=============================================================================
