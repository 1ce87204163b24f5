------------------------------- MODULE Engine -------------------------------
(***************************************************************************)
(* pkg/stream/engine.go with a Kafka source (pkg/ingestion/kafka_source.go)*)
(* feeding it: the reader goroutine, the bounded eventChan, the processing *)
(* loop, the semaphore that limits the workers, the worker goroutines, the *)
(* periodic loops, the WaitGroup and the steps of Stop.  The process may   *)
(* crash and be started again: only Kafka and the sink remember anything.  *)
(*                                                                         *)
(* Events are the offsets 1..NumEvents of one partition.  Operators and    *)
(* sinks are the user's: their results are chosen nondeterministically.    *)
(* The watermark manager is started but nothing ever calls its             *)
(* UpdateEventTime, so in this composition it emits nothing; what it does  *)
(* when it is fed is module WatermarkManager.                              *)
(***************************************************************************)
EXTENDS Naturals, Sequences, FiniteSets

CONSTANTS NumEvents,              \* messages in the topic
          BufferSize,             \* config.BufferSize
          MaxConcurrency,         \* config.MaxConcurrency
          BackpressureThreshold,  \* config.BackpressureThreshold, in percent; 100 or
                                  \* more also stands for EnableBackpressure = false
          EnableAutoCommit,       \* the Kafka source's setting
          MaxCrashes              \* bound: crashes of the process in a behaviour

ASSUME EngineAssumption ==
    /\ NumEvents \in Nat
    /\ BufferSize \in Nat \ {0}
    /\ MaxConcurrency \in Nat \ {0}
    /\ BackpressureThreshold \in Nat
    /\ EnableAutoCommit \in BOOLEAN
    /\ MaxCrashes \in Nat

Events == 1..NumEvents
NoEvent == 0

VARIABLES
    started,      \* Start has been called in this incarnation
    ctxDone,      \* e.ctx is cancelled
    wg,           \* the counter of e.wg
    alive,        \* goroutines of Start that are running, workers apart
    reader,       \* the source's reader goroutine: pc and the event in its hand
    eventChan,    \* e.eventChan
    loop,         \* processingLoop: pc and the event in its hand
    semaphore,    \* slots of the semaphore that are taken
    stage,        \* where the worker goroutine of each event is
    stopping,     \* progress of Stop
    metrics,      \* EventsProcessed, EventsFiltered, BackpressureCount
    lastCheckpointAt,   \* whether metrics.LastCheckpointAt has been set
    position,     \* the consumer's position: offsets up to here were read
    committed,    \* the consumer group's committed offset (kept by Kafka)
    resumed,      \* history: the position this incarnation began at
    outcome,      \* history: how this incarnation finished each event
    delivered,    \* the sink: how often each event was written (survives crashes)
    givenUp,      \* history: events filtered, or whose error was only logged
    crashes

control == <<started, ctxDone, stopping>>
waits == <<wg, alive>>
intake == <<reader, eventChan>>
work == <<loop, semaphore, stage>>
stats == <<metrics, lastCheckpointAt>>
kafka == <<position, committed, resumed>>
results == <<outcome, delivered, givenUp>>
vars == <<control, waits, intake, work, stats, kafka, results, crashes>>

Tracked == {"watermark", "source", "loop", "metrics", "checkpoint"}
Working == {"operators", "sinks", "release"}
Stages == Working \cup {"none", "finished"}
Outcomes == {"none", "processed", "filtered", "failed", "dropped"}

ReaderStates == [pc : {"off", "select", "reading", "sending", "stopped"},
                 event : Events \cup {NoEvent}]
LoopStates == [pc : {"off", "select", "acquire", "stopped"},
               event : Events \cup {NoEvent}]
Counters == [processed : Nat, filtered : Nat, backpressure : Nat]

Workers == {e \in Events : stage[e] # "none"}

Finish(e, how) == outcome' = [outcome EXCEPT ![e] = how]

-----------------------------------------------------------------------------
Init ==
    /\ started = FALSE
    /\ ctxDone = FALSE
    /\ stopping = "no"
    /\ wg = 0
    /\ alive = {}
    /\ reader = [pc |-> "off", event |-> NoEvent]
    /\ eventChan = <<>>
    /\ loop = [pc |-> "off", event |-> NoEvent]
    /\ semaphore = 0
    /\ stage = [e \in Events |-> "none"]
    /\ metrics = [processed |-> 0, filtered |-> 0, backpressure |-> 0]
    /\ lastCheckpointAt = FALSE
    /\ position = 0
    /\ committed = 0
    /\ resumed = 0
    /\ outcome = [e \in Events |-> "none"]
    /\ delivered = [e \in Events |-> 0]
    /\ givenUp = {}
    /\ crashes = 0

(***************************************************************************)
(* Start: one wg.Add(1) per goroutine, the watermark manager's included.   *)
(***************************************************************************)
Start ==
    /\ ~started
    /\ stopping = "no"
    /\ started' = TRUE
    /\ wg' = Cardinality(Tracked)
    /\ alive' = Tracked
    /\ loop' = [loop EXCEPT !.pc = "select"]
    /\ UNCHANGED <<ctxDone, stopping, intake, semaphore, stage, stats, kafka,
                   results, crashes>>

\* The goroutine around KafkaSource.Start: it spawns the reader, returns at once
\* and calls wg.Done; the reader itself is not in the WaitGroup.
SourceStart ==
    /\ "source" \in alive
    /\ reader' = [reader EXCEPT !.pc = "select"]
    /\ alive' = alive \ {"source"}
    /\ wg' = wg - 1
    /\ UNCHANGED <<control, eventChan, work, stats, kafka, results, crashes>>

\* watermark.Manager.Start returns on ctx.Done without calling wg.Done.
WatermarkExit ==
    /\ "watermark" \in alive
    /\ ctxDone
    /\ alive' = alive \ {"watermark"}
    /\ UNCHANGED <<control, wg, intake, work, stats, kafka, results, crashes>>

\* metricsLoop and checkpointLoop leave on ctx.Done with wg.Done.
PeriodicExit(g) ==
    /\ g \in alive \cap {"metrics", "checkpoint"}
    /\ ctxDone
    /\ alive' = alive \ {g}
    /\ wg' = wg - 1
    /\ UNCHANGED <<control, intake, work, stats, kafka, results, crashes>>

\* createCheckpoint keeps nothing of the Checkpoint it builds but the time.
createCheckpoint ==
    /\ "checkpoint" \in alive
    /\ lastCheckpointAt' = TRUE
    /\ UNCHANGED <<control, waits, intake, work, metrics, kafka, results, crashes>>

(***************************************************************************)
(* The reader goroutine of the Kafka source.                               *)
(***************************************************************************)
ReaderSelect ==
    /\ reader.pc = "select"
    /\ reader' = [reader EXCEPT !.pc = IF ctxDone THEN "stopped" ELSE "reading"]
    /\ UNCHANGED <<control, waits, eventChan, work, stats, kafka, results, crashes>>

\* ReadMessage returns the next message, or times out, or fails once the
\* consumer is closed; after an error the loop starts over.
ReadMessage ==
    /\ reader.pc = "reading"
    /\ \/ /\ position < NumEvents
          /\ stopping \in {"no", "cancelled"}
          /\ position' = position + 1
          /\ reader' = [pc |-> "sending", event |-> position + 1]
       \/ /\ reader' = [reader EXCEPT !.pc = "select"]
          /\ UNCHANGED position
    /\ UNCHANGED <<control, waits, eventChan, work, stats, committed, resumed,
                   results, crashes>>

\* The faulty form that drops the event when the channel is full, as the HTTP and
\* WebSocket sources do.
ReaderSendOrDrop ==
    /\ reader.pc = "sending"
    /\ eventChan' = IF Len(eventChan) < BufferSize THEN Append(eventChan, reader.event)
                                                   ELSE eventChan
    /\ reader' = [pc |-> "select", event |-> NoEvent]
    /\ UNCHANGED <<control, waits, work, stats, kafka, results, crashes>>

\* output <- event: blocks while the channel is full.
ReaderSend ==
    /\ reader.pc = "sending"
    /\ Len(eventChan) < BufferSize
    /\ eventChan' = Append(eventChan, reader.event)
    /\ reader' = [pc |-> "select", event |-> NoEvent]
    /\ UNCHANGED <<control, waits, work, stats, kafka, results, crashes>>

\* The other case of that select: the event in the reader's hand is dropped.
ReaderCancelled ==
    /\ reader.pc = "sending"
    /\ ctxDone
    /\ Finish(reader.event, "dropped")
    /\ reader' = [pc |-> "stopped", event |-> NoEvent]
    /\ UNCHANGED <<control, waits, eventChan, work, stats, kafka, delivered, givenUp,
                   crashes>>

(***************************************************************************)
(* processingLoop.                                                         *)
(***************************************************************************)
\* The reader may have sent its event before the loop looks at the channel's length.
Refill == IF reader.pc = "sending" THEN 1 ELSE 0

LoopTake ==
    /\ loop.pc = "select"
    /\ eventChan # <<>>
    /\ loop' = [pc |-> "acquire", event |-> Head(eventChan)]
    /\ eventChan' = Tail(eventChan)
    /\ \E length \in {Len(Tail(eventChan)), Len(Tail(eventChan)) + Refill} :
          metrics' = IF length * 100 > BackpressureThreshold * BufferSize
                     THEN [metrics EXCEPT !.backpressure = @ + 1]
                     ELSE metrics
    /\ UNCHANGED <<control, waits, reader, semaphore, stage, lastCheckpointAt, kafka,
                   results, crashes>>

\* semaphore <- struct{}{} is a plain send: the loop hears neither a watermark
\* nor ctx.Done while all slots are taken.
LoopDispatch ==
    /\ loop.pc = "acquire"
    /\ semaphore < MaxConcurrency
    /\ semaphore' = semaphore + 1
    /\ wg' = wg + 1
    /\ stage' = [stage EXCEPT ![loop.event] = "operators"]
    /\ loop' = [pc |-> "select", event |-> NoEvent]
    /\ UNCHANGED <<control, alive, intake, stats, kafka, results, crashes>>

LoopExit ==
    /\ loop.pc = "select"
    /\ ctxDone
    /\ loop' = [loop EXCEPT !.pc = "stopped"]
    /\ alive' = alive \ {"loop"}
    /\ wg' = wg - 1
    /\ UNCHANGED <<control, intake, semaphore, stage, stats, kafka, results, crashes>>

(***************************************************************************)
(* The worker goroutine of event e: processEvent, then the two defers.     *)
(***************************************************************************)
\* The faulty form without the return: the event goes on to the sinks.
OperatorsFailGoOn(e) ==
    /\ stage' = [stage EXCEPT ![e] = "sinks"]
    /\ givenUp' = givenUp \cup {e}
    /\ UNCHANGED <<metrics, outcome, delivered>>

\* An operator error is returned and only logged: the event is given up.
OperatorsFail(e) ==
    /\ stage' = [stage EXCEPT ![e] = "release"]
    /\ Finish(e, "failed")
    /\ givenUp' = givenUp \cup {e}
    /\ UNCHANGED <<metrics, delivered>>

OperatorsFilter(e) ==
    /\ stage' = [stage EXCEPT ![e] = "release"]
    /\ Finish(e, "filtered")
    /\ givenUp' = givenUp \cup {e}
    /\ metrics' = [metrics EXCEPT !.filtered = @ + 1]
    /\ UNCHANGED delivered

OperatorsForward(e) ==
    /\ stage' = [stage EXCEPT ![e] = "sinks"]
    /\ UNCHANGED <<metrics, results>>

RunOperators(e) ==
    /\ stage[e] = "operators"
    /\ OperatorsFail(e) \/ OperatorsFilter(e) \/ OperatorsForward(e)
    /\ UNCHANGED <<control, waits, intake, loop, semaphore, lastCheckpointAt, kafka,
                   crashes>>

\* A sink error is logged and the event counts as processed all the same.
WriteSinks(e) ==
    /\ stage[e] = "sinks"
    /\ stage' = [stage EXCEPT ![e] = "release"]
    /\ Finish(e, "processed")
    /\ metrics' = [metrics EXCEPT !.processed = @ + 1]
    /\ \/ /\ delivered' = [delivered EXCEPT ![e] = @ + 1]
          /\ UNCHANGED givenUp
       \/ /\ givenUp' = givenUp \cup {e}
          /\ UNCHANGED delivered
    /\ UNCHANGED <<control, waits, intake, loop, semaphore, lastCheckpointAt, kafka,
                   crashes>>

processEvent(e) == RunOperators(e) \/ WriteSinks(e)

\* defer func() { <-semaphore }() runs first ...
ReleaseSemaphore(e) ==
    /\ stage[e] = "release"
    /\ stage' = [stage EXCEPT ![e] = "finished"]
    /\ semaphore' = semaphore - 1
    /\ UNCHANGED <<control, waits, intake, loop, stats, kafka, results, crashes>>

\* The faulty form of a worker that leaves without wg.Done.
WorkerLeaks(e) ==
    /\ stage[e] = "finished"
    /\ stage' = [stage EXCEPT ![e] = "none"]
    /\ UNCHANGED <<control, waits, intake, loop, semaphore, stats, kafka, results,
                   crashes>>

\* ... and defer e.wg.Done() after it.
WorkerDone(e) ==
    /\ stage[e] = "finished"
    /\ stage' = [stage EXCEPT ![e] = "none"]
    /\ wg' = wg - 1
    /\ UNCHANGED <<control, alive, intake, loop, semaphore, stats, kafka, results,
                   crashes>>

worker(e) == processEvent(e) \/ ReleaseSemaphore(e) \/ WorkerDone(e)

(***************************************************************************)
(* Stop, called once, with or without a Start before it.                   *)
(***************************************************************************)
StopCancel ==
    /\ stopping = "no"
    /\ stopping' = "cancelled"
    /\ ctxDone' = TRUE
    /\ UNCHANGED <<started, waits, intake, work, stats, kafka, results, crashes>>

\* source.Stop closes the consumer, which commits its position when it
\* auto-commits.
StopSources ==
    /\ stopping = "cancelled"
    /\ stopping' = "waiting"
    /\ committed' = IF EnableAutoCommit THEN position ELSE committed
    /\ UNCHANGED <<started, ctxDone, waits, intake, work, stats, position, resumed,
                   results, crashes>>

StopWaited ==
    /\ stopping = "waiting"
    /\ wg = 0
    /\ stopping' = "flushing"
    /\ UNCHANGED <<started, ctxDone, waits, intake, work, stats, kafka, results, crashes>>

StopFlushed ==
    /\ stopping = "flushing"
    /\ stopping' = "done"
    /\ UNCHANGED <<started, ctxDone, waits, intake, work, stats, kafka, results, crashes>>

Stop == StopCancel \/ StopSources \/ StopWaited \/ StopFlushed

(***************************************************************************)
(* Kafka and the machine.                                                  *)
(***************************************************************************)
\* librdkafka commits, in the background, the offsets ReadMessage has returned.
AutoCommit ==
    /\ EnableAutoCommit
    /\ reader.pc \in {"select", "reading", "sending"}
    /\ stopping \in {"no", "cancelled"}
    /\ committed # position
    /\ committed' = position
    /\ UNCHANGED <<control, waits, intake, work, stats, position, resumed, results,
                   crashes>>

\* The process dies and a new one takes over; without a committed offset,
\* auto.offset.reset = "earliest" sends it back to the start of the topic.
Crash ==
    /\ started
    /\ crashes < MaxCrashes
    /\ crashes' = crashes + 1
    /\ started' = FALSE
    /\ ctxDone' = FALSE
    /\ stopping' = "no"
    /\ wg' = 0
    /\ alive' = {}
    /\ reader' = [pc |-> "off", event |-> NoEvent]
    /\ eventChan' = <<>>
    /\ loop' = [pc |-> "off", event |-> NoEvent]
    /\ semaphore' = 0
    /\ stage' = [e \in Events |-> "none"]
    /\ metrics' = [processed |-> 0, filtered |-> 0, backpressure |-> 0]
    /\ lastCheckpointAt' = FALSE
    /\ position' = committed
    /\ resumed' = committed
    /\ outcome' = [e \in Events |-> "none"]
    /\ UNCHANGED <<committed, delivered, givenUp>>

Source == SourceStart \/ ReaderSelect \/ ReadMessage \/ ReaderSend \/ ReaderCancelled
Loop == LoopTake \/ LoopDispatch \/ LoopExit
Periodic == WatermarkExit \/ createCheckpoint \/ \E g \in alive : PeriodicExit(g)

Next ==
    \/ Start
    \/ Source
    \/ Loop
    \/ \E e \in Events : worker(e)
    \/ Periodic
    \/ Stop
    \/ AutoCommit
    \/ Crash

\* Every goroutine that can run is run by the Go scheduler, operators and sinks
\* return, and the process is started again after a crash.  ReadMessage may time
\* out, but not for ever while the topic has messages.  Nothing forces a call of
\* Stop, a crash or an auto-commit.
PipelineFairness ==
    /\ WF_vars(Start)
    /\ WF_vars(SourceStart)
    /\ WF_vars(ReaderSelect)
    /\ SF_vars(ReadMessage /\ position' # position)
    /\ WF_vars(ReaderSend \/ ReaderCancelled)
    /\ WF_vars(Loop)
    /\ \A e \in Events : WF_vars(worker(e))

\* Stop, once called, goes on, and the goroutines of Start see the cancelled context.
ShutdownFairness ==
    /\ WF_vars(ReadMessage)
    /\ WF_vars(LoopExit)
    /\ WF_vars(WatermarkExit)
    /\ \A g \in {"metrics", "checkpoint"} : WF_vars(PeriodicExit(g))
    /\ WF_vars(StopSources \/ StopWaited \/ StopFlushed)

Spec == Init /\ [][Next]_vars
PipelineSpec == Spec /\ PipelineFairness
FairSpec == PipelineSpec /\ ShutdownFairness

-----------------------------------------------------------------------------
(* Type invariant: the state of the engine, its goroutines and its environment. *)
TypeOK ==
    /\ started \in BOOLEAN
    /\ ctxDone \in BOOLEAN
    /\ wg \in Nat
    /\ alive \subseteq Tracked
    /\ reader \in ReaderStates
    /\ eventChan \in Seq(Events)
    /\ Len(eventChan) <= BufferSize
    /\ loop \in LoopStates
    /\ semaphore \in Nat
    /\ stage \in [Events -> Stages]
    /\ stopping \in {"no", "cancelled", "waiting", "flushing", "done"}
    /\ metrics \in Counters
    /\ lastCheckpointAt \in BOOLEAN
    /\ position \in 0..NumEvents
    /\ committed \in 0..NumEvents
    /\ resumed \in 0..NumEvents
    /\ outcome \in [Events -> Outcomes]
    /\ delivered \in [Events -> Nat]
    /\ givenUp \subseteq Events
    /\ crashes \in Nat

(* At most MaxConcurrency events are inside processEvent at once: the slots taken
   are exactly the workers that have not yet run their deferred release. *)
ConcurrencyBounded ==
    /\ semaphore = Cardinality({e \in Events : stage[e] \in Working})
    /\ semaphore <= MaxConcurrency

(* The WaitGroup counts every goroutine that calls Done: those of Start that still
   run and the workers, and for ever the watermark manager, which never does. *)
WaitGroupAccounts ==
    wg = Cardinality(alive \cup (IF started THEN {"watermark"} ELSE {}))
            + Cardinality(Workers)

InReader(e) == reader.event = e
InChannel(e) == \E i \in 1..Len(eventChan) : eventChan[i] = e
InLoop(e) == loop.event = e
InWorker(e) == stage[e] \in {"operators", "sinks"}
InMemory(e) == InReader(e) \/ InChannel(e) \/ InLoop(e) \/ InWorker(e)

(* No event vanishes inside the engine: what this incarnation has read is in exactly
   one place (the reader's hand, the channel, the loop's hand, a worker) or is
   finished, and the counters of StreamMetrics count what finished. *)
NothingVanishes ==
    /\ \A e \in Events :
          /\ e \in (resumed + 1)..position <=> InMemory(e) \/ outcome[e] # "none"
          /\ InMemory(e) => outcome[e] = "none"
          /\ InReader(e) => ~InChannel(e) /\ ~InLoop(e) /\ ~InWorker(e)
          /\ InChannel(e) => ~InLoop(e) /\ ~InWorker(e)
          /\ InLoop(e) => ~InWorker(e)
    /\ \A i, j \in 1..Len(eventChan) : i < j => eventChan[i] < eventChan[j]
    /\ metrics.processed = Cardinality({e \in Events : outcome[e] = "processed"})
    /\ metrics.filtered = Cardinality({e \in Events : outcome[e] = "filtered"})

(* The engine delivers at least once what Kafka sends: whatever crashes, every event of
   the topic is written to the sink or given up with a logged error, unless the engine
   is told to stop first or a restart resumes behind the event, whose offset an
   auto-commit acknowledged too early. *)
AtLeastOnce ==
    \A e \in Events :
        <>(delivered[e] > 0 \/ e \in givenUp \/ stopping # "no" \/ e <= resumed)

Delivery == INSTANCE DeliveryLog
            WITH Size <- NumEvents, from <- resumed, upTo <- position, acknowledged <- committed,
                 open <- {e \in Events : InMemory(e)}, written <- delivered, refused <- givenUp,
                 closing <- ctxDone, restarts <- crashes

(* Seen from the source and the sink, the engine is the delivery log: what is in memory is
   what is open, an event is finished once for each time it is read, and only the one in the
   reader's hand is dropped when the context is cancelled. *)
ImplementsDelivery == Delivery!DeliverySpec

(* An event is written again only by an engine that was started again. *)
DeliveredPerStart == \A e \in Events : delivered[e] <= crashes + 1

(* What the consumer has passed is in memory, was written or given up, unless this incarnation
   resumed behind it or it is the one the reader dropped when the engine was told to stop. *)
ReadAccounted ==
    \A e \in 1..position :
        \/ InMemory(e) \/ delivered[e] > 0 \/ e \in givenUp
        \/ e <= resumed
        \/ e = position /\ ctxDone

(* "Stop gracefully shuts down the engine": a Stop that was called returns, having
   flushed the sinks. *)
StopReturns == stopping = "cancelled" ~> stopping = "done"

(* "Exactly-Once Semantics: Guaranteed processing", the part that nothing is lost:
   an event that Kafka will not send again has been finished or is in memory. *)
CommittedNotLost ==
    \A e \in 1..committed : delivered[e] > 0 \/ e \in givenUp \/ InMemory(e)

(* "Exactly-Once Semantics", the part that nothing is written twice. *)
AtMostOnce == \A e \in Events : delivered[e] <= 1
=============================================================================
