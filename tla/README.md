# A TLA+ development for gress

gress is a stream processing engine in Go: sources read events, an engine runs them
through operators in a bounded pool of workers and writes the results to sinks, with
watermarks, windows, joins, keyed state, checkpoints, pattern matching, an error-handling layer
and a Kubernetes operator around it. This directory models the parts of it that run concurrently,
fail or recover; model-checks them with TLC on small instances; and proves most of its
safety properties with TLAPS for every instance.

    tlc -workers 2 -config engine.cfg Engine      # a run: configuration and module
    tlapm EngineProofs.tla                        # a proof module

`PROJECT.json` lists the components, the runs, what each definition translates (`map`), for
every property a fault in the code that breaks it (`mutants`; the faulty forms stand in the
modules just before the definition they replace), the hazards and the theorems.

## 1. Inventory

| Component | State | Operations | What is hard | What makes it correct |
|---|---|---|---|---|
| Circuit breaker (`pkg/errors/circuit_breaker.go`) | state, three counters, time of the last failure, totals | Execute = beforeRequest + operation + afterRequest, Reset | callers return in another period than they entered in; state-change callbacks are goroutines | counters start every period afresh, slots come back, it closes after recovery |
| Retry and dead letter queue (`retry.go`, `dlq.go`) | attempts; queue; statistics | ExecuteWithCallback; Write, Read, Delete | a retry repeats what was done; a full queue; statistics under another lock than the queue | nothing handed to a sink disappears; totals account for the queue |
| Resilient sink (`pkg/stream/circuit_breaker_sink.go`) | breaker + retry + queue | Write, Flush | cancellation during backoff, breaker rejections consumed by the retry loop | every Write returns, every event is accounted for |
| Error handling operator, side outputs (`error_handler.go`, `classification.go`, `side_output.go`) | attempts and backoff per event; channels by tag | Process, handleError; Register, Unregister, Emit, Close | send on a channel closed meanwhile; one of several outputs fails; retry without limit | no failure is swallowed, cancellation ends every Process |
| Engine (`pkg/stream/engine.go`) | channel, semaphore, wait group, counters | Start, processingLoop, processEvent, createCheckpoint, Stop | five kinds of goroutines, shutdown, crash | no event vanishes, the wait group is exact, Stop returns |
| Keyed operators (`pkg/stream/operators.go`) | accumulator per key | Aggregate, Reduce, Branch | no lock, many workers; a restart that restores and redelivers what it can | an event is lost only to an overlap or to a restart behind it |
| Kafka source and sink (`kafka_source.go`, `kafka_sink.go`) | position, committed offset; producer queue | reader, auto-commit; Write, delivery reports, Flush | commit before processing; asynchronous errors; fallbacks of the decoder | what is read is what was written |
| HTTP, WebSocket sources | the engine's channel; connections | handlers, BroadcastMessage, Stop | drop on a full channel, connections that come during Stop, a broadcast that hangs with the lock of the list | handlers end |
| Timescale sink (`pkg/sink/timescale_sink.go`) | batch | Write, Flush | no lock, transactions that fail, commits whose answer is lost | each event one row, but for commits in doubt |
| Watermark manager (`pkg/watermark/manager.go`) | marks and last event per partition, global mark | UpdateEventTime, generateWatermarks | idle partitions, late joiners, skipped sends | marks are justified, marks arrive |
| Window operator (`pkg/window/window.go`) | windows with accumulators | Process, OnWatermark, RestoreState | accumulator read after unlock, purge under a read lock | events are in their windows, results are complete |
| Joins (`pkg/join`) | events per side and key; windows; versions | ProcessLeft/Right, OnWatermark, cleanup, Stop | both sides at once, expiry, late events, searches over removed versions | no pair is missed, rows once, the right version |
| Checkpoint manager (`pkg/checkpoint/manager.go`) | providers, backends, list, files | CreateCheckpoint, LoadLatestCheckpoint, RestoreFromCheckpoint, cleanup | state read piecewise while events flow; crash at each step | recovery loses no effect and goes behind a completed checkpoint only after an error of the load or the restore |
| State backends (`pkg/state`) | map or database, expiries, RWMutex | Get, Put, Delete, Snapshot, Restore, sweeper, Close | deletion started by Get runs later; encoding; whole seconds; lock order | one interface, kept; a value comes back intact; a loss has a reason |
| Configuration (`pkg/config`) | file, environment, configuration, callbacks | load, defaults, merge, validate; watcher, Reload | reloads and edits overlap, callbacks applied in part | the configuration comes to be the file's |
| Pattern engine (`pkg/cep`) | partial matches, event buffer | ProcessEvent, timeouts; AddEvent | event time before and after the wall clock; quantifiers, negation | matches are occurrences, and all of them |
| Schema registry client (`pkg/schema`) | two caches | GetSchema, RegisterSchema, Encode, Decode | stale caches, check then register | ids keep their meaning, versions stay compatible |
| Kubernetes operator (`operator/`) | resources, workloads, status | three reconcilers, savepoint manager | copies out of date, conflicts, crashes between calls | the last spec runs; phases go forward |
| ML inference, SQL, detectors, metrics, lag scaler | see `PROJECT.json` | | | |

How they interact: a source pushes into the engine's `eventChan`; the processing loop takes
events and watermarks from channels and starts one worker per event under a semaphore; a worker
calls operators (windows, joins and keyed operators among them) and then every sink, each possibly
wrapped in a ResilientSink; the checkpoint manager pulls state from providers and backends; Stop
cancels one context that every goroutine looks at and waits on one WaitGroup. The pattern engine
is fed by programs directly; the Kubernetes operator starts the engine's pods and never talks to it.

As committed, the packages `stream`, `watermark` and `checkpoint` import each other, and the
operator has two typing errors (`PhaseP ending`, `streamjob_controller.go:31`, and two types
`CheckpointSpec`), so neither builds as a whole. The models take each package as written and the calls
between them as they are meant.

## 2. Modules

Each module's header names the files it translates. Variables carry the names of the fields
they stand for, actions the names of the functions; an operation is one action for each critical
section or each step between which another goroutine can run. Variables marked *history* exist for
the properties only.

| Module | Models | Extends |
|---|---|---|
| `CircuitBreaker` | the breaker under concurrent callers. The time of the last failure is kept as its age, saturated just past Timeout: the code only compares the two. Totals are counted modulo `CounterModulus`, which stands for 2^64. | |
| `CircuitBreakerSink` | the callbacks of the state changes, the transition counter (as net flow into each state) and the state gauge | `CircuitBreaker` |
| `ResilientSink` | the retry loop around the breaker around a sink, dead letter queue behind it; a failed call may or may not have taken effect | `CircuitBreaker` |
| `DeadLetterQueue` | the in-memory queue and the manager's statistics, two critical sections per call | |
| `ErrorHandler` | the retry loop with its timer, ClassifyError, handleError, and the side output collector whose Emit is a lookup and a send | |
| `Engine` | reader, channel, loop, semaphore, workers, periodic loops, wait group, Stop, crash and restart; operators and sinks answer nondeterministically | |
| `DeliveryLog` | **abstract**: what a source that can be read again and the sinks see of the engine between them: offsets that are read, open, written or given up, acknowledged, and read again after a restart. `Engine` instantiates it (`Delivery`) with what is in memory as the open ones | |
| `WatermarkManager` | marks, idle rule, non-blocking send in Go's random map order, the engine's handler | |
| `WindowAssigners`, `WindowOperator` | the three assigners as sets of windows; Process in one step per window and one for the firing; an aggregate is the set of its events | |
| `KeyedOperators` | read, compute and store of an accumulator as separate steps of workers; the fault of Go's map when two workers write; a restart that may or may not restore the last snapshot and gets any of the events again, because the engine's own checkpoints hold no operator state and the committed offset is independent of them | |
| `StreamJoin` | DualStreamJoinOperator: two goroutines, store then look up, send; expiry by the wall clock; Stop. The interval join is a condition of it | |
| `Sublists` | the loop with which both joins filter a list and the pattern matcher its buffer, as a recursive function so that it can be reasoned about | |
| `WindowJoin`, `TemporalJoin` | windows of both sides with their rows; the versioned table, its binary search and its cleanup | `WindowAssigners` |
| `SchemaCodec`, `KafkaTopic` | caches of client and codec manager, registration in check and call; the topic between Kafka sink and source, with the producer's queue. The registry service and librdkafka are external | |
| `CheckpointManager` | a provider and a backend whose state is the number of events that took effect; CreateCheckpoint in eight steps; crash; recovery as in the repository's only caller (`examples/state-backend/main.go:182`): an error of the load counts as no checkpoint, an error of the restore is logged, and the process runs on from the beginning | |
| `StateBackend` | **abstract**: what the interface `stream.StateBackend` promises of Get, Put, Delete, Snapshot and Restore when values may have a time-to-live | |
| `MemoryState` | entries with expiries, late deletions, sweeper, snapshot, restore, close; `Backend` instantiates `StateBackend` with the refinement mapping | |
| `RocksDBState` | stored bytes as a prefix, if any, and a value without some of its first 8-byte blocks, each known by the number it reads as (`Blocks`); batches, snapshot, restore, restart | |
| `RocksDBLock` | each method as its sequence of lock operations on Go's write-preferring RWMutex | |
| `TimescaleSink` | load, append, check, transaction, truncate as separate steps, because nothing locks them; a Commit that fails may have been done | |
| `Configuration` | loading as operators over a record of the settings that interact (defaults, environment, merge, validation, comparison of versions); every validator is there, one line for each rule, because AlwaysValidated and VersionsAgree are about the whole of Validate; checkAndReload step by step | |
| `Ingestion` | requests and connections with their handlers, clients that repeat a request, broadcasts that hold the read lock of the list over all their writes, Stop | |
| `PatternEngine` | patterns as data, partial matches, tryAdvanceMatch as an operator with three outcomes; the matcher and its buffer | `Sublists` |
| `StreamJobOperator`, `CheckpointOperator`, `StreamClusterOperator` | a pass of a reconciler, one step per call of the API server; reads come from a cache that lags, writes on an old copy are refused, a pass may end before any call (it fails, or the operator dies) | |
| `MCErrors`, `MCPipeline`, `MCState`, `MCCheckpoint`, `MCOperator`, `MCEdges` | instances for TLC that put components side by side which share no state: a variable names the one that takes steps, so that the state spaces add up and do not multiply | the modules they check |
| `ErrorsProofs` | proofs about `CircuitBreaker`, `CircuitBreakerSink`, `ResilientSink`, `DeadLetterQueue` and `ErrorHandler` | those |
| `EngineProofs` | proofs about `Engine` and its refinement of `DeliveryLog` | that |
| `EventTimeProofs` | proofs about `WatermarkManager`, `WindowAssigners`, `WindowOperator` and `WindowJoin` | those |
| `PipelineProofs` | proofs about `KeyedOperators`, `StreamJoin`, `TemporalJoin`, `TimescaleSink`, `SchemaCodec` and `KafkaTopic` | those, `SublistProofs` |
| `StateProofs` | proofs about `MemoryState` and its refinement of `StateBackend`, `RocksDBState` and `RocksDBLock` | those |
| `OperatorProofs` | proofs about `StreamJobOperator`, `StreamClusterOperator`, `CheckpointOperator` and `CheckpointManager` | those |
| `EdgesProofs` | proofs about `Configuration`, `Ingestion` and `PatternEngine` | those, `SublistProofs` |
| `SublistProofs` | lemmas on numbers, recursive functions and lists that the two before need | `Sublists` |

The refinement of `StateBackend`: the value a Get would return (`MemRead`) is the abstract state;
which keys may lose it by themselves (they hold a value with a time-to-live, or a deletion is under way)
is abstract too. Put, Delete, Clear, Close and Restore map to their abstract counterparts,
the passing of time and the late deletion to the loss of a value from such a key, the sweeper to
a loss of nothing. `KeepsPromise` is `Backend!BackendSpec`; it is checked as a property and proved.

The refinement of `DeliveryLog` by `Engine` is `ImplementsDelivery`, checked by the run
`engine` and proved (`EngineImplementsDelivery`). Reading maps to Read, the end of a worker to
Write or GiveUp, the cancelled reader to Drop, a crash to Restart; everything between the goroutines is a
stuttering step.

## 3. Runs

| Run (states, time with two or four workers) | Checks | Bounds and why they are enough |
|---|---|---|
| `breaker` (94K, 26 s) | PeriodsStartFresh, SlotsBackedByProbes, ProbeOverrunBounded, TransitionsTellState, ClosesAfterRecovery | three callers: one admitted before the circuit opened, a probe in the only slot, and one more that takes the slot the first gives back; thresholds of 2 tell "first" from "enough"; two callbacks waiting can run out of order |
| `errors` (278K, 1 min) | NothingLost, WriteReturns; TotalsAccount; FailuresReported, EmitFaultNeedsOverlap, HandlingReturns | sink: two workers, two events, one retry, a queue of one, so that eviction, rejection by an open breaker, cancellation during a backoff and a failed call that took effect occur. Queue: three callers, five calls, room for two. Operator: two events, a policy with one retry, one without a limit and one with none, the three kinds of queue, a side channel of one that is closed and opened again |
| `engine` (678K, 1 min) | WaitGroupAccounts, NothingVanishes, AtLeastOnce, ImplementsDelivery | two events, one worker slot and a channel of one make the loop wait for the semaphore and the reader for the channel; one crash, Stop at any point |
| `watermark` (13K, 4 s) | MarksJustified, MarkReachesEngine | two partitions; event times that are old, and ahead of the clock; a channel of two, so that sends are skipped |
| `pipeline` (683K, 2 min) | EventsInTheirWindows, WatermarkResultsComplete, LossHasCause, NoPairMissed, JoinStops, WindowRowsExact, LookupRight, ReadAsWritten, CompatibleUnlessOverlap | four events of two keys each; windows of three ticks every two with an offset, so that they overlap and start before the first event; an event whose aggregation fails; all kinds of keyed operator, restarted with and without their state and with any events delivered again; joins with an event limit and a retention of one, so that events are removed while the other side works; four versions of which cleanup removes some in the middle; two schema versions, two registrars, caches of one entry that expire at once |
| `checkpoint` (946K, 20 s) | NoEffectLost, NoRollback; PhasesForward | manager: four checkpoints with two kept, two crashes, one failed call at any step, the load and the restore included. Operator: two Checkpoint resources with one to be kept, a savepoint that is waited for, a clock that lets one expire, crashes between any two calls |
| `state` (281K, 1 min) | KeepsPromise; ValueIntact, LossExplained, ExpiresWithinASecond | memory: two keys, two values, a time-to-live of one tick and none, one late deletion per key. RocksDB: two keys, so that a batch mixes expired and good ones; seconds of two ticks, so that truncation shows; a value of one block that reads as a time in the past after a while, and one of two blocks that is cut and then reads like that, on which the prefix logic depends; TTLs enabled and disabled |
| `operator` (262K, 40 s) | JobConverges, NoOrphan, ClusterConverges | two generations: the spec of the job changes its image, or its replicas and the kind of workload; that of the cluster gains one part and scales the other down, or changes its image alone; one call that fails, anywhere |
| `edges` (490K, 1.5 min) | ConfigConverges, HandlersReturn, StoredOnce, MatchesExact | three files, two environments, two edits, two callbacks of which one may fail, watcher and manual reload; three requests, two clients, two broadcasters, a channel of one nobody need read; one writer of five events in batches of two, with an error of the database that may hit a commit that was done; nine patterns with every kind of step, three events behind and ahead of the clock |
| `timescale_race` | NothingLost is violated | the same sink with two workers, as the engine is configured by default |
| `engine_stop` | StopReturns is violated | one event suffices |
| `rocksdb_close` | CloseReturns is violated | one caller of Close suffices; the others show the lock at work |

What they show, beyond that the properties hold:

* **Breaker.** The limit of half-open requests is not a hard one: a request from before the
  circuit opened gives back a slot it never took. But each such return is also a success, so
  the overrun stays below SuccessThreshold, and no slot is ever lost.
* **Engine.** The wait group's count is exact: the goroutines that run, the workers, and one
  that never goes away, the watermark manager's. That one is why `Stop` blocks for ever in
  `wg.Wait` (`engine_stop`), and neither flushes nor closes any sink.
* **Errors.** What handleError cannot deliver has a reason on record. A send on a closed side
  output needs an Unregister between the lookup and the send of the same Emit; it is possible.
* **Windows, keyed operators, joins.** The window operator's lock protects the aggregates, the keyed
  operators have none: an overlap of two events of one key loses one, and of what was stored only a restart loses more. A reduce
  stores its first value without calling its function, so that an event on which it would fail is kept. Storing
  before looking up is what makes the join miss no pair; its price is that a pair may be emitted
  twice.
* **Checkpoints.** Offsets are taken before the state, so a recovery repeats and never loses;
  NoRollback holds although a crash may leave torn files, as long as the newest file can be loaded: a
  torn one makes the next process start from nothing, and the checkpoints before it are given up.
* **State.** Both backends let a Get delete a value put after it; nothing else loses one, but
  for RocksDB values without an expiry prefix in a backend that expects it. Those lose their first eight
  bytes at every Get and at every snapshot, as long as they have eight.
* **Timescale sink.** One writer loses and repeats nothing, with one exception that no client of a
  database escapes: a commit whose answer was lost is repeated, and the table has no unique key.
* **Sources.** Every HTTP request is answered. New and leaving WebSocket connections and Stop wait for
  the lock of the list, which a broadcast keeps while it hangs in a write to a slow client: nothing sets
  a write deadline, so HandlersReturn promises them an end only if broadcasts come to theirs.
* **Operator.** Finalizer and resource versions keep the reconcilers safe whatever they read; the
  comparisons that decide on an update are where specs are not applied (see the table below).
* **Configuration.** A reload that was overtaken puts back an older configuration, but also the
  older modification time, so that the next tick of the watcher repairs it.
* **Patterns.** For the kinds of step the engine does support its matches are exact, overlapping ones
  included. The matcher's buffer has no upper limit in time: events ahead of the clock are matched
  however far apart they are. A pattern of one step completes only when the next event comes. The callback runs under the
  engine's lock.

CHECK_DEADLOCK is off where behaviours end: the engine after Stop, the checkpoint manager when the
bounds are used up, and in the runs that put components side by side, where
each ends at its bounds.

### Documented claims that do not hold

Three runs above are kept as violations. The modules also state the following claims of the
repository's documents; none of them is an invariant of a run, and TLC refutes each within seconds
when it replaces the properties of the configuration named (with the constants given in brackets). The last
column names what does hold.

| Claim | Property (configuration) | What the code does | Holds instead |
|---|---|---|---|
| "MaxConcurrentRequests in half-open state" (`circuit_breaker.go:45`) | ProbesWithinLimit (`breaker`) | see above | ProbeOverrunBounded |
| "Current state" gauge (`docs/ERROR_HANDLING.md:277`) | GaugeShowsState (`breaker`) | callbacks run in any order, the last writer wins | TransitionsTellState |
| "Idempotent writes" (`README.md:147`) | AppliedOnce (`errors`) | a retry repeats a call that took effect | NothingLost |
| "The DLQ captures events that fail" (`docs/ERROR_HANDLING.md:142`) | FailedCaptured (`errors`) | a full queue drops its oldest | NothingLost |
| "Automatically tracks statistics" (`docs/ERROR_HANDLING.md:173`) | SizeCurrent (`errors`, MaxSize = 0) | the guarded decrement of Delete may come before the increment | TotalsAccount; SizeNeverTooSmall |
| "Exactly-Once Semantics" (`README.md:19`) | CommittedNotLost, AtMostOnce (`engine`) | auto-commit acknowledges unprocessed events; a restart writes again | AtLeastOnce |
| "Advance idle partition watermark" (`manager.go:99`) | MarksMonotone (`watermark`) | an idle partition's mark may go back | MarksJustified |
| "Global (minimum) watermark" (`manager.go:16`) | GlobalIsMinimum (`watermark`) | a late joiner is behind it | MarksJustified |
| "Keep last 5 checkpoints" (`manager.go:48`) | RetentionKept (`checkpoint`, MaxCheckpoints = 1) | files of an earlier process are never removed | NewestSurvives (also checked) |
| "Restores state from checkpoints on failure" (`pkg/state/README.md:363`) | LoadsComplete (`checkpoint`, a PROPERTY) | a torn newest file makes loading fail, and the caller starts fresh | NoRollback, until then |
| "Full state snapshots for checkpoint and recovery" (`pkg/state/README.md:11`) | RestoreWorks (`checkpoint`, UseBackend) | the snapshot is restored as base64 text | |
| "Incremental Checkpoints" (`pkg/state/README.md:12`) | BackendRestored (`checkpoint`, UseBackend, Incremental) | the files after the first hold no backend data | |
| "Coordinated checkpointing" (`README.md:145`) | EffectsOnce (`checkpoint`) | state is read after the offsets | NoEffectLost |
| "Automatic expiration" (`pkg/state/README.md:10`) | MemExpiresOnTime, StaysUntilExpiry (`state`) | Restore drops expiries; a late deletion takes a new value | KeepsPromise |
| "Should be expired" (`pkg/state/state_test.go:223`) | ExpiresOnTime (`state`) | whole seconds | ExpiresWithinASecond |
| "Flush sinks" (`engine.go:416`) | FlushedAtStop (`edges`) | the context is cancelled already | StoredOnce |
| "Restore restores state from a snapshot" (`rocksdb.go:706`), as the memory backend does | RestoreReplaces (`state`) | keys that the snapshot lacks stay | LossExplained |
| "Emit" against "UnregisterSideOutput removes a side output channel" (`side_output.go:61`) | NoEmitFault (`errors`) | the channel is closed between lookup and send: a panic | EmitFaultNeedsOverlap |
| EINVAL under "Fatal errors" (`classification.go:173`) | InvalidArgumentFatal (`errors`) | an errno is a `net.Error` too, and that test comes first: it is retriable | |
| "Total number of successful retries" by category (`error_metrics.go:57`) | RecoveryCategory (`errors`) | the successful attempt has overwritten the last error, so the category is that of a nil error | |
| "Emit to side output if enabled" (`error_handler.go:205`) | SideOutputDespiteDLQ (`errors`) | a failing dead letter queue comes first | FailuresReported |
| "MaxBackoff is the maximum backoff duration" (`retry.go:17`) | BackoffWithinMax (`errors`, BackoffJitter = 1, MaxBackoff = 1) | jitter is added after the limit | HandlingReturns |
| "windowKey generates a unique key" (`window.go:408`) | UniqueKeys (`pipeline`, Size = 1, SecondTicks = 4) | keys hold whole seconds | EventsInTheirWindows |
| "Session windows are merged dynamically" (`window.go:162`) | SessionsMerge (`pipeline`) | nothing merges | |
| "RestoreState restores window state" (`window.go:433`) | WindowsRestored (`pipeline`) | it fills only windows that exist already, and after a restart none does | |
| "OnWatermark handles watermark advancement" (`window.go:357`) | WatermarkReturns (`pipeline`, a purging trigger) | it waits for its own read lock | WatermarkResultsComplete |
| an aggregation that fails changes nothing | FailureKeepsAggregate (`pipeline`) | the accumulator becomes what the failing call returned | EventsInTheirWindows |
| "performs stateful aggregation" (`operators.go:102`) | EveryEventCounted, NoMapFault (`pipeline`) | no lock | LossHasCause |
| "Process routes events to appropriate branches" (`operators.go:235`) | NothingSkipped (`pipeline`) | a full branch drops the event | |
| a pair is emitted once; a row without a partner has none | PairOnce, NullMeansUnmatched (`pipeline`) | both sides find the pair; the row comes before the partner | NoPairMissed |
| "emits unmatched outer join results" (`join.go:316`) | UnmatchedEmitted (`pipeline`, LEFT_OUTER) | it logs them | |
| "LeftOuterJoin emits all left events, with or without matches" (`join/types.go:15`) | LateMatched (`pipeline`) | the window of a late event starts empty | WindowRowsExact |
| "looks up the version valid at event time" (`temporal_join.go:13`) | LookupRightUnordered (`pipeline`) | updates out of order | LookupRight |
| "schema is not compatible with existing versions" (`codec.go:251`) | VersionsCompatible (`pipeline`) | check and registration are two calls | CompatibleUnlessOverlap |
| "0 for latest" (`schema/types.go:175`) | LatestUsed (`pipeline`) | the first version seen stays cached | ReadAsWritten |
| "Update event with validated/normalized value" (`validator.go:55`) | ValidKeepsValue (`pipeline`) | protobuf validation replaces the value | |
| a deleted schema is not used | DeletedNotUsed (`pipeline`) | the caches keep it | ReadAsWritten |
| "Fallback to JSON" (`kafka_source.go:152`) | FallbackYieldsValue (`pipeline`) | the value is taken from the decoder that failed, so it is nil | ReadAsWritten |
| "Flush ensures all messages are sent" (`kafka_sink.go:170`) | FlushSends, AcceptedDelivered (`pipeline`) | nil after the timeout; failures are only logged | |
| "events_ingested" of a batch (`http_source.go:134`) | BatchCountTrue (`edges`) | the length of the batch, dropped events included | HandlersReturn |
| "Stop stops the WebSocket server" (`websocket_source.go:136`) | StopReturns of `Ingestion` (`edges`, a PROPERTY) | a broadcast that hangs in a write keeps the lock that Stop waits for | HandlersReturn |
| "Close all client connections" (`websocket_source.go:141`) | AllClosed, OneWriter (`edges`) | one may come between the loop and Shutdown; broadcasts overlap | HandlersReturn |
| "Update configuration" last (`reload.go:196`) | FailureChangesNothing, CallbacksAgree (`edges`) | callbacks before the failing one keep the new one | ConfigConverges |
| "sources.*" requires a restart (`reload.go:303`) | SourcesFixed (`edges`) | not among the critical settings | |
| "overriding non-zero values" (`loader.go:246`) | MergeKeepsUnset (`edges`) | booleans are always overridden | |
| "Apply defaults for missing values" (`loader.go:50`) | ExplicitZeroKept (`edges`) | a zero that was written counts as missing | |
| versions of ValidateVersion and Validate | VersionsAgree (`edges`) | they accept different ones | |
| "Load initial configuration" (`reload.go:54`) | FirstLoadCurrent (`edges`, a PROPERTY) | the file may change between load and stat | ConfigConverges |
| "Frequency pattern: %s >= %d times" (`pattern.go:356`) | FrequencyCounted (`edges`) | the count is not used | MatchesExact |
| "A -> NOT B -> C" (`pkg/cep/README.md:144`) | NegationMatches (`edges`) | without a constraint the negated step is never left | MatchesExact |
| "checkConditions verifies that conditions between events are satisfied" (`cep/engine.go:386`) | ConditionsHold (`edges`) | skipped when a trailing optional step or a single event completes it | MatchesExact |
| time is event time | LateOccurrencesFound (`edges`) | partial matches time out by the wall clock | MatchesExact |
| "removes events outside the time window" (`pattern.go:92`) | FoundInWindow (`edges`, MaxEventLead = 2) | only events that are too old; those ahead of the clock stay | MatchesExact |
| "AddEvent ... checks for pattern matches" (`pattern.go:70`), "Optional event" (`pkg/cep/README.md:105`) | FoundOnce, MatcherOptional (`edges`; the latter with <<A, Optional(B)>>) | the buffer is searched again each time; an optional step waits for a later event | MatchesExact |
| "Running" with an observed generation (`streamjob_controller.go:635`) | ObservedMeansApplied (`operator`, MaxGeneration = 3) | the workload was compared with a cache that lags, the generation is the new one | JobConverges |
| one job, one workload | OneWorkload (`operator`) | a change of backend leaves the other kind | JobConverges |
| "Sort by creation time and delete oldest" (`checkpoint_controller.go:342`) | RetentionKeepsNewest (`checkpoint`) | nothing sorts | PhasesForward |
| "Checkpoint completed successfully" (`checkpoint_controller.go:181`) | CompletedWasTriggered (`checkpoint`) | ten seconds later it counts as complete, triggered or not | PhasesForward |
| "RestoreFromSavepoint updates a StreamJob to restore" (`savepoint/manager.go:144`) | SavepointThere (`checkpoint`) | retention may have removed it | |
| "Version of the gress image to use" (`streamcluster_types.go:10`) | ClusterImageApplied (`operator`) | only replicas are compared | ClusterConverges |

### Fairness

* `breaker`: calls return, callers come back, the clock runs, a started goroutine runs. Nothing
  forces Reset or the recovery of the service; the property is about what follows recovery.
* `errors`: a goroutine inside Write, Flush or Process that can go on does, and the wrapped sink or
  operator returns. The breaker need not close, a backoff's timer fires, the context need not be
  cancelled.
* `engine`: the scheduler runs every goroutine; a crashed process is started again; operators and
  sinks return; ReadMessage does not time out for ever while the topic has messages (strong
  fairness, because each attempt may time out). `engine_stop` also assumes that Stop goes on and
  that goroutines see the cancelled context: even then it does not return.
* `watermark`: the ticker fires and the loop receives. Go visits a map in random order, so every
  partition is first again and again while the channel has room: strong fairness per partition.
* `pipeline`: the two goroutines of the join and Stop run; nobody need read the output.
* `operator`: a reconciler is called again (every pass asks to be requeued, every error is retried),
  caches catch up, pods start, the garbage collector works. API errors are bounded.
* `edges`: the watcher's ticker fires and a reload that has begun goes on; handlers run; a connection
  that was closed is noticed, and Stop goes on when it has the lock. The HTTP server's read and write
  timeouts of ten seconds are why its handlers get on. Nobody need read the engine's channel, and no
  write to a WebSocket client is assumed to end.
* `rocksdb_close`: the scheduler runs every thread, and Go's mutex hands over to a writer that has
  waited too long.

## 4. Proofs

The eight proof modules assume only the named ASSUMEs of their modules (positive thresholds and sizes, a
finite set of callers or partitions, a clock that starts after IdleTimeout), and TLC evaluates these on
every run. A theorem that needs more has it as a hypothesis, listed below with its reason. Each argument
is an inductive invariant, one lemma per action, and the property read off it.

**`ErrorsProofs`**

* *Breaker.* ProbeOverrunBounded speaks of the probes in flight, which the code does not count. The
  inductive invariant adds ProbeAccounting: slots taken <= MaxConcurrentRequests, slots taken <= probes
  in flight <= slots taken + successes of this period. A request of an earlier period that returns takes
  a slot away and adds a success, which keeps the last sum; with PeriodsStartFresh (successes <
  SuccessThreshold) the bound follows. TypeCorrect, FreshPeriods, NoSlotLeak and OverrunBounded are read
  off it.
* *State-change callbacks.* TransitionsTellState (EveryChangeReported) is inductive with the types: a
  change adds one callback that leads from the old state to the new, a callback that runs moves one unit
  from the waiting ones to the counter.
* *Resilient sink.* BreakerInside: every step of the sink is a step of the breaker in it or leaves the
  breaker alone, so that the theorems about the breaker hold there. NothingLost (NoEventLost) needs
  Hands (an event is in one hand, and what lies ahead of `taken` was neither answered nor applied) and
  AppliedByAttempts (an attempt applies its event at most once).
* *Queue.* The statistics and the queue change under different locks, so the accounts hold only together
  with what each caller still owes. TotalsAccount is inductive with the types; SizeNeverTooSmall is not,
  because the guarded decrement of a Delete comes after the event left the queue: SizeCovers also counts
  the deletions still owed. The proof needs that Delete removes one event (RemovedOne).
* *Error handling operator.* FailuresReported compares an event's fate with what the channels hold.
  Receiving takes one entry away, so it is inductive only with QueuedOnce (no event is twice in the
  channels). EmitFaultNeedsOverlap needs that the registered channel is open and that a channel closed
  under an Emit is on record (ClosedOnRecord).

**`EngineProofs`**

* ConcurrencyBounded and WaitGroupAccounts equate counters with the sizes of sets; dispatching an event
  adds one to both only if no worker of that event is there already. That follows from PipelineOrdered:
  offsets grow strictly from the workers through the loop's hand and the channel to the reader's hand,
  and none exceeds the consumer's position. Lifecycle says that a process that was not started runs
  nothing.
* NothingVanishes (NoEventVanishes) adds Placed (what is in memory or has an outcome is exactly what was
  read since the restart), Counts (the metrics are the sizes of the sets of outcomes) and ReaderSpawned
  (the reader runs only as a started goroutine).
* *Delivery* (EngineImplementsDelivery, OncePerStart, EveryReadAccounted, NothingSkipped). By Placed,
  what is in memory is what was read and has no outcome, so a step is known to the log by what it does
  to the outcomes (StepKinds sorts the steps). The rest is DeliveryInv: an outcome is on record as a
  delivery or as given up (OutcomesTold), this incarnation has added one delivery at most to each event
  (OnePerStart), and what the reader holds, or dropped, is the last event read (LastInHand).
  NothingSkipped has the hypothesis ~EnableAutoCommit, a setting of the Kafka source: with it nothing is
  ever acknowledged and a restart begins at the first offset; without it an event may be acknowledged
  while it is only in memory.

**`EventTimeProofs`**

* *Watermarks.* MarksJustified is inductive together with the types and a clock later than IdleTimeout,
  because events and the clock only move up. The global mark is the minimum of marks that were justified
  when it was taken (MinExists), so that some partition justifies it, and goes on to (GlobalJustified).
* *Assigners.* AssignedAreTheirs: what the arithmetic and the loops compute are exactly the windows that
  hold the time. Its hypothesis `Regular` is 0 <= offset < size, offset < slide and size <= 1001 slides:
  the code corrects an offset by one window only, and the sliding loop breaks off at 1001 windows.
* *Window operator* (WindowsExact, ResultsComplete, under `Regular`). Process counts an event window by
  window without holding the lock in between: an event in process is counted by those of its windows
  that are not still to do (CountedOrTodo). That a watermark emits each window also needs that different
  windows have different keys (`KeysTell`), because the key holds whole seconds only: the hypothesis of
  ResultsComplete.
* *Window join* (JoinRowsExact, under `Regular` and `WholeSeconds`: size, slide and offset are whole
  seconds, and then the keys tell the windows apart, WholeSecondsTell). A window holds all its events
  until the watermark has passed it (OpenHolds), gives what it owes when it is passed (PassedGave), and
  holds none of the events of the rows it gave (RowsGone), which is why late events give no row twice.

**`PipelineProofs`**

* *Keyed operators* (LossAlwaysHasCause). LossHasCause speaks of accumulators; what a store does to them
  depends on a value read before. DoneRead says that such a value holds every event that is done, was
  alone and is not cut off, OverlapsMarked that two events of a key between read and store are both
  marked, and DoneSaved that the last snapshot holds every such event that was not stored since, so that
  a restart, whatever it restores and is given again, cuts off no other event than it says.
* *Stream join.* OneLooks: of two stored events that belong together one has found the other or is about
  to look. Storing before looking establishes it, a look discharges it, and removal only empties the
  premise (RangeOfOnly).
* *Temporal join.* The table is a subsequence of the updates that ends with the latest one and in which
  each version ends where the next update begins (FromUpdates, LatestLast, MissingDropped). The search
  is a recursive function over intervals; SearchSound says that what it finds is valid, and with the
  updates in order no two versions are valid at a time, so that whatever the binary or the linear search
  finds is the right one.
* *Timescale sink* (SingleWriterStoresOnce). The hypothesis `SingleWriter` (one worker) is what the
  property is about: with two, `timescale_race` shows the loss. The batch holds no event twice, the copy
  a transaction works on is the batch, and beyond the rows of commits whose answer was lost, which it
  counts, an event has a row only when it is out of the batch or the truncation is still to come.
* *Schema registry and Kafka.* CheckedStill: a schema found compatible is so with the newest version as
  long as the number of versions it saw is still theirs. AllFaithful: every message, in the producer's
  queue or in the topic, carries the id of the schema it was encoded with, which only ever gets more
  successors.

**`StateProofs`**

* *Memory.* The refinement KeepsPromise, one lemma per action. Restore is the step that needs an
  invariant: what a snapshot holds was the latest value when it was taken (SavedCurrent), which follows
  from the map holding nothing but latest values (DataCurrent). LossHasReason gives MemLossExplained.
* *RocksDB.* DatabaseHolds says of each key which of three forms its bytes have: absent, the prefix of
  the expiry put last and the value, or bytes without a prefix, from which a number of blocks were cut; with SnapshotHolds, AbsenceExplained and
  the bounds of truncation to seconds (UnixBounds), ValueIntact, LossExplained and ExpiresWithinASecond
  follow.
* *Its lock* (WritersExclude, CloseKeepsTheLock), for any number of threads. What a thread holds is
  determined by its method and its step (LocksHeld), a writer is alone (WriterAlone), whoever is parked
  waits for a writer (ParkedWait), and a Close that has the lock is at its own RLock (CloseHeld). The
  run `rocksdb_close` shows that Close does not return; the theorem says that nobody can help it: in
  every step after it the same thread still has the write lock, nobody reads, and the database is open.
  The hypothesis `LockConstants` says what the constants are: the methods are among the four that are
  modelled, and NoThread is not a thread.

**`OperatorProofs`**

* *StreamJob.* NoOrphan holds because while a pass may create the workload the job exists with its
  finalizer (CreatorsKeepJob); that the cache, which may be old, does not let another pass remove it
  needs CacheOfLiveJob, DeletionLasts and DeletionSeen.
* *StreamCluster.* PartsNeverOrphaned says the same of the StatefulSets and Services of both parts, by
  the same argument (CreatorsKeepCluster): the passes of this controller end in more ways, none of which
  reaches a part without the finalizer.
* *Checkpoint.* PhasesForward: a pass holds a copy in the phase its next call is for (PassInPhase), an
  update goes through only if the copy is current, and a triggered checkpoint is past Pending or its
  name is used up (TriggeredOnce).
* *Checkpoint manager.* NoEffectLost speaks of the running process; what carries it over a crash is that
  the offsets of a checkpoint, in the making or on disk, never exceed the provider's state in it
  (DraftSound, FilesSound). RestartsAhead needs more: a newer complete file has offsets at least as high
  (NewestLast), and a checkpoint in the making lies between the complete files and the pipeline's
  position (DraftBetween). Both are about the checkpoints that still stand, that is, made since the last
  load or restore that failed (`abandoned` is the last one before). Recovery takes the newest file, which
  exists (NewestExists).
  NewestNeverRemoved is about cleanupOldCheckpoints, whose list knows only the checkpoints of its own
  process: the list is in the order of creation and behind the number given out last (ListBehind), what
  it lists has a complete file (ListAlwaysOnDisk), a file that was written stays complete until it is
  listed (WrittenComplete), and what cleanup keeps of the list is an end of it. A new file gets a number
  beyond all complete ones, so that none is overwritten.

**`EdgesProofs`**

* *Configuration.* A reload remembers the modification time before it reads the file: what it read may
  be newer than the time, never older (ReadCurrent: what was read under the file's present time is the
  file's content). So a stale configuration is always noticed at the next look (StaleAlwaysNoticed), the
  safety half of ConfigConverges. CallbacksAlwaysFollow needs, callback by callback, who has had its
  turn in the reload that runs (CallbacksInTurn, OneReload, FirstTurn); AlwaysValidated that what a
  reload hands on has passed Validate and the critical settings (AllVetted).
* *Sources.* AcceptedHasEntered: a request counts what it puts into the channel while its handler runs
  (SingleProgress). ListAlwaysFollows is inductive by itself: while a broadcast has
  the lock nobody leaves the list.
* *Patterns* (EngineMatchesExact, MatcherMatchesExact: MatchesExact, whose reference definition assigns
  events to steps). For the engine a partial match is such an assignment for the steps so far, which
  each event extends; that no run of a plain pattern is missed follows from PrefixKept: every beginning
  of the run that is not too old is among the partial matches. The hypothesis `AllFollowable` excludes
  patterns in which the code's skipping of optional steps leaves the reference: an optional last step
  that needs two events skips its conditions, and [A, not B, optional C] completes on a B. `MCEdges`
  assumes it of its patterns, so TLC evaluates it. The matcher's buffer is in the order of arrival
  (pruneOldEvents keeps the order), and its loop over the steps is a recursive function; this theorem
  needs only `PatternsAssumption`. The buffer holds nothing older than the window at the moment of the
  search (`foundAt`), which bounds the distance of two events unless the later one lies ahead of it.

**`SublistProofs`**

* The least element of a set of numbers, what a recursive function on them equals, and what the filtered
  list holds: only elements of the list that pass, all of them, in their order.

What is about recursive functions (the filter of the joins and of the matcher, the binary search, the
matcher's loop) is proved by taking the least element of the set of counterexamples, which the
well-foundedness of the natural numbers provides (LeastOfSet, SetInduction, Recursion); the library's
induction rules, which take a predicate as a parameter, are not used. Writing the proofs also showed
CASE expressions with overlapping guards in the models of the operator, where TLA+ leaves the choice
open; they are IF chains in the code's order now.

Only model-checked: everything about fairness (ClosesAfterRecovery, WriteReturns, HandlingReturns,
AtLeastOnce, MarkReachesEngine, JoinStops, JobConverges, ClusterConverges, ConfigConverges,
HandlersReturn, StopReturns, CloseReturns), which is outside what TLAPS 1.4.5 proves. Every safety
property of the runs that pass has a theorem. `TypeOK` of `TimescaleSink` for more than one worker,
TotalsConserved and Reclaimed hold on the instances above as well. The theorems that no run lists (among
them NewestNeverRemoved, PartsNeverOrphaned and those about configuration and
sources) were also model-checked on the instances of the runs before they were proved.

## 5. Not modelled

Formatting and the bytes of encodings (payloads, schemas, Kafka messages); the SQL layer, whose
parsing and planning are text processing over one query; metrics and tracing, which nothing reads back;
numeric code (models, fraud and sensor scores, KPIs); the Kafka lag scaler, which nothing calls; RocksDB,
Kafka, Timescale, the schema registry and Kubernetes themselves, which appear only as far as the code uses
them; the unsynchronised latency averages of the engine. `CircuitBreakerRegistry` (independent breakers by
name) and the Kafka-backed dead letter queue add no state. CoordinatedCheckpoint is not used by
anything in the repository. Range checks of single settings are one predicate of `Configuration`.

## 6. Plan

1. RocksDB as a second, weaker implementation of `StateBackend`.
2. The inference batch with its timer (`pkg/ml/inference.go`).
