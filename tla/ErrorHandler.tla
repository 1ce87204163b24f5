---------------------------- MODULE ErrorHandler ----------------------------
(***************************************************************************)
(* pkg/stream/error_handler.go over pkg/errors/retry.go, classification.go *)
(* and side_output.go: an operator is retried, and an event it fails for   *)
(* goes to the dead letter queue and to the error side output.  Emit reads *)
(* the channel under the collector's lock and sends after it, while others *)
(* register, unregister and close.                                         *)
(***************************************************************************)
EXTENDS Integers, Sequences, FiniteSets, FiniteSetsExt

CONSTANTS HandledEvents,
          EngineConfigs,   \* EngineErrorConfigs: retries (0 none, -1 for ever), dlq, side
          OperatorErrors,  \* the errors an operator returns: sets of features
          InitialBackoff, MaxBackoff, BackoffJitter,
          SideSize,        \* capacity of a side output channel
          MaxSideChannels, \* bound: channels registered
          RetryBound       \* bound: attempts of a policy without a limit

ASSUME ErrorHandlerAssumption ==
    /\ \A c \in EngineConfigs : /\ c.retries \in Int /\ c.side \in BOOLEAN
                                /\ c.dlq \in {"memory", "file", "null"}
    /\ InitialBackoff \in Nat /\ MaxBackoff \in Nat /\ BackoffJitter \in Nat
    /\ SideSize \in Nat \ {0} /\ MaxSideChannels \in Nat \ {0} /\ RetryBound \in Nat

VARIABLES
    engineConfig,
    handled,    \* per event: where its Process is, attempts made, category of the last error
    captured,   \* event -> the retry count the dead letter queue has for it
    sideOutput, \* the channel registered for the error tag, 0 for none
    sideChans,  \* the channels: what is in them, whether closed, whether read
    sideEnabled,
    sideFate,   \* event -> what became of its side output event
    retrySuccesses, \* categories RetrySuccesses was counted under, with the category retried
    handlerCtx, \* "live" or "cancelled"
    overlap,    \* history: a channel was closed while an Emit held it
    sideFault   \* a send on a closed channel

handlerVars == <<engineConfig, handled, captured, sideOutput, sideChans, sideEnabled, sideFate,
                 retrySuccesses, handlerCtx, overlap, sideFault>>

-----------------------------------------------------------------------------
(* classification.go: the first check that applies decides.                *)

Checks == <<
    <<"classified retriable", "retriable">>, <<"classified fatal", "fatal">>,
    <<"classified transient", "transient">>,
    <<"canceled", "fatal">>, <<"deadline", "retriable">>, <<"eof", "retriable">>,
    <<"net timeout", "retriable">>, <<"net temporary", "transient">>, <<"net", "retriable">>,
    <<"says connection", "retriable">>, <<"says invalid", "fatal">>,
    <<"says timeout", "retriable">> >>

\* A syscall.Errno has the methods of net.Error, so that classifySyscallError is not
\* reached: these are its features.
Errno(e) ==
    IF e \in {"EAGAIN", "EWOULDBLOCK", "ETIMEDOUT"} THEN {e, "net", "net temporary", "net timeout"}
    ELSE IF e \in {"EMFILE", "ENFILE"} THEN {e, "net", "net temporary"}
    ELSE {e, "net"}

ClassifyError(err) ==
    LET hits == {i \in DOMAIN Checks : Checks[i][1] \in err}
    IN  IF hits = {} THEN "retriable" ELSE Checks[Min(hits)][2]

IsRetriable(category) == category \in {"retriable", "transient"}

-----------------------------------------------------------------------------
(* error_config.go and retry.go.                                           *)

\* CreateRetryPolicy: without retries there is no RetriableFunc either.
MaxAttemptsOf(c) == c.retries

\* calculateBackoff: the cap comes before the jitter.
calculateBackoff(attempt) ==
    LET raw == Min({InitialBackoff * 2 ^ attempt, MaxBackoff})
    IN  IF BackoffJitter > 0 THEN {raw - BackoffJitter, raw, raw + BackoffJitter} \cap Nat ELSE {raw}

NewCall == [at |-> "new", attempts |-> 0, category |-> "none", wait |-> 0, chan |-> 0]

NewChannel == [queue |-> <<>>, closed |-> FALSE, read |-> FALSE]

\* CreateSideOutputCollector registers a channel when error side outputs are on.
ErrorHandlerInit ==
    /\ engineConfig \in EngineConfigs
    /\ handled = [e \in HandledEvents |-> NewCall]
    /\ captured = [e \in {} |-> 0]
    /\ sideChans = IF engineConfig.side THEN <<NewChannel>> ELSE <<>>
    /\ sideOutput = IF engineConfig.side THEN 1 ELSE 0
    /\ sideEnabled = TRUE
    /\ sideFate = [e \in HandledEvents |-> "none"]
    /\ retrySuccesses = {}
    /\ handlerCtx = "live"
    /\ overlap = FALSE
    /\ sideFault = FALSE

Step(e, at) == handled' = [handled EXCEPT ![e].at = at]
Unmoved == UNCHANGED <<engineConfig, sideChans, sideOutput, sideEnabled, handlerCtx, overlap, sideFault>>

StartHandling(e) ==
    /\ handled[e].at = "new"
    /\ Step(e, "operator")
    /\ Unmoved /\ UNCHANGED <<captured, sideFate, retrySuccesses>>

\* The operator succeeds; the error of the last attempt is nil by then, and
\* ClassifyError takes nil for fatal.
OperatorSucceeds(e) ==
    /\ handled[e].at = "operator"
    /\ handled' = [handled EXCEPT ![e].at = "ok", ![e].attempts = @ + 1]
    /\ retrySuccesses' = IF handled[e].attempts > 0
                    THEN retrySuccesses \cup {<<"fatal", handled[e].category>>} ELSE retrySuccesses
    /\ Unmoved /\ UNCHANGED <<captured, sideFate>>

OperatorFails(e, err) ==
    LET max == MaxAttemptsOf(engineConfig)
        category == ClassifyError(err)
        n == handled[e].attempts + 1
        over == max = 0 \/ ~IsRetriable(category) \/ (max >= 0 /\ n > max)
    IN  /\ handled[e].at = "operator"
        /\ \E wait \in calculateBackoff(n - 1) :
            handled' = [handled EXCEPT ![e] =
                          [@ EXCEPT !.attempts = IF max < 0 /\ n > RetryBound THEN RetryBound ELSE n,
                                    !.category = category,
                                    !.at = IF over THEN "failed" ELSE "backoff",
                                    !.wait = IF over THEN 0 ELSE wait]]
        /\ Unmoved /\ UNCHANGED <<captured, sideFate, retrySuccesses>>

\* The faulty form of the select that waits for the timer only.
BackoffEndsTimer(e) ==
    /\ handled[e].at = "backoff"
    /\ Step(e, "operator")

\* The timer, or the context, whose error is fatal when it was cancelled; a select
\* that is entered with the context cancelled does not wait.
BackoffEnds(e) ==
    /\ handled[e].at = "backoff"
    /\ \/ handlerCtx = "live" /\ Step(e, "operator")
       \/ handlerCtx = "cancelled"
          /\ handled' = [handled EXCEPT ![e].at = "failed", ![e].category = ClassifyError({"canceled"})]

HandlerBackoff(e) == BackoffEnds(e) /\ Unmoved /\ UNCHANGED <<captured, sideFate, retrySuccesses>>

\* The faulty form that returns when the event is in the queue.
WriteDLQThenReturn(e) ==
    /\ handled[e].at = "failed"
    /\ Unmoved /\ UNCHANGED <<sideFate, retrySuccesses>>
    /\ captured' = [x \in DOMAIN captured \cup {e} |->
                       IF x = e THEN handled[e].attempts ELSE captured[x]]
    /\ Step(e, "error")

\* handleError, as far as the queue; the file queue fails for values that cannot be
\* marshalled and keeps nothing.
WriteDLQ(e) ==
    /\ handled[e].at = "failed"
    /\ Unmoved /\ UNCHANGED <<sideFate, retrySuccesses>>
    /\ \/ /\ captured' = IF engineConfig.dlq = "memory"
                         THEN [x \in DOMAIN captured \cup {e} |->
                                 IF x = e THEN handled[e].attempts ELSE captured[x]]
                         ELSE captured
          /\ Step(e, IF engineConfig.side THEN "emit" ELSE "error")
       \/ engineConfig.dlq = "file" /\ Step(e, "error") /\ UNCHANGED captured

\* Emit reads enabled and the channel.
EmitLookup(e) ==
    /\ handled[e].at = "emit"
    /\ IF sideEnabled /\ sideOutput # 0
       THEN handled' = [handled EXCEPT ![e].at = "send", ![e].chan = sideOutput] /\ UNCHANGED sideFate
       ELSE Step(e, "error") /\ sideFate' = [sideFate EXCEPT ![e] = "no output"]
    /\ Unmoved /\ UNCHANGED <<captured, retrySuccesses>>

\* Emit sends: select takes any case that is ready, and a send on a closed channel is
\* a panic.
EmitSend(e) ==
    LET c == handled[e].chan IN
    /\ handled[e].at = "send"
    /\ Step(e, "error")
    /\ \/ sideChans[c].closed /\ sideFault' = TRUE
          /\ sideFate' = [sideFate EXCEPT ![e] = "fault"] /\ UNCHANGED sideChans
       \/ ~sideChans[c].closed /\ Len(sideChans[c].queue) < SideSize
          /\ sideChans' = [sideChans EXCEPT ![c].queue = Append(@, e)]
          /\ sideFate' = [sideFate EXCEPT ![e] = "sent"] /\ UNCHANGED sideFault
       \/ ~sideChans[c].closed /\ handlerCtx = "cancelled"
          /\ sideFate' = [sideFate EXCEPT ![e] = "cancelled"] /\ UNCHANGED <<sideChans, sideFault>>
       \/ ~sideChans[c].closed /\ Len(sideChans[c].queue) = SideSize
          /\ sideFate' = [sideFate EXCEPT ![e] = "full"] /\ UNCHANGED <<sideChans, sideFault>>
    /\ UNCHANGED <<engineConfig, captured, sideOutput, sideEnabled, retrySuccesses, handlerCtx, overlap>>

HandlerRuns(e) ==
    \/ OperatorSucceeds(e)
    \/ \E err \in OperatorErrors : OperatorFails(e, err)
    \/ HandlerBackoff(e) \/ WriteDLQ(e) \/ EmitLookup(e) \/ EmitSend(e)

-----------------------------------------------------------------------------
(* The collector's other callers.                                          *)

Collector(chans, out) ==
    /\ sideChans' = chans /\ sideOutput' = out
    /\ UNCHANGED <<engineConfig, handled, captured, sideFate, retrySuccesses, handlerCtx, sideFault>>

\* A channel that is replaced stays open.
RegisterSideOutput ==
    /\ Len(sideChans) < MaxSideChannels
    /\ Collector(Append(sideChans, NewChannel), Len(sideChans) + 1)
    /\ UNCHANGED <<sideEnabled, overlap>>

\* StartSideOutputProcessor, for a channel that is there.
StartProcessor ==
    /\ sideOutput # 0 /\ ~sideChans[sideOutput].read
    /\ Collector([sideChans EXCEPT ![sideOutput].read = TRUE], sideOutput)
    /\ UNCHANGED <<sideEnabled, overlap>>

Held(c) == \E e \in HandledEvents : handled[e].at = "send" /\ handled[e].chan = c

\* The faulty form that leaves the closed channel in the map.
UnregisterKeepsChannel ==
    /\ sideOutput # 0 /\ ~sideChans[sideOutput].closed
    /\ overlap' = (overlap \/ Held(sideOutput))
    /\ Collector([sideChans EXCEPT ![sideOutput].closed = TRUE], sideOutput)

Unregister ==
    /\ sideOutput # 0
    /\ overlap' = (overlap \/ Held(sideOutput))
    /\ Collector([sideChans EXCEPT ![sideOutput].closed = TRUE], 0)

UnregisterSideOutput == Unregister /\ UNCHANGED sideEnabled
CloseCollector == Unregister /\ sideEnabled' = FALSE

SetEnabled ==
    /\ sideEnabled' = ~sideEnabled
    /\ Collector(sideChans, sideOutput)
    /\ UNCHANGED overlap

\* The goroutine of a processor receives an event; it stops with the context.
ProcessSideOutput(c) ==
    LET e == Head(sideChans[c].queue) IN
    /\ sideChans[c].read /\ sideChans[c].queue # <<>>
    /\ sideChans' = [sideChans EXCEPT ![c].queue = Tail(@)]
    /\ sideFate' = [sideFate EXCEPT ![e] = "handled"]
    /\ UNCHANGED <<engineConfig, handled, captured, sideOutput, sideEnabled, retrySuccesses, handlerCtx,
                   overlap, sideFault>>

CancelHandler ==
    /\ handlerCtx = "live"
    /\ handlerCtx' = "cancelled"
    /\ UNCHANGED <<engineConfig, handled, captured, sideOutput, sideChans, sideEnabled, sideFate,
                   retrySuccesses, overlap, sideFault>>

ErrorHandlerNext ==
    \/ \E e \in HandledEvents : StartHandling(e) \/ HandlerRuns(e)
    \/ RegisterSideOutput \/ StartProcessor \/ UnregisterSideOutput \/ CloseCollector \/ SetEnabled
    \/ \E c \in DOMAIN sideChans : ProcessSideOutput(c)
    \/ CancelHandler

\* A Process that was called goes on: the operator returns and timers fire.
ErrorHandlerFairness == \A e \in HandledEvents : WF_handlerVars(HandlerRuns(e))

ErrorHandlerSpec == ErrorHandlerInit /\ [][ErrorHandlerNext]_handlerVars /\ ErrorHandlerFairness

-----------------------------------------------------------------------------
InSideChannel(e) == \E c \in DOMAIN sideChans : \E i \in DOMAIN sideChans[c].queue : sideChans[c].queue[i] = e

(* No failure is swallowed: an event whose Process returned the error has been written
   to the dead letter queue with the attempts it took, and its side output event is in
   a channel or with a handler, or there is a reason: the queue failed, nobody has
   registered, the channel was full or closed, or the context cancelled. *)
FailuresReported ==
    \A e \in HandledEvents : handled[e].at = "error" =>
        /\ engineConfig.dlq = "memory" =>
             e \in DOMAIN captured /\ captured[e] = handled[e].attempts
        /\ engineConfig.side /\ sideFate[e] = "none" => engineConfig.dlq = "file"
        /\ sideFate[e] = "sent" <=> InSideChannel(e)

(* An Emit sends on a closed channel only if the channel was closed after this Emit
   had looked it up: what is unregistered is not found again. *)
EmitFaultNeedsOverlap == sideFault => overlap

(* Once the context is cancelled every Process that was called returns, those under a
   policy without a limit too. *)
HandlingReturns ==
    \A e \in HandledEvents :
        handlerCtx = "cancelled" /\ handled[e].at # "new" ~> handled[e].at \in {"ok", "error"}

-----------------------------------------------------------------------------
(* "UnregisterSideOutput removes a side output channel": that never hurts an Emit. *)
NoEmitFault == ~sideFault

(* "MaxBackoff is the maximum backoff duration" *)
BackoffWithinMax == \A e \in HandledEvents : handled[e].wait <= MaxBackoff

(* "Fatal errors" of classifySyscallError are not retried. *)
InvalidArgumentFatal == ClassifyError(Errno("EINVAL")) = "fatal"

(* "Total number of successful retries", by the category that was retried. *)
RecoveryCategory == \A r \in retrySuccesses : r[1] = r[2]

(* "Emit to side output if enabled", whatever the dead letter queue does. *)
SideOutputDespiteDLQ ==
    \A e \in HandledEvents : handled[e].at = "error" /\ engineConfig.side => sideFate[e] # "none"
=============================================================================
