---------------------------- MODULE ResilientSink ---------------------------
(***************************************************************************)
(* ResilientSink of pkg/stream/circuit_breaker_sink.go: Write runs the     *)
(* retry loop of pkg/errors/retry.go, every attempt of which goes through  *)
(* the breaker of module CircuitBreaker, and an event that is given up     *)
(* goes to the dead letter queue of pkg/errors/dlq.go.  The engine's       *)
(* workers (Requests) call Write with one event after the other.           *)
(*                                                                         *)
(* The wrapped sink is any sink: a call that returns an error may have     *)
(* taken effect all the same, as a timed-out produce or a batch that keeps *)
(* the event when its commit fails (pkg/sink/timescale_sink.go).           *)
(***************************************************************************)
EXTENDS CircuitBreaker, Sequences

CONSTANTS NumEvents,     \* bound: events the workers write
          MaxAttempts,   \* retryPolicy.MaxAttempts, the finite case
          EnableDLQ,     \* rs.enableDLQ
          DLQSize        \* maxSize of the InMemoryDLQ, 0 for no limit

ASSUME ResilientAssumption ==
    /\ NumEvents \in Nat
    /\ MaxAttempts \in Nat
    /\ EnableDLQ \in BOOLEAN
    /\ DLQSize \in Nat

Events == 1..NumEvents

VARIABLES
    writing,    \* per worker: where its Write is, the event, the attempt
    taken,      \* events handed to Write so far
    ctxDone,    \* the context of the calls is cancelled
    effects,    \* the wrapped sink: how often each event took effect
    answer,     \* what Write returned for each event
    dlq,        \* the events of the dead letter queue
    evicted     \* history: events that a full queue has thrown out

sinkState == <<writing, taken, ctxDone, effects, answer, dlq, evicted>>
allVars == <<vars, sinkState>>

Idle == [pc |-> "idle", event |-> 0, attempt |-> 0]
At(r, pc) == writing[r].pc = pc
Goes(r, pc) == writing' = [writing EXCEPT ![r].pc = pc]
Event(r) == writing[r].event

-----------------------------------------------------------------------------
ResilientInit ==
    /\ Init
    /\ writing = [r \in Requests |-> Idle]
    /\ taken = 0
    /\ ctxDone = FALSE
    /\ effects = [e \in Events |-> 0]
    /\ answer = [e \in Events |-> "none"]
    /\ dlq = <<>>
    /\ evicted = {}

BeginWrite(r) ==
    /\ At(r, "idle")
    /\ taken < NumEvents
    /\ taken' = taken + 1
    /\ writing' = [writing EXCEPT ![r] = [pc |-> "attempt", event |-> taken + 1, attempt |-> 0]]
    /\ UNCHANGED <<vars, ctxDone, effects, answer, dlq, evicted>>

(***************************************************************************)
(* ExecuteWithCallback.                                                    *)
(***************************************************************************)
\* What the loop does with the error of an attempt.
AfterError(r, retriable) ==
    IF ~retriable \/ writing[r].attempt >= MaxAttempts THEN "giveup" ELSE "backoff"

\* beforeRequest of the breaker; its own errors count as retriable (ClassifyError).
Attempt(r) ==
    /\ At(r, "attempt")
    /\ beforeRequest(r)
    /\ Goes(r, IF inflight'[r] = "idle" THEN AfterError(r, TRUE) ELSE "operation")
    /\ UNCHANGED <<taken, ctxDone, effects, answer, dlq, evicted>>

\* The wrapped Write has returned nil, and so does Write.
Succeeded(r) ==
    /\ At(r, "operation")
    /\ onSuccess(r)
    /\ effects' = [effects EXCEPT ![Event(r)] = @ + 1]
    /\ answer' = [answer EXCEPT ![Event(r)] = "ok"]
    /\ writing' = [writing EXCEPT ![r] = Idle]
    /\ UNCHANGED <<taken, ctxDone, dlq, evicted>>

\* It has returned an error, of a class that is retriable or not.
FailedAttempt(r, retriable, tookEffect) ==
    /\ At(r, "operation")
    /\ onFailure(r)
    /\ effects' = [effects EXCEPT ![Event(r)] = IF tookEffect THEN @ + 1 ELSE @]
    /\ Goes(r, AfterError(r, retriable))
    /\ UNCHANGED <<taken, ctxDone, answer, dlq, evicted>>

\* The faulty form that does not count the attempts.
BackoffForgetful(r) ==
    /\ At(r, "backoff")
    /\ Goes(r, "attempt")
    /\ UNCHANGED <<vars, taken, ctxDone, effects, answer, dlq, evicted>>

Backoff(r) ==
    /\ At(r, "backoff")
    /\ writing' = [writing EXCEPT ![r].pc = "attempt", ![r].attempt = @ + 1]
    /\ UNCHANGED <<vars, taken, ctxDone, effects, answer, dlq, evicted>>

\* <-ctx.Done() wins the select of the backoff.
BackoffCancelled(r) ==
    /\ At(r, "backoff")
    /\ ctxDone
    /\ Goes(r, "giveup")
    /\ UNCHANGED <<vars, taken, ctxDone, effects, answer, dlq, evicted>>

(***************************************************************************)
(* The rest of Write after a failed retry loop.                            *)
(***************************************************************************)
\* The faulty form that drops the new event when the queue is full.
CaptureUnlessFull(e) ==
    /\ dlq' = IF DLQSize > 0 /\ Len(dlq) >= DLQSize THEN dlq ELSE Append(dlq, e)
    /\ UNCHANGED evicted

\* InMemoryDLQ.Write: a full queue loses its oldest event.
Capture(e) ==
    IF DLQSize > 0 /\ Len(dlq) >= DLQSize
    THEN dlq' = Append(Tail(dlq), e) /\ evicted' = evicted \cup {Head(dlq)}
    ELSE dlq' = Append(dlq, e) /\ UNCHANGED evicted

GiveUp(r) ==
    /\ At(r, "giveup")
    /\ IF EnableDLQ THEN Capture(Event(r)) ELSE UNCHANGED <<dlq, evicted>>
    /\ answer' = [answer EXCEPT ![Event(r)] = "error"]
    /\ writing' = [writing EXCEPT ![r] = Idle]
    /\ UNCHANGED <<vars, taken, ctxDone, effects>>

Write(r) ==
    \/ BeginWrite(r)
    \/ Attempt(r)
    \/ Succeeded(r)
    \/ \E retriable, tookEffect \in BOOLEAN : FailedAttempt(r, retriable, tookEffect)
    \/ Backoff(r)
    \/ BackoffCancelled(r)
    \/ GiveUp(r)

\* Flush is one Execute of the breaker, without retries.
BeginFlush(r) ==
    /\ At(r, "idle")
    /\ beforeRequest(r)
    /\ Goes(r, IF inflight'[r] = "idle" THEN "idle" ELSE "flush")
    /\ UNCHANGED <<taken, ctxDone, effects, answer, dlq, evicted>>

EndFlush(r) ==
    /\ At(r, "flush")
    /\ afterRequest(r)
    /\ Goes(r, "idle")
    /\ UNCHANGED <<taken, ctxDone, effects, answer, dlq, evicted>>

Flush(r) == BeginFlush(r) \/ EndFlush(r)

Cancel ==
    /\ ~ctxDone
    /\ ctxDone' = TRUE
    /\ UNCHANGED <<vars, writing, taken, effects, answer, dlq, evicted>>

Environment == (Reset \/ Tick \/ Recover) /\ UNCHANGED sinkState

ResilientNext ==
    \/ \E r \in Requests : Write(r) \/ Flush(r)
    \/ Cancel
    \/ Environment

\* A goroutine that can run is run and the wrapped sink returns; nothing makes the
\* circuit close or the service recover.
ResilientFairness ==
    \A r \in Requests :
        /\ WF_allVars(Write(r) /\ ~At(r, "idle"))
        /\ WF_allVars(EndFlush(r))

ResilientSpec == ResilientInit /\ [][ResilientNext]_allVars
ResilientFairSpec == ResilientSpec /\ ResilientFairness

-----------------------------------------------------------------------------
PCs == {"idle", "attempt", "operation", "backoff", "giveup", "flush"}

(* Type invariant: the calls of Write, the wrapped sink and the queue. *)
ResilientTypeOK ==
    /\ TypeOK
    /\ writing \in [Requests -> [pc : PCs, event : 0..NumEvents, attempt : 0..MaxAttempts]]
    /\ taken \in 0..NumEvents
    /\ ctxDone \in BOOLEAN
    /\ effects \in [Events -> 0..(MaxAttempts + 1)]
    /\ answer \in [Events -> {"none", "ok", "error"}]
    /\ dlq \in Seq(Events)
    /\ evicted \subseteq Events

InDLQ(e) == \E i \in 1..Len(dlq) : dlq[i] = e
InHand(e) == \E r \in Requests : Event(r) = e

(* No event handed to Write gets lost between the retry loop, the breaker and the
   queue: it is in the hand of a worker, took effect, or was given up with an error,
   and then it went to the dead letter queue, once, if there is one. *)
NothingLost ==
    /\ \A e \in 1..taken : InHand(e) <=> answer[e] = "none"
    /\ \A e \in Events : answer[e] = "ok" => effects[e] > 0
    /\ \A e \in Events : EnableDLQ => (answer[e] = "error" <=> InDLQ(e) \/ e \in evicted)
    /\ \A i, j \in 1..Len(dlq) : i # j => dlq[i] # dlq[j]

(* A Write returns, with nil or an error, even if the service never recovers and the
   circuit stays open. *)
WriteReturns == \A e \in Events : taken >= e ~> answer[e] # "none"

(* "Idempotent writes": an event takes effect on the wrapped sink once. *)
AppliedOnce == \A e \in Events : effects[e] <= 1

(* "The DLQ captures events that fail processing after all retry attempts are
   exhausted": an event that was given up is in the queue. *)
FailedCaptured == EnableDLQ => \A e \in Events : answer[e] = "error" => InDLQ(e)
=============================================================================
