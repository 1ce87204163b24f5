------------------------- MODULE CircuitBreakerSink -------------------------
(***************************************************************************)
(* pkg/stream/circuit_breaker_sink.go around module CircuitBreaker: the    *)
(* callback that NewCircuitBreakerSink and NewResilientSink install, which *)
(* setState and Reset start as a goroutine of its own for every change of  *)
(* state.  Callbacks run in any order, long after the change they report.  *)
(* The calls Write and Flush of the sink are Execute of the breaker.       *)
(***************************************************************************)
EXTENDS CircuitBreaker, Integers, FiniteSetsExt

CONSTANT MaxCallbacks   \* bound: callbacks that have been started and have not run

ASSUME MaxCallbacksAssumption == MaxCallbacks \in Nat \ {0}

VARIABLES
    callbacks,     \* per change, the callback goroutines that have not run
    transitions,   \* CircuitBreakerTransitions, for every state the number of
                   \* transitions counted into it less those counted out of it
    gauge          \* CircuitBreakerState

sinkVars == <<vars, callbacks, transitions, gauge>>

Changes == {c \in [from : States, to : States] : c.from # c.to}
Change(from, to) == [from |-> from, to |-> to]

-----------------------------------------------------------------------------
SinkInit ==
    /\ Init
    /\ callbacks = [c \in Changes |-> 0]
    /\ transitions = [s \in States |-> 0]
    /\ gauge = "closed"

\* The faulty form that does not report the return to the closed state.
NotifyUnlessClosed ==
    callbacks' = IF state # state' /\ state' # "closed"
                 THEN [callbacks EXCEPT ![Change(state, state')] = @ + 1] ELSE callbacks

\* go OnStateChange(name, oldState, newState), if the two differ.
Notify ==
    callbacks' = IF state # state' THEN [callbacks EXCEPT ![Change(state, state')] = @ + 1]
                                   ELSE callbacks

\* A step of the breaker: a Write or Flush of the sink, Reset, or the environment.
BreakerStep(A) ==
    /\ A
    /\ MapThenSumSet(LAMBDA c : callbacks[c], Changes) < MaxCallbacks \/ state' = state
    /\ Notify
    /\ UNCHANGED <<transitions, gauge>>

\* The callback counts the transition and then sets the gauge.
OnStateChange(c) ==
    /\ callbacks[c] > 0
    /\ callbacks' = [callbacks EXCEPT ![c] = @ - 1]
    /\ transitions' = [transitions EXCEPT ![c.from] = @ - 1, ![c.to] = @ + 1]
    /\ gauge' = c.to
    /\ UNCHANGED vars

SinkNext == BreakerStep(Next) \/ \E c \in Changes : OnStateChange(c)

\* Operations return (sinks have timeouts), the clock runs, the engine keeps offering
\* events, so each caller comes back, and a callback that was started is run; nothing
\* forces Reset or Recover.
SinkFairness ==
    /\ \A r \in Requests : /\ WF_sinkVars(BreakerStep(beforeRequest(r)))
                           /\ WF_sinkVars(BreakerStep(afterRequest(r)))
    /\ WF_sinkVars(BreakerStep(Tick))
    /\ \A c \in Changes : WF_sinkVars(OnStateChange(c))

SinkSpec == SinkInit /\ [][SinkNext]_sinkVars /\ SinkFairness

-----------------------------------------------------------------------------
(* Type invariant: the callbacks that wait, the counter and the gauge. *)
SinkTypeOK ==
    /\ callbacks \in [Changes -> Nat]
    /\ transitions \in [States -> Int]
    /\ gauge \in States

\* Callbacks that wait to report a change into a state, and out of it.
Waiting(from, to) == IF from # to THEN callbacks[Change(from, to)] ELSE 0
Entering(s) == Waiting("closed", s) + Waiting("open", s) + Waiting("half-open", s)
Leaving(s) == Waiting(s, "closed") + Waiting(s, "open") + Waiting(s, "half-open")

(* No change of state goes unreported or is reported twice: the transitions counted
   and the callbacks still to run lead from the closed state to the current one.
   When the last callback has run, the counter alone tells the breaker's state. *)
TransitionsTellState ==
    \A s \in States : transitions[s] + Entering(s) + (IF s = "closed" THEN 1 ELSE 0)
                         = Leaving(s) + (IF s = state THEN 1 ELSE 0)

(* "gress_circuit_breaker_state - Current state": when no callback is waiting to
   run, the gauge shows the state of the breaker. *)
GaugeShowsState == (\A c \in Changes : callbacks[c] = 0) => gauge = state
=============================================================================
