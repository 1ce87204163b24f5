--------------------------- MODULE CircuitBreaker ---------------------------
(***************************************************************************)
(* pkg/errors/circuit_breaker.go: the breaker that wraps every call of a   *)
(* sink.  Execute is two critical sections of cb.mu, beforeRequest and     *)
(* afterRequest, with the wrapped operation running unlocked in between;   *)
(* any number of goroutines are between the two, and the state they were   *)
(* admitted in may be gone when they come back.                            *)
(*                                                                         *)
(* Time: the code only compares time.Since(lastFailureTime) with Timeout,  *)
(* so lastFailureTime is kept as the age of the last failure, saturated at *)
(* Timeout + 1 (the zero time.Time of a new breaker has that age too).     *)
(***************************************************************************)
EXTENDS Naturals, FiniteSets

CONSTANTS Requests,              \* goroutines that call Execute, each again and again
          FailureThreshold,
          SuccessThreshold,
          Timeout,
          MaxConcurrentRequests,
          CounterModulus         \* the statistics counters wrap at this value (2^64)

ASSUME ConfigAssumption ==
    /\ FailureThreshold \in Nat \ {0}
    /\ SuccessThreshold \in Nat \ {0}
    /\ MaxConcurrentRequests \in Nat \ {0}
    /\ Timeout \in Nat

ASSUME RequestsAssumption == IsFiniteSet(Requests)

ASSUME CounterAssumption == CounterModulus \in Nat \ {0}

VARIABLES
    state,             \* cb.state
    failureCount,      \* cb.failureCount
    successCount,      \* cb.successCount
    halfOpenRequests,  \* cb.halfOpenRequests
    failureAge,        \* age of cb.lastFailureTime
    inflight,          \* where each caller is: idle, or inside the operation
    recovered,         \* environment: from now on every operation succeeds
    totals             \* totalRequests, totalFailures, totalSuccesses, and the
                       \* number of calls answered with an error of the breaker

breaker == <<state, failureCount, successCount, halfOpenRequests, failureAge>>
vars == <<breaker, inflight, recovered, totals>>

States == {"closed", "open", "half-open"}

\* A caller inside its operation was admitted by a closed circuit ("normal"), in
\* the current half-open period ("probe"), or before the last change of state.
Phases == {"idle", "normal", "probe", "stale"}

Statistics == {"requests", "failures", "successes", "rejected"}

Busy == {r \in Requests : inflight[r] # "idle"}
Probes == {r \in Requests : inflight[r] = "probe"}

\* The callers still inside their operation belong to a period that is over.
Retired == [r \in Requests |-> IF inflight[r] = "idle" THEN "idle" ELSE "stale"]

Expired == failureAge > Timeout

Bump(f) == totals' = [totals EXCEPT ![f] = (@ + 1) % CounterModulus]

-----------------------------------------------------------------------------
Init ==
    /\ state = "closed"
    /\ failureCount = 0
    /\ successCount = 0
    /\ halfOpenRequests = 0
    /\ failureAge = Timeout + 1
    /\ inflight = [r \in Requests |-> "idle"]
    /\ recovered = FALSE
    /\ totals = [f \in Statistics |-> 0]

(***************************************************************************)
(* beforeRequest, one action per outcome.                                  *)
(***************************************************************************)
AdmitClosed(r) ==
    /\ inflight[r] = "idle"
    /\ state = "closed"
    /\ inflight' = [inflight EXCEPT ![r] = "normal"]
    /\ Bump("requests")
    /\ UNCHANGED <<breaker, recovered>>

\* Open and the timeout has elapsed: this caller becomes the first probe.
AdmitFirstProbe(r) ==
    /\ inflight[r] = "idle"
    /\ state = "open"
    /\ Expired
    /\ state' = "half-open"
    /\ halfOpenRequests' = 1
    /\ inflight' = [Retired EXCEPT ![r] = "probe"]
    /\ Bump("requests")
    /\ UNCHANGED <<failureCount, successCount, failureAge, recovered>>

\* The faulty form that admits one request too many in half-open.
AdmitProbeOffByOne(r) ==
    /\ inflight[r] = "idle"
    /\ state = "half-open"
    /\ halfOpenRequests <= MaxConcurrentRequests
    /\ halfOpenRequests' = halfOpenRequests + 1
    /\ inflight' = [inflight EXCEPT ![r] = "probe"]
    /\ Bump("requests")
    /\ UNCHANGED <<state, failureCount, successCount, failureAge, recovered>>

AdmitProbe(r) ==
    /\ inflight[r] = "idle"
    /\ state = "half-open"
    /\ halfOpenRequests < MaxConcurrentRequests
    /\ halfOpenRequests' = halfOpenRequests + 1
    /\ inflight' = [inflight EXCEPT ![r] = "probe"]
    /\ Bump("requests")
    /\ UNCHANGED <<state, failureCount, successCount, failureAge, recovered>>

\* ErrCircuitOpen or ErrTooManyRequests; the request was counted before.
Reject(r) ==
    /\ inflight[r] = "idle"
    /\ \/ state = "open" /\ ~Expired
       \/ state = "half-open" /\ halfOpenRequests >= MaxConcurrentRequests
    /\ totals' = [totals EXCEPT !.requests = (@ + 1) % CounterModulus,
                                !.rejected = (@ + 1) % CounterModulus]
    /\ UNCHANGED <<breaker, inflight, recovered>>

beforeRequest(r) ==
    \/ AdmitClosed(r)
    \/ AdmitFirstProbe(r)
    \/ AdmitProbe(r)
    \/ Reject(r)

(***************************************************************************)
(* afterRequest: onSuccess and onFailure by the state found on return.     *)
(***************************************************************************)
SuccessClosed ==
    /\ state = "closed"
    /\ failureCount' = 0
    /\ UNCHANGED <<state, successCount, halfOpenRequests>>

SuccessCloses ==
    /\ state = "half-open"
    /\ successCount + 1 >= SuccessThreshold
    /\ state' = "closed"
    /\ failureCount' = 0
    /\ successCount' = 0
    /\ halfOpenRequests' = 0

\* The faulty form that keeps the slot of a finished probe.
SuccessKeepsSlot ==
    /\ state = "half-open"
    /\ successCount + 1 < SuccessThreshold
    /\ successCount' = successCount + 1
    /\ UNCHANGED <<state, failureCount, halfOpenRequests>>

SuccessProbe ==
    /\ state = "half-open"
    /\ successCount + 1 < SuccessThreshold
    /\ successCount' = successCount + 1
    /\ halfOpenRequests' = IF halfOpenRequests > 0 THEN halfOpenRequests - 1
                                                   ELSE halfOpenRequests
    /\ UNCHANGED <<state, failureCount>>

SuccessOpen ==
    /\ state = "open"
    /\ UNCHANGED <<state, failureCount, successCount, halfOpenRequests>>

onSuccess(r) ==
    /\ inflight[r] # "idle"
    /\ SuccessClosed \/ SuccessCloses \/ SuccessProbe \/ SuccessOpen
    /\ inflight' = [(IF state' = state THEN inflight ELSE Retired) EXCEPT ![r] = "idle"]
    /\ Bump("successes")
    /\ UNCHANGED <<failureAge, recovered>>

FailureClosed ==
    /\ state = "closed"
    /\ failureCount' = failureCount + 1
    /\ IF failureCount + 1 >= FailureThreshold
       THEN state' = "open" /\ successCount' = 0
       ELSE UNCHANGED <<state, successCount>>
    /\ UNCHANGED halfOpenRequests

\* The faulty form that remembers the successes of the failed period.
FailureKeepsSuccesses ==
    /\ state = "half-open"
    /\ state' = "open"
    /\ halfOpenRequests' = 0
    /\ UNCHANGED <<failureCount, successCount>>

FailureHalfOpen ==
    /\ state = "half-open"
    /\ state' = "open"
    /\ successCount' = 0
    /\ halfOpenRequests' = 0
    /\ UNCHANGED failureCount

\* A late failure while open only restarts the timeout.
FailureOpen ==
    /\ state = "open"
    /\ UNCHANGED <<state, failureCount, successCount, halfOpenRequests>>

onFailure(r) ==
    /\ inflight[r] # "idle"
    /\ ~recovered
    /\ failureAge' = 0
    /\ FailureClosed \/ FailureHalfOpen \/ FailureOpen
    /\ inflight' = [(IF state' = state THEN inflight ELSE Retired) EXCEPT ![r] = "idle"]
    /\ Bump("failures")
    /\ UNCHANGED recovered

afterRequest(r) == onSuccess(r) \/ onFailure(r)

(***************************************************************************)
(* Reset, called at any time through ResetCircuitBreaker or the registry.  *)
(***************************************************************************)
Reset ==
    /\ state' = "closed"
    /\ failureCount' = 0
    /\ successCount' = 0
    /\ halfOpenRequests' = 0
    /\ inflight' = IF state = "closed" THEN inflight ELSE Retired
    /\ UNCHANGED <<failureAge, recovered, totals>>

(***************************************************************************)
(* The environment: time passes, and the wrapped service may recover.      *)
(***************************************************************************)
Tick ==
    /\ ~Expired
    /\ failureAge' = failureAge + 1
    /\ UNCHANGED <<state, failureCount, successCount, halfOpenRequests,
                   inflight, recovered, totals>>

Recover ==
    /\ ~recovered
    /\ recovered' = TRUE
    /\ UNCHANGED <<breaker, inflight, totals>>

Execute(r) == beforeRequest(r) \/ afterRequest(r)

Next ==
    \/ \E r \in Requests : Execute(r)
    \/ Reset
    \/ Tick
    \/ Recover

Spec == Init /\ [][Next]_vars

-----------------------------------------------------------------------------
(* Type invariant: the states of the CircuitBreaker struct. *)
TypeOK ==
    /\ state \in States
    /\ failureCount \in Nat
    /\ successCount \in Nat
    /\ halfOpenRequests \in Nat
    /\ failureAge \in 0..(Timeout + 1)
    /\ inflight \in [Requests -> Phases]
    /\ recovered \in BOOLEAN
    /\ totals \in [Statistics -> 0..(CounterModulus - 1)]

(* The counters that decide a transition restart with every period: a closed
   circuit is below its failure threshold, a half-open one below its success
   threshold, and outside half-open neither a success nor a slot is carried
   over (onSuccess, onFailure and Reset together). *)
PeriodsStartFresh ==
    /\ state = "closed" => failureCount < FailureThreshold
    /\ state = "half-open" => successCount < SuccessThreshold
    /\ state # "half-open" => successCount = 0 /\ halfOpenRequests = 0

(* No slot leaks: every half-open slot that beforeRequest finds taken belongs to
   a probe still inside its operation, so the circuit cannot reject everybody
   while nobody is testing the service. *)
SlotsBackedByProbes ==
    state = "half-open" => halfOpenRequests <= Cardinality(Probes)

(* The probes that really run at once: a request of an earlier period that
   returns in half-open frees a slot it never took, but it also counts as a
   success, so the overrun stays below the success threshold. *)
ProbeOverrunBounded ==
    state = "half-open" =>
        Cardinality(Probes) <= MaxConcurrentRequests + SuccessThreshold - 1

(* The statistics account for every call: each one was rejected, has returned, or
   is inside its operation, modulo the width of the counters. *)
TotalsConserved ==
    totals.requests =
        (totals.rejected + totals.failures + totals.successes + Cardinality(Busy))
            % CounterModulus

(* Once the service answers every operation again, the circuit closes: a late
   answer, a rejected caller or a lost slot can delay it, never prevent it. *)
ClosesAfterRecovery == recovered ~> state = "closed"

(* What the configuration says of MaxConcurrentRequests: in half-open, at most
   that many requests are testing the service at the same time. *)
ProbesWithinLimit ==
    state = "half-open" => Cardinality(Probes) <= MaxConcurrentRequests
=============================================================================
