----------------------------- MODULE ErrorsProofs ---------------------------
(***************************************************************************)
(* What handles failures, for every number of callers and events and every *)
(* configuration.                                                          *)
(*                                                                         *)
(* The circuit breaker lets no more probes through than it is set to.  The *)
(* bound is not inductive by itself: it rests on how the slots, the        *)
(* successes of the period and the probes that really run account for each *)
(* other, which is ProbeAccounting.  The two sinks around it: no change of *)
(* state goes unreported, and no event that was handed to the resilient    *)
(* sink gets lost.  The dead letter queue: the statistics of the manager   *)
(* account for every event, although each call updates them in another     *)
(* critical section than the queue.  The error handling operator, for any  *)
(* operator, retry policy and use of the collector, swallows no failure.   *)
(***************************************************************************)
EXTENDS CircuitBreakerSink, ResilientSink, DeadLetterQueue, ErrorHandler,
        FiniteSetTheorems, SequenceTheorems, WellFoundedInduction, TLAPS

-----------------------------------------------------------------------------
(* The circuit breaker and the sinks around it.                            *)

\* Every taken slot is a running probe, and a running probe without a slot was
\* paid for by a success of this period.
ProbeAccounting ==
    state = "half-open" =>
        /\ halfOpenRequests <= MaxConcurrentRequests
        /\ halfOpenRequests <= Cardinality(Probes)
        /\ Cardinality(Probes) <= halfOpenRequests + successCount

\* The inductive invariant.
IInv == TypeOK /\ PeriodsStartFresh /\ ProbeAccounting

(* A statistics counter stays below its modulus when it is incremented. *)
LEMMA BumpType ==
    ASSUME NEW n \in 0..(CounterModulus - 1)
    PROVE  (n + 1) % CounterModulus \in 0..(CounterModulus - 1)
BY CounterAssumption

(* The type invariant holds of a new breaker and is kept by every critical section
   of cb.mu. *)
LEMMA TypeStep == TypeOK /\ [Next]_vars => TypeOK'
<1> SUFFICES ASSUME TypeOK, [Next]_vars PROVE TypeOK'
    OBVIOUS
<1> USE ConfigAssumption, CounterAssumption DEF TypeOK, States, Phases, Statistics, Retired
<1>0. \A n \in 0..(CounterModulus - 1) :
         (n + 1) % CounterModulus \in 0..(CounterModulus - 1)
    BY BumpType
<1>1. ASSUME NEW r \in Requests, AdmitClosed(r) PROVE TypeOK'
    BY <1>0, <1>1 DEF AdmitClosed, Bump, breaker
<1>2. ASSUME NEW r \in Requests, AdmitFirstProbe(r) PROVE TypeOK'
    BY <1>0, <1>2 DEF AdmitFirstProbe, Bump
<1>3. ASSUME NEW r \in Requests, AdmitProbe(r) PROVE TypeOK'
    BY <1>0, <1>3 DEF AdmitProbe, Bump
<1>4. ASSUME NEW r \in Requests, Reject(r) PROVE TypeOK'
    BY <1>0, <1>4 DEF Reject, breaker
<1>5. ASSUME NEW r \in Requests, onSuccess(r) PROVE TypeOK'
    BY <1>0, <1>5 DEF onSuccess, SuccessClosed, SuccessCloses, SuccessProbe,
                      SuccessOpen, Bump
<1>6. ASSUME NEW r \in Requests, onFailure(r) PROVE TypeOK'
    BY <1>0, <1>6 DEF onFailure, FailureClosed, FailureHalfOpen, FailureOpen, Bump
<1>7. CASE Reset
    BY <1>7 DEF Reset
<1>8. CASE Tick
    BY <1>8 DEF Tick, Expired
<1>9. CASE Recover
    BY <1>9 DEF Recover, breaker
<1>10. CASE UNCHANGED vars
    BY <1>10 DEF vars, breaker
<1> QED
    BY <1>1, <1>2, <1>3, <1>4, <1>5, <1>6, <1>7, <1>8, <1>9, <1>10
    DEF Next, Execute, beforeRequest, afterRequest

-----------------------------------------------------------------------------
(* What a state change of one caller does to the number of running probes. *)
LEMMA ProbesFinite == IsFiniteSet(Probes) /\ Cardinality(Probes) \in Nat
BY RequestsAssumption, FS_Subset, FS_CardinalityType DEF Probes

(* An idle caller that is admitted as a probe adds one to the probes. *)
LEMMA ProbeAdded ==
    ASSUME TypeOK, NEW r \in Requests, inflight[r] = "idle",
           inflight' = [inflight EXCEPT ![r] = "probe"]
    PROVE  Cardinality(Probes') = Cardinality(Probes) + 1
<1>1. Probes' = Probes \cup {r} /\ r \notin Probes
    BY DEF Probes, TypeOK
<1> QED
    BY <1>1, ProbesFinite, FS_AddElement

(* A caller that returns takes at most itself out of the probes. *)
LEMMA ProbeReturned ==
    ASSUME TypeOK, NEW r \in Requests, inflight' = [inflight EXCEPT ![r] = "idle"]
    PROVE  Cardinality(Probes') =
               IF r \in Probes THEN Cardinality(Probes) - 1 ELSE Cardinality(Probes)
<1>1. Probes' = Probes \ {r}
    BY DEF Probes, TypeOK
<1> QED
    BY <1>1, ProbesFinite, FS_RemoveElement

(* A caller inside its operation as a probe is counted: the probes are not zero. *)
LEMMA ProbeCounted ==
    ASSUME NEW r \in Probes
    PROVE  Cardinality(Probes) >= 1
<1>1. Cardinality(Probes) # 0
    BY ProbesFinite, FS_EmptySet
<1> QED
    BY <1>1, ProbesFinite

(* PeriodsStartFresh is kept by every step; it needs no more than the types. *)
LEMMA FreshStep == TypeOK /\ PeriodsStartFresh /\ [Next]_vars => PeriodsStartFresh'
<1> SUFFICES ASSUME TypeOK, PeriodsStartFresh, [Next]_vars PROVE PeriodsStartFresh'
    OBVIOUS
<1> USE ConfigAssumption DEF TypeOK, States, PeriodsStartFresh
<1>1. ASSUME NEW r \in Requests, beforeRequest(r) PROVE PeriodsStartFresh'
    BY <1>1 DEF beforeRequest, AdmitClosed, AdmitFirstProbe, AdmitProbe, Reject, breaker
<1>2. ASSUME NEW r \in Requests, onSuccess(r) PROVE PeriodsStartFresh'
    BY <1>2 DEF onSuccess, SuccessClosed, SuccessCloses, SuccessProbe, SuccessOpen
<1>3. ASSUME NEW r \in Requests, onFailure(r) PROVE PeriodsStartFresh'
    BY <1>3 DEF onFailure, FailureClosed, FailureHalfOpen, FailureOpen
<1>4. CASE Reset \/ Tick \/ Recover \/ UNCHANGED vars
    BY <1>4 DEF Reset, Tick, Recover, vars, breaker
<1> QED
    BY <1>1, <1>2, <1>3, <1>4 DEF Next, Execute, afterRequest

(* The accounting of probes is kept by every step. *)
LEMMA AccountingStep == IInv /\ [Next]_vars => ProbeAccounting'
<1> SUFFICES ASSUME IInv, [Next]_vars PROVE ProbeAccounting'
    OBVIOUS
<1> USE ConfigAssumption DEF IInv, PeriodsStartFresh, ProbeAccounting
<1>0. TypeOK /\ IsFiniteSet(Probes) /\ Cardinality(Probes) \in Nat
    BY ProbesFinite
<1>a. /\ MaxConcurrentRequests \in Nat /\ successCount \in Nat
      /\ halfOpenRequests \in Nat
    BY <1>0 DEF TypeOK
<1>1. ASSUME NEW r \in Requests, AdmitClosed(r) PROVE ProbeAccounting'
    BY <1>1 DEF AdmitClosed, breaker
<1>2. ASSUME NEW r \in Requests, AdmitFirstProbe(r) PROVE ProbeAccounting'
  <2>1. Probes' = {r}
      BY <1>0, <1>2 DEF AdmitFirstProbe, Probes, Retired, TypeOK
  <2>2. Cardinality(Probes') = 1
      BY <2>1, FS_Singleton
  <2> QED
      BY <1>a, <1>2, <2>2 DEF AdmitFirstProbe
<1>3. ASSUME NEW r \in Requests, AdmitProbe(r) PROVE ProbeAccounting'
  <2>1. Cardinality(Probes') = Cardinality(Probes) + 1
      BY <1>0, <1>3, ProbeAdded DEF AdmitProbe
  <2> QED
      BY <1>0, <1>a, <1>3, <2>1 DEF AdmitProbe
<1>4. ASSUME NEW r \in Requests, Reject(r) PROVE ProbeAccounting'
  <2>1. Probes' = Probes
      BY <1>4 DEF Reject, Probes
  <2> QED
      BY <1>4, <2>1 DEF Reject, breaker
<1>5. ASSUME NEW r \in Requests, onSuccess(r) PROVE ProbeAccounting'
  <2>1. CASE SuccessProbe
    <3>1. Cardinality(Probes') =
             IF r \in Probes THEN Cardinality(Probes) - 1 ELSE Cardinality(Probes)
        BY <1>0, <1>5, <2>1, ProbeReturned DEF onSuccess, SuccessProbe
    <3>2. r \in Probes => Cardinality(Probes) >= 1
        BY ProbeCounted
    <3> QED
        BY <1>0, <1>a, <2>1, <3>1, <3>2 DEF SuccessProbe
  <2>2. CASE SuccessClosed \/ SuccessCloses \/ SuccessOpen
      BY <2>2 DEF SuccessClosed, SuccessCloses, SuccessOpen
  <2> QED
      BY <1>5, <2>1, <2>2 DEF onSuccess
<1>6. ASSUME NEW r \in Requests, onFailure(r) PROVE ProbeAccounting'
    BY <1>6 DEF onFailure, FailureClosed, FailureHalfOpen, FailureOpen
<1>7. CASE Reset
    BY <1>7 DEF Reset
<1>8. CASE Tick \/ Recover \/ UNCHANGED vars
  <2>1. Probes' = Probes
      BY <1>8 DEF Tick, Recover, vars, Probes
  <2> QED
      BY <1>8, <2>1 DEF Tick, Recover, vars, breaker
<1> QED
    BY <1>1, <1>2, <1>3, <1>4, <1>5, <1>6, <1>7, <1>8
    DEF Next, Execute, beforeRequest, afterRequest

-----------------------------------------------------------------------------
(* A new breaker satisfies the inductive invariant. *)
LEMMA InitIInv == Init => IInv
<1> SUFFICES ASSUME Init PROVE IInv
    OBVIOUS
<1>1. TypeOK
  <2>1. totals \in [Statistics -> 0..(CounterModulus - 1)]
      BY CounterAssumption DEF Init
  <2>2. recovered \in BOOLEAN
      BY DEF Init
  <2> QED
      BY <2>1, <2>2, ConfigAssumption DEF Init, TypeOK, States, Phases
<1>2. PeriodsStartFresh /\ ProbeAccounting
    BY ConfigAssumption DEF Init, PeriodsStartFresh, ProbeAccounting
<1> QED
    BY <1>1, <1>2 DEF IInv

(* The inductive invariant of the breaker, from which the theorems below follow. *)
THEOREM Inductive == Spec => []IInv
<1>1. IInv /\ [Next]_vars => IInv'
    BY TypeStep, FreshStep, AccountingStep DEF IInv
<1> QED
    BY InitIInv, <1>1, PTL DEF Spec

(* The fields of the CircuitBreaker struct keep their types; in particular
   halfOpenRequests, an unsigned integer, is never decremented below zero. *)
THEOREM TypeCorrect == Spec => []TypeOK
<1>1. IInv => TypeOK
    BY DEF IInv
<1> QED
    BY Inductive, <1>1, PTL

(* No success and no slot of one half-open period is carried into another. *)
THEOREM FreshPeriods == Spec => []PeriodsStartFresh
<1>1. IInv => PeriodsStartFresh
    BY DEF IInv
<1> QED
    BY Inductive, <1>1, PTL

(* No half-open slot leaks: beforeRequest never answers ErrTooManyRequests for a
   slot that no running operation will give back. *)
THEOREM NoSlotLeak == Spec => []SlotsBackedByProbes
<1>1. IInv => SlotsBackedByProbes
    BY DEF IInv, ProbeAccounting, SlotsBackedByProbes
<1> QED
    BY Inductive, <1>1, PTL

(* However many late answers of earlier periods arrive, fewer than SuccessThreshold
   requests run beyond MaxConcurrentRequests in half-open. *)
THEOREM OverrunBounded == Spec => []ProbeOverrunBounded
<1>1. IInv => ProbeOverrunBounded
    BY ConfigAssumption, ProbesFinite
    DEF IInv, TypeOK, PeriodsStartFresh, ProbeAccounting, ProbeOverrunBounded
<1> QED
    BY Inductive, <1>1, PTL

-----------------------------------------------------------------------------
(* The sinks around the breaker: the callbacks that report its state.      *)

\* What a change that is added or has run does to the callbacks of a state.
One(p) == IF p THEN 1 ELSE 0

\* The inductive invariant.
ReportInv == TypeOK /\ SinkTypeOK /\ TransitionsTellState

\* The three states.
LEMMA ThreeStates ==
    ASSUME NEW c \in Changes
    PROVE  /\ c.from \in States /\ c.to \in States /\ c.from # c.to /\ c = Change(c.from, c.to)
           /\ \A x, y : Change(x, y) = c <=> x = c.from /\ y = c.to
<1>1. c \in [from : States, to : States] /\ c.from # c.to
    BY DEF Changes
<1> QED BY <1>1 DEF Change

\* A change of state starts its callback.
LEMMA NotifyKeeps ==
    ASSUME ReportInv, TypeOK', Notify, UNCHANGED <<transitions, gauge>>
    PROVE  ReportInv'
<1>1. CASE state' = state
  <2>1. callbacks' = callbacks
      BY <1>1 DEF Notify
  <2> QED BY <1>1, <2>1 DEF ReportInv, SinkTypeOK, TransitionsTellState, Entering, Leaving, Waiting
<1>2. CASE state' # state
  <2> DEFINE c == Change(state, state')
  <2>1. callbacks' = [callbacks EXCEPT ![c] = @ + 1]
      BY <1>2 DEF Notify
  <2>2. c \in Changes /\ c.from = state /\ c.to = state'
      BY <1>2 DEF ReportInv, TypeOK, Changes, Change
  <2>3. /\ callbacks \in [Changes -> Nat] /\ callbacks' \in [Changes -> Nat]
        /\ \A y \in Changes : callbacks'[y] = callbacks[y] + One(y = c)
      BY <2>1, <2>2 DEF ReportInv, SinkTypeOK, One
  <2> HIDE DEF c
  <2>4. SinkTypeOK'
      BY <2>2, <2>3 DEF ReportInv, SinkTypeOK
  <2>5. \A x, y : Change(x, y) = c <=> x = state /\ y = state'
      BY <2>2, ThreeStates
  <2>6. ASSUME NEW x \in States, NEW y \in States
        PROVE  /\ Waiting(x, y)' = Waiting(x, y) + One(x = state /\ y = state')
               /\ Waiting(x, y) \in Nat
    <3>1. CASE x # y
      <4>1. Change(x, y) \in Changes
          BY <3>1 DEF Change, Changes
      <4> QED BY <2>3, <2>5, <3>1, <4>1 DEF Waiting, One
    <3>2. CASE x = y
        BY <1>2, <3>2 DEF Waiting, One
    <3> QED BY <3>1, <3>2
  <2>7. ASSUME NEW s \in States
        PROVE  /\ Entering(s)' = Entering(s) + One(s = state')
               /\ Leaving(s)' = Leaving(s) + One(s = state)
               /\ Entering(s) \in Nat /\ Leaving(s) \in Nat
    <3>1. state \in {"closed", "open", "half-open"} /\ state' \in {"closed", "open", "half-open"}
        BY DEF ReportInv, TypeOK, States
    <3> QED BY <2>6, <3>1 DEF Entering, Leaving, One, States
  <2>8. TransitionsTellState'
      BY <1>2, <2>7 DEF ReportInv, SinkTypeOK, TransitionsTellState, One
  <2> QED BY <2>4, <2>8 DEF ReportInv
<1> QED BY <1>1, <1>2

\* A callback counts the change it was started for.
LEMMA CallbackKeeps ==
    ASSUME ReportInv, NEW c \in Changes, OnStateChange(c)
    PROVE  ReportInv'
<1>1. /\ callbacks[c] > 0 /\ callbacks' = [callbacks EXCEPT ![c] = @ - 1]
      /\ transitions' = [transitions EXCEPT ![c.from] = @ - 1, ![c.to] = @ + 1]
      /\ gauge' = c.to /\ UNCHANGED vars
    BY DEF OnStateChange
<1>2. c.from \in States /\ c.to \in States /\ c.from # c.to
    BY ThreeStates
<1>3. TypeOK' /\ state' = state
    BY <1>1, TypeStep DEF ReportInv, vars, breaker
<1>4. /\ callbacks' \in [Changes -> Nat]
      /\ \A y \in Changes : callbacks[y] = callbacks'[y] + One(y = c)
    BY <1>1 DEF ReportInv, SinkTypeOK, One
<1>5. /\ transitions' \in [States -> Int]
      /\ \A s \in States : transitions'[s] = transitions[s] + One(s = c.to) - One(s = c.from)
    BY <1>1, <1>2 DEF ReportInv, SinkTypeOK, One
<1>6. SinkTypeOK'
    BY <1>1, <1>2, <1>4, <1>5 DEF ReportInv, SinkTypeOK
<1>7. \A x, y : Change(x, y) = c <=> x = c.from /\ y = c.to
    BY ThreeStates
<1>8. ASSUME NEW x \in States, NEW y \in States
      PROVE  /\ Waiting(x, y) = Waiting(x, y)' + One(x = c.from /\ y = c.to)
             /\ Waiting(x, y)' \in Nat
  <2>1. CASE x # y
    <3>1. Change(x, y) \in Changes
        BY <2>1 DEF Change, Changes
    <3> QED BY <1>4, <1>7, <2>1, <3>1 DEF Waiting, One
  <2>2. CASE x = y
      BY <1>2, <2>2 DEF Waiting, One
  <2> QED BY <2>1, <2>2
<1>9. ASSUME NEW s \in States
      PROVE  /\ Entering(s) = Entering(s)' + One(s = c.to)
             /\ Leaving(s) = Leaving(s)' + One(s = c.from)
             /\ Entering(s)' \in Nat /\ Leaving(s)' \in Nat
  <2>1. c.from \in {"closed", "open", "half-open"} /\ c.to \in {"closed", "open", "half-open"}
      BY <1>2 DEF States
  <2> QED BY <1>8, <2>1 DEF Entering, Leaving, One, States
<1>10. TransitionsTellState'
    BY <1>3, <1>5, <1>9 DEF ReportInv, SinkTypeOK, TransitionsTellState, One
<1> QED BY <1>3, <1>6, <1>10 DEF ReportInv

\* A new breaker is closed and nothing waits.
LEMMA ReportInitially == SinkInit => ReportInv
<1> SUFFICES ASSUME SinkInit PROVE ReportInv
    OBVIOUS
<1>1. TypeOK
    BY InitIInv DEF SinkInit, IInv
<1>2. \A x, y \in States : Waiting(x, y) = 0
    BY DEF SinkInit, Waiting, Change, Changes
<1>3. SinkTypeOK
    BY DEF SinkInit, SinkTypeOK, States
<1>4. TransitionsTellState
    BY <1>2 DEF SinkInit, Init, TransitionsTellState, Entering, Leaving, States
<1> QED BY <1>1, <1>3, <1>4 DEF ReportInv

\* Every step keeps the invariant.
LEMMA ReportStep == ReportInv /\ [SinkNext]_sinkVars => ReportInv'
<1> SUFFICES ASSUME ReportInv, [SinkNext]_sinkVars PROVE ReportInv'
    OBVIOUS
<1>1. CASE BreakerStep(Next)
    BY <1>1, NotifyKeeps, TypeStep DEF BreakerStep, ReportInv
<1>2. CASE UNCHANGED sinkVars
  <2>1. UNCHANGED <<vars, state, callbacks, transitions, gauge>>
      BY <1>2 DEF sinkVars, vars, breaker
  <2>2. TypeOK'
      BY <2>1, TypeStep DEF ReportInv
  <2> QED BY <2>1, <2>2 DEF ReportInv, SinkTypeOK, TransitionsTellState, Entering, Leaving, Waiting
<1> QED BY <1>1, <1>2, CallbackKeeps DEF SinkNext

\* The invariant always holds.
LEMMA ReportInvAlways == SinkSpec => []ReportInv
BY ReportInitially, ReportStep, PTL DEF SinkSpec

\* setState and Reset start a callback for every change of state: none is lost or counted
\* twice, in whatever order they run.
THEOREM EveryChangeReported == SinkSpec => []TransitionsTellState
<1>1. ReportInv => TransitionsTellState
    BY DEF ReportInv
<1> QED BY <1>1, ReportInvAlways, PTL

-----------------------------------------------------------------------------
(* The resilient sink.                                                     *)

\* Where a call of Write is.
Writings == [pc : PCs, event : 0..NumEvents, attempt : 0..MaxAttempts]

\* An event is in one hand, and a hand that waits or flushes holds none; what lies ahead
\* was neither answered nor applied.
Hands ==
    /\ \A r \in Requests : writing[r].event = 0 <=> writing[r].pc \in {"idle", "flush"}
    /\ \A r \in Requests : writing[r].event <= taken
    /\ \A r, s \in Requests : writing[r].event = writing[s].event /\ writing[r].event # 0 => r = s
    /\ \A e \in Events : e > taken => answer[e] = "none" /\ effects[e] = 0

\* An attempt applies its event at most once.
Applied(w, f) ==
    /\ w.pc \in {"attempt", "operation"} => f[w.event] <= w.attempt
    /\ w.pc = "backoff" => w.attempt < MaxAttempts /\ f[w.event] <= w.attempt + 1
AppliedByAttempts == \A r \in Requests : Applied(writing[r], effects)

\* The inductive invariant.
ResilientInv == ResilientTypeOK /\ NothingLost /\ Hands /\ AppliedByAttempts

\* Every step of the sink is a step of its breaker, or leaves the breaker alone.
LEMMA StepOfBreaker == [ResilientNext]_allVars => [Next]_vars
<1> SUFFICES ASSUME [ResilientNext]_allVars PROVE [Next]_vars
    OBVIOUS
<1>1. ASSUME NEW r \in Requests, Write(r) PROVE [Next]_vars
  <2>1. CASE BeginWrite(r)
      BY <2>1 DEF BeginWrite
  <2>2. CASE Attempt(r)
      BY <2>2 DEF Attempt, Next, Execute
  <2>3. CASE Succeeded(r)
      BY <2>3 DEF Succeeded, Next, Execute, afterRequest
  <2>4. CASE \E retriable, tookEffect \in BOOLEAN : FailedAttempt(r, retriable, tookEffect)
      BY <2>4 DEF FailedAttempt, Next, Execute, afterRequest
  <2>5. CASE Backoff(r) \/ BackoffCancelled(r) \/ GiveUp(r)
      BY <2>5 DEF Backoff, BackoffCancelled, GiveUp
  <2> QED BY <1>1, <2>1, <2>2, <2>3, <2>4, <2>5 DEF Write
<1>2. ASSUME NEW r \in Requests, Flush(r) PROVE [Next]_vars
    BY <1>2 DEF Flush, BeginFlush, EndFlush, Next, Execute
<1>3. CASE Cancel \/ Environment \/ UNCHANGED allVars
    BY <1>3 DEF Cancel, Environment, allVars, Next
<1> QED BY <1>1, <1>2, <1>3 DEF ResilientNext

\* The breaker inside a resilient sink: what is proved of the breaker holds there.
THEOREM BreakerInside == ResilientSpec => Spec
<1>1. ResilientInit => Init
    BY DEF ResilientInit
<1> QED BY <1>1, StepOfBreaker, PTL DEF ResilientSpec, Spec

\* A new sink.
LEMMA ResilientInitially == ResilientInit => ResilientInv
<1> SUFFICES ASSUME ResilientInit PROVE ResilientInv
    OBVIOUS
<1>1. TypeOK
    BY InitIInv DEF ResilientInit, IInv
<1>2. \A r \in Requests : writing[r] = Idle
    BY DEF ResilientInit
<1>3. ResilientTypeOK
  <2>1. Idle \in Writings
      BY ResilientAssumption DEF Idle, Writings, PCs
  <2>2. writing \in [Requests -> Writings]
      BY <2>1 DEF ResilientInit
  <2>3. effects \in [Events -> 0..(MaxAttempts + 1)] /\ answer \in [Events -> {"none", "ok", "error"}]
      BY ResilientAssumption DEF ResilientInit
  <2>4. taken \in 0..NumEvents
      BY ResilientAssumption DEF ResilientInit
  <2>5. ctxDone \in BOOLEAN /\ evicted \subseteq Events
      BY Zenon DEF ResilientInit
  <2>6. dlq \in Seq(Events)
      BY EmptySeq DEF ResilientInit
  <2> QED BY <1>1, <2>2, <2>3, <2>4, <2>5, <2>6 DEF ResilientTypeOK, Writings
<1>4. NothingLost
    BY ResilientAssumption DEF ResilientInit, NothingLost, InDLQ, InHand, Event, Events
<1>5. Hands
    BY <1>2, ResilientAssumption DEF ResilientInit, Hands, Idle, Events
<1>6. AppliedByAttempts
    BY <1>2 DEF AppliedByAttempts, Applied, Idle
<1> QED BY <1>3, <1>4, <1>5, <1>6 DEF ResilientInv

\* A call of Write that is under way holds an event that was taken.
LEMMA EventInHand ==
    ASSUME ResilientInv, NEW r \in Requests, writing[r].pc \notin {"idle", "flush"}
    PROVE  /\ writing[r].event # 0 /\ writing[r].event \in Events /\ writing[r].event \in 1..taken
<1>1. writing[r].event \in 0..NumEvents
    BY DEF ResilientInv, ResilientTypeOK
<1>2. writing[r].event # 0 /\ writing[r].event <= taken /\ taken \in Nat
    BY ResilientAssumption DEF ResilientInv, ResilientTypeOK, Hands
<1> QED BY <1>1, <1>2, ResilientAssumption DEF Events

\* A call goes on with its event, which the wrapped sink may have applied.
LEMMA MoveKeeps ==
    ASSUME ResilientInv, TypeOK', NEW r \in Requests, NEW w \in Writings,
           writing' = [writing EXCEPT ![r] = w],
           w.event = writing[r].event,
           writing[r].pc \in {"idle", "flush"} <=> w.pc \in {"idle", "flush"},
           effects' \in [Events -> 0..(MaxAttempts + 1)],
           \A x \in Events : effects'[x] >= effects[x],
           \A x \in Events : x # writing[r].event => effects'[x] = effects[x],
           Applied(w, effects'),
           UNCHANGED <<taken, ctxDone, answer, dlq, evicted>>
    PROVE  ResilientInv'
<1>1. /\ writing \in [Requests -> Writings]
      /\ writing' \in [Requests -> Writings]
      /\ \A s \in Requests : writing'[s] = IF s = r THEN w ELSE writing[s]
    BY DEF ResilientInv, ResilientTypeOK, Writings
<1>2. ResilientTypeOK'
    BY <1>1 DEF ResilientInv, ResilientTypeOK, Writings
<1>3. \A s \in Requests : writing'[s].event = writing[s].event
    BY <1>1
<1>4. \A x : InHand(x)' <=> InHand(x)
    BY <1>3 DEF InHand, Event
<1>5. \A x \in Events : effects[x] > 0 => effects'[x] > 0
    BY ResilientAssumption DEF ResilientInv, ResilientTypeOK
<1>6. NothingLost'
    BY <1>4, <1>5 DEF ResilientInv, NothingLost, InDLQ
<1>7. Hands'
  <2>1. \A e \in Events : e > taken => e # writing[r].event
      BY <1>1, ResilientAssumption DEF ResilientInv, Hands, ResilientTypeOK, Writings, Events
  <2>2. \A s \in Requests : writing'[s].pc \in {"idle", "flush"} <=> writing[s].pc \in {"idle", "flush"}
      BY <1>1
  <2> QED BY <1>3, <2>1, <2>2 DEF ResilientInv, Hands
<1>8. ASSUME NEW s \in Requests PROVE Applied(writing'[s], effects')
  <2>1. CASE s = r
      BY <1>1, <2>1
  <2>2. CASE s # r /\ writing[s].pc \in {"attempt", "operation", "backoff"}
    <3>1. /\ writing'[s] = writing[s] /\ writing[s].event # 0
          /\ writing[s].event # writing[r].event
          /\ writing[s].event \in Events
        BY <1>1, <2>2, ResilientAssumption DEF ResilientInv, Hands, Writings, Events
    <3>2. effects'[writing[s].event] = effects[writing[s].event]
        BY <3>1
    <3> QED BY <3>1, <3>2 DEF ResilientInv, AppliedByAttempts, Applied
  <2>3. CASE s # r /\ writing[s].pc \notin {"attempt", "operation", "backoff"}
      BY <1>1, <2>3 DEF Applied
  <2> QED BY <2>1, <2>2, <2>3
<1>9. AppliedByAttempts'
    BY <1>8 DEF AppliedByAttempts, Applied
<1> QED BY <1>2, <1>6, <1>7, <1>9 DEF ResilientInv


\* Where a call goes after an error, by the attempts it has left.
LEMMA AfterErrorIs ==
    ASSUME ResilientInv, NEW r \in Requests, NEW retriable
    PROVE  /\ AfterError(r, retriable) \in {"giveup", "backoff"}
           /\ AfterError(r, retriable) = "backoff" => writing[r].attempt < MaxAttempts
BY ResilientAssumption DEF AfterError, ResilientInv, ResilientTypeOK

\* beforeRequest admits the attempt or refuses it.
LEMMA AttemptKeeps ==
    ASSUME ResilientInv, TypeOK', NEW r \in Requests, Attempt(r)
    PROVE  ResilientInv'
<1>1. PICK p : /\ writing' = [writing EXCEPT ![r].pc = p]
               /\ p \in {"giveup", "backoff", "operation"}
               /\ p = "backoff" => writing[r].attempt < MaxAttempts
  <2> DEFINE p == IF inflight'[r] = "idle" THEN AfterError(r, TRUE) ELSE "operation"
  <2>1. writing' = [writing EXCEPT ![r].pc = p]
      BY DEF Attempt, Goes
  <2>2. p \in {"giveup", "backoff", "operation"} /\ (p = "backoff" => writing[r].attempt < MaxAttempts)
      BY AfterErrorIs
  <2> HIDE DEF p
  <2> QED BY <2>1, <2>2
<1>2. /\ writing[r].pc = "attempt"
      /\ UNCHANGED <<taken, ctxDone, effects, answer, dlq, evicted>>
    BY DEF Attempt, At
<1>3. writing \in [Requests -> Writings] /\ writing[r] \in Writings
    BY DEF ResilientInv, ResilientTypeOK, Writings
<1> DEFINE w == [writing[r] EXCEPT !.pc = p]
<1>4. writing' = [writing EXCEPT ![r] = w]
    BY <1>1, <1>3
<1>5. w \in Writings /\ w.pc = p /\ w.event = writing[r].event /\ w.attempt = writing[r].attempt
    BY <1>1, <1>3 DEF Writings, PCs
<1> HIDE DEF w
<1>6. /\ effects' \in [Events -> 0..(MaxAttempts + 1)]
      /\ \A x \in Events : effects'[x] >= effects[x]
    BY <1>2, ResilientAssumption DEF ResilientInv, ResilientTypeOK
<1>7. Applied(w, effects')
  <2>1. writing[r].event \in Events
      BY <1>2, <1>3, ResilientAssumption DEF ResilientInv, Hands, Writings, Events
  <2>2. effects[w.event] <= w.attempt
      BY <1>2, <1>5 DEF ResilientInv, AppliedByAttempts, Applied
  <2>3. effects[w.event] \in Nat /\ w.attempt \in Nat
      BY <1>3, <1>5, <2>1, ResilientAssumption DEF ResilientInv, ResilientTypeOK, Writings
  <2> QED BY <2>3, <1>1, <1>2, <1>5, <2>2 DEF Applied
<1> QED BY <1>1, <1>2, <1>4, <1>5, <1>6, <1>7, MoveKeeps

\* The wrapped Write has failed, with or without effect.
LEMMA FailedAttemptKeeps ==
    ASSUME ResilientInv, TypeOK', NEW r \in Requests, NEW retriable \in BOOLEAN, NEW tookEffect \in BOOLEAN,
           FailedAttempt(r, retriable, tookEffect)
    PROVE  ResilientInv'
<1>1. PICK p : /\ writing' = [writing EXCEPT ![r].pc = p]
               /\ p \in {"giveup", "backoff"}
               /\ p = "backoff" => writing[r].attempt < MaxAttempts
    BY AfterErrorIs DEF FailedAttempt, Goes
<1> DEFINE e == writing[r].event
           n == IF tookEffect THEN effects[e] + 1 ELSE effects[e]
<1>2. /\ writing[r].pc = "operation"
      /\ effects' = [effects EXCEPT ![e] = n]
      /\ UNCHANGED <<taken, ctxDone, answer, dlq, evicted>>
    BY DEF FailedAttempt, At, Event
<1>3. writing \in [Requests -> Writings] /\ writing[r] \in Writings
    BY DEF ResilientInv, ResilientTypeOK, Writings
<1> DEFINE w == [writing[r] EXCEPT !.pc = p]
<1>4. writing' = [writing EXCEPT ![r] = w]
    BY <1>1, <1>3
<1>5. w \in Writings /\ w.pc = p /\ w.event = writing[r].event /\ w.attempt = writing[r].attempt
    BY <1>1, <1>3 DEF Writings, PCs
<1> HIDE DEF w
<1>6. /\ e \in Events /\ effects[e] <= writing[r].attempt
      /\ effects[e] \in Nat /\ writing[r].attempt \in 0..MaxAttempts
  <2>1. e \in Events
      BY <1>2, <1>3, ResilientAssumption DEF ResilientInv, Hands, Writings, Events
  <2> QED BY <1>2, <1>3, <2>1, ResilientAssumption, SMTT(30)
          DEF ResilientInv, ResilientTypeOK, AppliedByAttempts, Applied, Writings
<1>7. n \in 0..(MaxAttempts + 1) /\ n >= effects[e] /\ n <= w.attempt + 1
    BY <1>5, <1>6, ResilientAssumption
<1> HIDE DEF n
<1>8. /\ effects' \in [Events -> 0..(MaxAttempts + 1)]
      /\ \A x \in Events : effects'[x] = IF x = e THEN n ELSE effects[x]
    BY <1>2, <1>6, <1>7 DEF ResilientInv, ResilientTypeOK
<1>9. \A x \in Events : effects'[x] >= effects[x] /\ (x # e => effects'[x] = effects[x])
    BY <1>7, <1>8, ResilientAssumption DEF ResilientInv, ResilientTypeOK
<1>10. Applied(w, effects')
    BY <1>1, <1>5, <1>6, <1>7, <1>8 DEF Applied
<1> QED BY <1>1, <1>2, <1>4, <1>5, <1>8, <1>9, <1>10, MoveKeeps

\* The retry loop waits for the next attempt, or its context ends it.
LEMMA BackoffKeeps ==
    ASSUME ResilientInv, TypeOK', NEW r \in Requests, Backoff(r) \/ BackoffCancelled(r)
    PROVE  ResilientInv'
<1>1. PICK p, n : /\ writing' = [writing EXCEPT ![r].pc = p, ![r].attempt = n]
                  /\ \/ p = "attempt" /\ n = writing[r].attempt + 1
                     \/ p = "giveup" /\ n = writing[r].attempt
  <2>1. CASE Backoff(r)
      BY <2>1 DEF Backoff
  <2>2. CASE BackoffCancelled(r)
    <3>1. writing' = [writing EXCEPT ![r].pc = "giveup", ![r].attempt = writing[r].attempt]
        BY <2>2 DEF BackoffCancelled, Goes, ResilientInv, ResilientTypeOK
    <3> QED BY <3>1
  <2> QED BY <2>1, <2>2
<1>2. /\ writing[r].pc = "backoff"
      /\ UNCHANGED <<taken, ctxDone, effects, answer, dlq, evicted>>
    BY DEF Backoff, BackoffCancelled, At
<1>3. writing \in [Requests -> Writings] /\ writing[r] \in Writings
    BY DEF ResilientInv, ResilientTypeOK, Writings
<1>4. /\ writing[r].event \in Events /\ writing[r].attempt \in Nat /\ writing[r].attempt < MaxAttempts
      /\ effects[writing[r].event] <= writing[r].attempt + 1
  <2>1. writing[r].event \in Events
      BY <1>2, <1>3, ResilientAssumption DEF ResilientInv, Hands, Writings, Events
  <2> QED BY <1>2, <1>3, <2>1, ResilientAssumption DEF ResilientInv, AppliedByAttempts, Applied, Writings
<1>5. n \in 0..MaxAttempts
    BY <1>1, <1>4, ResilientAssumption
<1> DEFINE w == [writing[r] EXCEPT !.pc = p, !.attempt = n]
<1>6. writing' = [writing EXCEPT ![r] = w]
    BY <1>1, <1>3
<1>7. w \in Writings /\ w.pc = p /\ w.event = writing[r].event /\ w.attempt = n
    BY <1>1, <1>3, <1>5 DEF Writings, PCs
<1> HIDE DEF w
<1>8. /\ effects' \in [Events -> 0..(MaxAttempts + 1)]
      /\ \A x \in Events : effects'[x] >= effects[x]
    BY <1>2, ResilientAssumption DEF ResilientInv, ResilientTypeOK
<1>9. Applied(w, effects')
    BY <1>1, <1>2, <1>4, <1>7 DEF Applied
<1> QED BY <1>1, <1>2, <1>6, <1>7, <1>8, <1>9, MoveKeeps

\* Flush holds no event.
LEMMA FlushKeeps ==
    ASSUME ResilientInv, TypeOK', NEW r \in Requests, Flush(r)
    PROVE  ResilientInv'
<1>1. PICK p \in {"idle", "flush"} : writing' = [writing EXCEPT ![r].pc = p]
    BY DEF Flush, BeginFlush, EndFlush, Goes
<1>2. /\ writing[r].pc \in {"idle", "flush"}
      /\ UNCHANGED <<taken, ctxDone, effects, answer, dlq, evicted>>
    BY DEF Flush, BeginFlush, EndFlush, At
<1>3. writing \in [Requests -> Writings] /\ writing[r] \in Writings
    BY DEF ResilientInv, ResilientTypeOK, Writings
<1> DEFINE w == [writing[r] EXCEPT !.pc = p]
<1>4. writing' = [writing EXCEPT ![r] = w]
    BY <1>1, <1>3
<1>5. w \in Writings /\ w.pc = p /\ w.event = writing[r].event
    BY <1>1, <1>3 DEF Writings, PCs
<1> HIDE DEF w
<1>6. /\ effects' \in [Events -> 0..(MaxAttempts + 1)]
      /\ \A x \in Events : effects'[x] >= effects[x]
    BY <1>2, ResilientAssumption DEF ResilientInv, ResilientTypeOK
<1>7. Applied(w, effects')
    BY <1>5 DEF Applied
<1> QED BY <1>2, <1>4, <1>5, <1>6, <1>7, MoveKeeps

\* A worker takes the next event.
LEMMA BeginWriteKeeps ==
    ASSUME ResilientInv, TypeOK', NEW r \in Requests, BeginWrite(r)
    PROVE  ResilientInv'
<1> DEFINE w == [pc |-> "attempt", event |-> taken + 1, attempt |-> 0]
<1>1. /\ writing[r].pc = "idle" /\ taken' = taken + 1 /\ taken < NumEvents
      /\ writing' = [writing EXCEPT ![r] = w]
      /\ UNCHANGED <<ctxDone, effects, answer, dlq, evicted>>
    BY DEF BeginWrite, At
<1>2. taken \in Nat /\ taken + 1 \in 1..NumEvents /\ taken + 1 \in Events
    BY <1>1, ResilientAssumption DEF ResilientInv, ResilientTypeOK, Events
<1>3. w \in Writings /\ w.pc = "attempt" /\ w.event = taken + 1 /\ w.attempt = 0
    BY <1>2, ResilientAssumption DEF Writings, PCs
<1> HIDE DEF w
<1>4. /\ writing \in [Requests -> Writings]
      /\ writing' \in [Requests -> Writings]
      /\ \A s \in Requests : writing'[s] = IF s = r THEN w ELSE writing[s]
    BY <1>1, <1>3 DEF ResilientInv, ResilientTypeOK, Writings
<1>5. ResilientTypeOK'
    BY <1>1, <1>2, <1>4 DEF ResilientInv, ResilientTypeOK, Writings
<1>6. writing[r].event = 0 /\ \A s \in Requests : writing[s].event \in Nat /\ writing[s].event <= taken
    BY <1>1, <1>4, ResilientAssumption DEF ResilientInv, Hands, Writings
<1>7. answer[taken + 1] = "none" /\ effects[taken + 1] = 0
    BY <1>2 DEF ResilientInv, Hands
<1>8. NothingLost'
  <2>1. ASSUME NEW e \in 1..(taken + 1) PROVE InHand(e)' <=> answer[e] = "none"
    <3>1. CASE e = taken + 1
      <4>1. writing'[r].event = e
          BY <1>3, <1>4, <3>1
      <4> QED BY <1>7, <3>1, <4>1 DEF InHand, Event
    <3>2. CASE e \in 1..taken
      <4>1. \A s \in Requests : writing'[s].event = e <=> writing[s].event = e
          BY <1>2, <1>3, <1>4, <1>6, <3>2
      <4>2. InHand(e)' <=> InHand(e)
          BY <4>1 DEF InHand, Event
      <4> QED BY <3>2, <4>2 DEF ResilientInv, NothingLost
    <3> QED BY <1>2, <3>1, <3>2
  <2> QED BY <1>1, <2>1 DEF ResilientInv, NothingLost, InDLQ
<1>9. Hands'
  <2>1. \A s \in Requests : writing'[s].event <= taken + 1
      BY <1>2, <1>3, <1>4, <1>6
  <2>2. \A s, u \in Requests : writing'[s].event = writing'[u].event /\ writing'[s].event # 0 => s = u
    <3>1. \A s \in Requests : s # r => writing'[s].event # taken + 1
        BY <1>2, <1>4, <1>6
    <3> QED BY <1>3, <1>4, <3>1 DEF ResilientInv, Hands
  <2>3. \A s \in Requests : writing'[s].event = 0 <=> writing'[s].pc \in {"idle", "flush"}
      BY <1>2, <1>3, <1>4 DEF ResilientInv, Hands
  <2>4. \A e \in Events : e > taken + 1 => e > taken
      BY <1>2 DEF Events
  <2> QED BY <1>1, <2>1, <2>2, <2>3, <2>4 DEF ResilientInv, Hands
<1>10. \A s \in Requests : Applied(writing'[s], effects)
    BY <1>3, <1>4, <1>7 DEF ResilientInv, AppliedByAttempts, Applied
<1>11. AppliedByAttempts'
    BY <1>1, <1>10 DEF AppliedByAttempts
<1> QED BY <1>5, <1>8, <1>9, <1>11 DEF ResilientInv

\* A sequence without repetition, and what is in it.
Distinct(q) == \A i, j \in 1..Len(q) : i # j => q[i] # q[j]
Among(q, x) == \E i \in 1..Len(q) : q[i] = x

\* An event that was not in the queue is added.
LEMMA AppendDistinct ==
    ASSUME NEW S, NEW q \in Seq(S), NEW e \in S, Distinct(q), ~Among(q, e)
    PROVE  /\ Append(q, e) \in Seq(S) /\ Distinct(Append(q, e))
           /\ \A x : Among(Append(q, e), x) <=> Among(q, x) \/ x = e
<1> DEFINE t == Append(q, e)
<1>1. /\ t \in Seq(S) /\ Len(q) \in Nat /\ Len(t) = Len(q) + 1
      /\ t[Len(q) + 1] = e /\ \A i \in 1..Len(q) : t[i] = q[i]
    BY AppendProperties, LenProperties
<1> HIDE DEF t
<1>2. Distinct(t)
    BY <1>1 DEF Distinct, Among
<1>3. ASSUME NEW x PROVE Among(t, x) <=> Among(q, x) \/ x = e
    BY <1>1 DEF Among
<1> QED BY <1>1, <1>2, <1>3 DEF t

\* The first event is taken out.
LEMMA TailDistinct ==
    ASSUME NEW S, NEW q \in Seq(S), q # <<>>, Distinct(q)
    PROVE  /\ Tail(q) \in Seq(S) /\ Head(q) \in S /\ Distinct(Tail(q))
           /\ \A x : Among(q, x) <=> Among(Tail(q), x) \/ x = Head(q)
<1> DEFINE t == Tail(q)
<1>1. /\ t \in Seq(S) /\ Len(q) \in Nat \ {0} /\ Len(t) = Len(q) - 1 /\ Head(q) \in S
      /\ q[1] = Head(q) /\ \A i \in 1..(Len(q) - 1) : t[i] = q[i + 1]
    BY HeadTailProperties, LenProperties, EmptySeq
<1> HIDE DEF t
<1>2. Distinct(t)
  <2> SUFFICES ASSUME NEW i \in 1..(Len(q) - 1), NEW j \in 1..(Len(q) - 1), i # j PROVE t[i] # t[j]
      BY <1>1 DEF Distinct
  <2>1. i + 1 \in 1..Len(q) /\ j + 1 \in 1..Len(q) /\ i + 1 # j + 1
      BY <1>1
  <2> QED BY <1>1, <2>1 DEF Distinct
<1>3. ASSUME NEW x PROVE Among(q, x) <=> Among(t, x) \/ x = Head(q)
  <2>1. ASSUME NEW i \in 1..Len(q), q[i] = x, i # 1 PROVE Among(t, x)
    <3>1. i - 1 \in 1..(Len(q) - 1) /\ (i - 1) + 1 = i
        BY <1>1, <2>1
    <3> QED BY <1>1, <2>1, <3>1 DEF Among
  <2>2. ASSUME NEW i \in 1..(Len(q) - 1), t[i] = x PROVE Among(q, x)
    <3>1. i + 1 \in 1..Len(q)
        BY <1>1
    <3> QED BY <1>1, <2>2, <3>1 DEF Among
  <2>3. 1 \in 1..Len(q)
      BY <1>1
  <2> QED BY <1>1, <2>1, <2>2, <2>3 DEF Among
<1> QED BY <1>1, <1>2, <1>3 DEF t

\* InMemoryDLQ.Write keeps the event, and an event it throws out is remembered.
LEMMA CaptureKeeps ==
    ASSUME NEW e \in Events, Capture(e), dlq \in Seq(Events), evicted \subseteq Events,
           Distinct(dlq), ~Among(dlq, e)
    PROVE  /\ dlq' \in Seq(Events) /\ evicted' \subseteq Events /\ Distinct(dlq')
           /\ \A x : Among(dlq', x) \/ x \in evicted' <=> Among(dlq, x) \/ x \in evicted \/ x = e
<1>1. CASE DLQSize > 0 /\ Len(dlq) >= DLQSize
  <2>1. dlq' = Append(Tail(dlq), e) /\ evicted' = evicted \cup {Head(dlq)}
      BY <1>1 DEF Capture
  <2>2. dlq # <<>>
      BY <1>1, ResilientAssumption
  <2>3. /\ Tail(dlq) \in Seq(Events) /\ Head(dlq) \in Events /\ Distinct(Tail(dlq))
        /\ \A x : Among(dlq, x) <=> Among(Tail(dlq), x) \/ x = Head(dlq)
      BY <2>2, TailDistinct
  <2>4. /\ dlq' \in Seq(Events) /\ Distinct(dlq')
        /\ \A x : Among(dlq', x) <=> Among(Tail(dlq), x) \/ x = e
      BY <2>1, <2>3, AppendDistinct
  <2> QED BY <2>1, <2>3, <2>4
<1>2. CASE ~(DLQSize > 0 /\ Len(dlq) >= DLQSize)
  <2>1. dlq' = Append(dlq, e) /\ evicted' = evicted
      BY <1>2 DEF Capture
  <2>2. /\ dlq' \in Seq(Events) /\ Distinct(dlq')
        /\ \A x : Among(dlq', x) <=> Among(dlq, x) \/ x = e
      BY <2>1, AppendDistinct
  <2> QED BY <2>1, <2>2
<1> QED BY <1>1, <1>2

\* Write returns: the event leaves the hand with its answer.
LEMMA DoneKeeps ==
    ASSUME ResilientInv, TypeOK', NEW r \in Requests, NEW a \in {"ok", "error"},
           writing[r].event # 0,
           writing' = [writing EXCEPT ![r] = Idle],
           answer' = [answer EXCEPT ![writing[r].event] = a],
           effects' \in [Events -> 0..(MaxAttempts + 1)],
           \A x \in Events : effects'[x] >= effects[x],
           \A x \in Events : x # writing[r].event => effects'[x] = effects[x],
           a = "ok" => effects'[writing[r].event] > 0,
           dlq' \in Seq(Events), evicted' \subseteq Events, Distinct(dlq'),
           EnableDLQ => \A x : Among(dlq', x) \/ x \in evicted'
                                 <=> Among(dlq, x) \/ x \in evicted \/ (a = "error" /\ x = writing[r].event),
           UNCHANGED <<taken, ctxDone>>
    PROVE  ResilientInv'
<1> DEFINE e == writing[r].event
<1>1. /\ Idle \in Writings /\ Idle.event = 0 /\ Idle.pc = "idle"
      /\ writing \in [Requests -> Writings]
      /\ writing' \in [Requests -> Writings]
      /\ \A s \in Requests : writing'[s] = IF s = r THEN Idle ELSE writing[s]
  <2>1. Idle \in Writings /\ Idle.event = 0 /\ Idle.pc = "idle"
      BY ResilientAssumption DEF Idle, Writings, PCs
  <2>2. writing \in [Requests -> Writings]
      BY DEF ResilientInv, ResilientTypeOK, Writings
  <2> QED BY <2>1, <2>2
<1>2. e \in Events /\ e <= taken /\ e \in 1..taken /\ taken \in Nat
    BY <1>1, ResilientAssumption DEF ResilientInv, ResilientTypeOK, Hands, Writings, Events
<1>3. /\ answer' \in [Events -> {"none", "ok", "error"}]
      /\ \A x \in Events : answer'[x] = IF x = e THEN a ELSE answer[x]
    BY <1>2 DEF ResilientInv, ResilientTypeOK
<1>4. ResilientTypeOK'
    BY <1>1, <1>3 DEF ResilientInv, ResilientTypeOK, Writings
<1>5. 1..taken \subseteq Events /\ 0 \notin 1..taken
    BY ResilientAssumption DEF ResilientInv, ResilientTypeOK, Events
<1>6. answer[e] = "none"
    BY <1>2 DEF ResilientInv, NothingLost, InHand, Event
<1> HIDE DEF e
<1>7. ASSUME NEW x \in 1..taken PROVE InHand(x)' <=> answer'[x] = "none"
  <2>1. CASE x = e
    <3>1. \A s \in Requests : writing'[s].event # x
        BY <1>1, <1>5, <1>7, <2>1 DEF e, ResilientInv, Hands
    <3> QED BY <1>2, <1>3, <2>1, <3>1 DEF InHand, Event
  <2>2. CASE x # e
    <3>1. \A s \in Requests : writing'[s].event = x <=> writing[s].event = x
        BY <1>1, <1>5, <2>2 DEF e
    <3>2. InHand(x)' <=> InHand(x)
        BY <3>1 DEF InHand, Event
    <3> QED BY <1>3, <1>5, <2>2, <3>2 DEF ResilientInv, NothingLost
  <2> QED BY <2>1, <2>2
<1>8. ASSUME NEW x \in Events, answer'[x] = "ok" PROVE effects'[x] > 0
  <2>1. CASE x = e
      BY <1>3, <1>8, <2>1 DEF e
  <2>2. CASE x # e
      BY <1>3, <1>8, <2>2 DEF e, ResilientInv, NothingLost
  <2> QED BY <2>1, <2>2
<1>9. ASSUME NEW x \in Events, EnableDLQ
      PROVE  answer'[x] = "error" <=> Among(dlq', x) \/ x \in evicted'
  <2>1. answer[x] = "error" <=> Among(dlq, x) \/ x \in evicted
      BY <1>9 DEF ResilientInv, NothingLost, InDLQ, Among
  <2>2. Among(dlq', x) \/ x \in evicted' <=> Among(dlq, x) \/ x \in evicted \/ (a = "error" /\ x = e)
      BY <1>9 DEF e
  <2> QED BY <1>3, <1>6, <2>1, <2>2
<1>10. NothingLost'
    BY <1>7, <1>8, <1>9 DEF NothingLost, InDLQ, Among, Distinct
<1>11. Hands'
  <2>1. \A x \in Events : x > taken => x # e
      BY <1>2 DEF Events
  <2>2. \A s \in Requests : writing'[s].event <= taken
      BY <1>1, <1>2 DEF ResilientInv, Hands
  <2>3. \A x \in Events : x > taken => answer'[x] = "none" /\ effects'[x] = 0
      BY <1>3, <2>1 DEF e, ResilientInv, Hands
  <2>4. \A s, u \in Requests : writing'[s].event = writing'[u].event /\ writing'[s].event # 0 => s = u
      BY <1>1 DEF ResilientInv, Hands
  <2>5. \A s \in Requests : writing'[s].event = 0 <=> writing'[s].pc \in {"idle", "flush"}
      BY <1>1 DEF ResilientInv, Hands
  <2> QED BY <2>2, <2>3, <2>4, <2>5 DEF Hands
<1>12. ASSUME NEW s \in Requests PROVE Applied(writing'[s], effects')
  <2>1. CASE s = r
      BY <1>1, <2>1 DEF Applied
  <2>2. CASE s # r /\ writing[s].pc \in {"attempt", "operation", "backoff"}
    <3>1. /\ writing'[s] = writing[s] /\ writing[s].event # e /\ writing[s].event \in Events
      <4>1. writing[s].event # 0 /\ writing[s].event \in Events
          BY <2>2, EventInHand
      <4> QED BY <1>1, <2>2, <4>1 DEF e, ResilientInv, Hands
    <3>2. effects'[writing[s].event] = effects[writing[s].event]
        BY <3>1 DEF e
    <3> QED BY <3>1, <3>2 DEF ResilientInv, AppliedByAttempts, Applied
  <2>3. CASE s # r /\ writing[s].pc \notin {"attempt", "operation", "backoff"}
      BY <1>1, <2>3 DEF Applied
  <2> QED BY <2>1, <2>2, <2>3
<1>13. AppliedByAttempts'
    BY <1>12 DEF AppliedByAttempts, Applied
<1> QED BY <1>4, <1>10, <1>11, <1>13 DEF ResilientInv

\* The wrapped Write has returned nil.
LEMMA SucceededKeeps ==
    ASSUME ResilientInv, TypeOK', NEW r \in Requests, Succeeded(r)
    PROVE  ResilientInv'
<1> DEFINE e == writing[r].event
           n == effects[e] + 1
<1>1. /\ writing[r].pc = "operation" /\ writing' = [writing EXCEPT ![r] = Idle]
      /\ answer' = [answer EXCEPT ![e] = "ok"] /\ effects' = [effects EXCEPT ![e] = n]
      /\ UNCHANGED <<taken, ctxDone, dlq, evicted>>
    BY DEF Succeeded, At, Event
<1>2. e # 0 /\ e \in Events
    BY <1>1, EventInHand
<1>3. effects[e] <= writing[r].attempt /\ writing[r].attempt \in 0..MaxAttempts /\ effects[e] \in Nat
    BY <1>1, <1>2, ResilientAssumption DEF ResilientInv, ResilientTypeOK, AppliedByAttempts, Applied
<1>4. n \in 0..(MaxAttempts + 1) /\ n >= effects[e] /\ n > 0
    BY <1>3, ResilientAssumption
<1> HIDE DEF n
<1>5. /\ effects' \in [Events -> 0..(MaxAttempts + 1)]
      /\ \A x \in Events : effects'[x] = IF x = e THEN n ELSE effects[x]
    BY <1>1, <1>2, <1>4 DEF ResilientInv, ResilientTypeOK
<1>6. \A x \in Events : effects'[x] >= effects[x] /\ (x # e => effects'[x] = effects[x])
    BY <1>4, <1>5, ResilientAssumption DEF ResilientInv, ResilientTypeOK
<1>7. /\ dlq' \in Seq(Events) /\ evicted' \subseteq Events /\ Distinct(dlq')
      /\ effects'[e] > 0
    BY <1>1, <1>2, <1>4, <1>5 DEF ResilientInv, ResilientTypeOK, NothingLost, Distinct
<1> QED BY <1>1, <1>2, <1>5, <1>6, <1>7, DoneKeeps

\* The event is given up.
LEMMA GiveUpKeeps ==
    ASSUME ResilientInv, TypeOK', NEW r \in Requests, GiveUp(r)
    PROVE  ResilientInv'
<1> DEFINE e == writing[r].event
<1>1. /\ writing[r].pc = "giveup" /\ writing' = [writing EXCEPT ![r] = Idle]
      /\ answer' = [answer EXCEPT ![e] = "error"]
      /\ IF EnableDLQ THEN Capture(e) ELSE UNCHANGED <<dlq, evicted>>
      /\ UNCHANGED <<taken, ctxDone, effects>>
    BY DEF GiveUp, At, Event
<1>2. e # 0 /\ e \in Events /\ e \in 1..taken
    BY <1>1, EventInHand
<1>3. answer[e] = "none"
    BY <1>2 DEF ResilientInv, NothingLost, InHand, Event
<1>4. dlq \in Seq(Events) /\ evicted \subseteq Events /\ Distinct(dlq)
    BY DEF ResilientInv, ResilientTypeOK, NothingLost, Distinct
<1>5. /\ dlq' \in Seq(Events) /\ evicted' \subseteq Events /\ Distinct(dlq')
      /\ EnableDLQ => \A x : Among(dlq', x) \/ x \in evicted' <=> Among(dlq, x) \/ x \in evicted \/ x = e
  <2>1. CASE EnableDLQ
    <3>1. ~Among(dlq, e)
        BY <1>2, <1>3, <2>1 DEF ResilientInv, NothingLost, InDLQ, Among
    <3> QED BY <1>1, <1>2, <1>4, <2>1, <3>1, CaptureKeeps
  <2>2. CASE ~EnableDLQ
      BY <1>1, <1>4, <2>2
  <2> QED BY <2>1, <2>2
<1>6. /\ effects' \in [Events -> 0..(MaxAttempts + 1)]
      /\ \A x \in Events : effects'[x] >= effects[x] /\ effects'[x] = effects[x]
    BY <1>1, ResilientAssumption DEF ResilientInv, ResilientTypeOK
<1> QED BY <1>1, <1>2, <1>5, <1>6, DoneKeeps

\* Every step keeps the invariant.
LEMMA ResilientInvStep == ResilientInv /\ [ResilientNext]_allVars => ResilientInv'
<1> SUFFICES ASSUME ResilientInv, [ResilientNext]_allVars PROVE ResilientInv'
    OBVIOUS
<1>1. TypeOK'
    BY StepOfBreaker, TypeStep DEF ResilientInv, ResilientTypeOK
<1>2. ASSUME NEW r \in Requests, Write(r) \/ Flush(r) PROVE ResilientInv'
    BY <1>1, <1>2, BeginWriteKeeps, AttemptKeeps, SucceededKeeps, FailedAttemptKeeps, BackoffKeeps,
       GiveUpKeeps, FlushKeeps DEF Write
<1>3. CASE Cancel \/ Environment \/ UNCHANGED allVars
  <2>1. ctxDone' \in BOOLEAN /\ UNCHANGED <<writing, taken, effects, answer, dlq, evicted>>
      BY <1>3 DEF Cancel, Environment, sinkState, allVars, ResilientInv, ResilientTypeOK
  <2>2. ResilientTypeOK'
      BY <1>1, <2>1 DEF ResilientInv, ResilientTypeOK
  <2>3. NothingLost'
      BY <2>1 DEF ResilientInv, NothingLost, InDLQ, InHand, Event
  <2>4. Hands' /\ AppliedByAttempts'
      BY <2>1 DEF ResilientInv, Hands, AppliedByAttempts, Applied
  <2> QED BY <2>2, <2>3, <2>4 DEF ResilientInv
<1> QED BY <1>2, <1>3 DEF ResilientNext

\* The invariant always holds.
LEMMA ResilientInvAlways == ResilientSpec => []ResilientInv
BY ResilientInitially, ResilientInvStep, PTL DEF ResilientSpec

\* The type invariant of the resilient sink: an event takes effect at most once per attempt.
THEOREM ResilientTypeCorrect == ResilientSpec => []ResilientTypeOK
<1>1. ResilientInv => ResilientTypeOK
    BY DEF ResilientInv
<1> QED BY <1>1, ResilientInvAlways, PTL

\* Write of the resilient sink loses no event.
THEOREM NoEventLost == ResilientSpec => []NothingLost
<1>1. ResilientInv => NothingLost
    BY DEF ResilientInv
<1> QED BY <1>1, ResilientInvAlways, PTL

-----------------------------------------------------------------------------
(* The dead letter queue and the error handling operator.                  *)

\* A nonempty set of positions has a first one.
LEMMA FirstOf ==
    ASSUME NEW I \in SUBSET Nat, I # {}
    PROVE  Min(I) \in I
<1>1. PICK m \in I : \A j \in I : ~(<<j, m>> \in OpToRel(<, Nat))
    BY NatLessThanWellFounded, WFMin
<1>2. \A j \in I : m <= j
  <2> SUFFICES ASSUME NEW j \in I, j < m PROVE FALSE
      OBVIOUS
  <2> QED BY <1>1 DEF OpToRel
<1> QED BY <1>2 DEF Min

\* Delete shortens the queue by one.
LEMMA RemovedOne ==
    ASSUME NEW S, NEW s \in Seq(S), NEW f, \E i \in 1..Len(s) : s[i] = f
    PROVE  RemoveFirst(s, f) \in Seq(S) /\ Len(RemoveFirst(s, f)) = Len(s) - 1
<1> DEFINE I == {j \in 1..Len(s) : s[j] = f}
<1>1. I # {} /\ I \in SUBSET Nat
    OBVIOUS
<1>2. Min(I) \in I
    BY <1>1, FirstOf
<1>3. RemoveFirst(s, f) = RemoveAt(s, Min(I))
    BY <1>1, Zenon DEF RemoveFirst, SelectInSeq
<1>4. PICK i \in 1..Len(s) : RemoveFirst(s, f) = RemoveAt(s, i)
    BY <1>2, <1>3
<1>5. i - 1 \in 0..Len(s) /\ i + 1 \in 1..(Len(s) + 1)
    OBVIOUS
<1> DEFINE before == SubSeq(s, 1, i - 1)
           after == SubSeq(s, i + 1, Len(s))
<1>6. before \in Seq(S) /\ Len(before) = i - 1
    BY <1>5, SubSeqProperties
<1>7. after \in Seq(S) /\ Len(after) = Len(s) - i
    BY <1>5, SubSeqProperties
<1>8. RemoveFirst(s, f) = before \o after
    BY <1>4 DEF RemoveAt
<1> HIDE DEF before, after
<1>9. before \o after \in Seq(S) /\ Len(before \o after) = Len(before) + Len(after)
    BY <1>6, <1>7, ConcatProperties
<1>10. Len(RemoveFirst(s, f)) = (i - 1) + (Len(s) - i) /\ Len(s) \in Nat
    BY <1>6, <1>7, <1>8, <1>9
<1> QED BY <1>8, <1>9, <1>10

-----------------------------------------------------------------------------
\* CurrentSize covers the queue and the deletions it has still to learn of, but for the
\* writes it has still to learn of.
SizeCovers ==
    queueStats.size + Cardinality(Owing("write")) >= Len(queued) + Cardinality(Owing("delete"))

\* The inductive invariant.
QueueInv == QueueTypeOK /\ TotalsAccount /\ SizeCovers

\* The callers that owe an update are finitely many.
LEMMA OwingFinite ==
    ASSUME NEW op
    PROVE  IsFiniteSet(Owing(op)) /\ Cardinality(Owing(op)) \in Nat
BY DLQAssumption, FS_Subset, FS_CardinalityType DEF Owing

\* A call adds its caller to the ones that owe its kind of update.
LEMMA CallOwes ==
    ASSUME QueueTypeOK, NEW c \in Callers, NEW op \in {"write", "read", "delete"}, NEW n \in Nat,
           QueueCall(c, op, n)
    PROVE  /\ \A o \in {"write", "delete"} :
                Cardinality(Owing(o))' = Cardinality(Owing(o)) + (IF o = op THEN 1 ELSE 0)
           /\ owed' \in [Callers -> [op : {"none", "write", "read", "delete"}, count : Nat]]
           /\ queueCalls' \in 0..MaxCalls
           /\ queueStats' = queueStats
<1>1. owed[c].op = "none" /\ owed' = [owed EXCEPT ![c] = [op |-> op, count |-> n]]
    BY DEF QueueCall, Nothing
<1>2. ASSUME NEW o \in {"write", "delete"}
      PROVE  Cardinality(Owing(o))' = Cardinality(Owing(o)) + (IF o = op THEN 1 ELSE 0)
  <2>1. Owing(o)' = IF o = op THEN Owing(o) \cup {c} ELSE Owing(o)
      BY <1>1 DEF Owing, QueueTypeOK
  <2>2. c \notin Owing(o)
      BY <1>1 DEF Owing
  <2> QED BY <2>1, <2>2, OwingFinite, FS_AddElement
<1>3. queueCalls' \in 0..MaxCalls
    BY DLQAssumption DEF QueueCall, QueueTypeOK
<1>4. owed' \in [Callers -> [op : {"none", "write", "read", "delete"}, count : Nat]]
    BY <1>1 DEF QueueTypeOK
<1> QED BY <1>2, <1>3, <1>4 DEF QueueCall

\* Count settles what its caller owes.
LEMMA CountSettles ==
    ASSUME QueueTypeOK, NEW c \in Callers, Count(c)
    PROVE  /\ \A o \in {"write", "delete"} :
                Cardinality(Owing(o))' = Cardinality(Owing(o)) - (IF o = owed[c].op THEN 1 ELSE 0)
           /\ owed' \in [Callers -> [op : {"none", "write", "read", "delete"}, count : Nat]]
<1>1. owed' = [owed EXCEPT ![c] = Nothing]
    BY DEF Count
<1>2. ASSUME NEW o \in {"write", "delete"}
      PROVE  Cardinality(Owing(o))' = Cardinality(Owing(o)) - (IF o = owed[c].op THEN 1 ELSE 0)
  <2>1. Owing(o)' = IF o = owed[c].op THEN Owing(o) \ {c} ELSE Owing(o)
      BY <1>1 DEF Owing, QueueTypeOK, Nothing
  <2>2. c \in Owing(o) <=> o = owed[c].op
      BY DEF Owing
  <2>3. CASE o = owed[c].op
      BY <2>1, <2>2, <2>3, OwingFinite, FS_RemoveElement, ZenonT(30)
  <2>4. CASE o # owed[c].op
      BY <2>1, <2>4, OwingFinite
  <2> QED BY <2>3, <2>4
<1> QED BY <1>1, <1>2 DEF QueueTypeOK, Nothing

\* An empty queue with nothing counted.
LEMMA QueueInitially == QueueInit => QueueInv
<1> SUFFICES ASSUME QueueInit PROVE QueueInv
    OBVIOUS
<1>1. Owing("write") = {} /\ Owing("delete") = {}
    BY DEF QueueInit, Owing, Nothing
<1>2. QueueTypeOK
    BY DLQAssumption DEF QueueInit, QueueTypeOK, Nothing, Stats
<1>3. /\ queueStats.written = 0 /\ queueStats.deleted = 0 /\ queueStats.size = 0
      /\ Len(queued) = 0 /\ gone = 0
    BY DEF QueueInit
<1>4. Cardinality(Owing("write")) = 0 /\ Cardinality(Owing("delete")) = 0
    BY <1>1, FS_EmptySet
<1> QED BY <1>2, <1>3, <1>4 DEF QueueInv, TotalsAccount, SizeCovers

\* Write: one more in the queue or, when it was full, one more gone.
LEMMA WriteKeeps ==
    ASSUME QueueInv, NEW c \in Callers, NEW f \in Failed, QueueWrite(c, f)
    PROVE  QueueInv'
<1>1. /\ Cardinality(Owing("write"))' = Cardinality(Owing("write")) + 1
      /\ Cardinality(Owing("delete"))' = Cardinality(Owing("delete"))
      /\ queueStats' = queueStats /\ queueCalls' \in 0..MaxCalls
      /\ owed' \in [Callers -> [op : {"none", "write", "read", "delete"}, count : Nat]]
    BY CallOwes, OwingFinite DEF QueueWrite, QueueInv
<1>2. queued' \in Seq(Failed) /\ gone' \in Nat /\ (MaxSize > 0 => Len(queued') <= MaxSize)
      /\ Len(queued') + gone' = Len(queued) + gone + 1 /\ Len(queued') <= Len(queued) + 1
  <2>1. CASE Full
    <3>1. Tail(queued) \in Seq(Failed) /\ Len(Tail(queued)) = Len(queued) - 1
        BY <2>1, DLQAssumption DEF Full, QueueInv, QueueTypeOK
    <3>2. queued' = Append(Tail(queued), f) /\ gone' = gone + 1
        BY <2>1 DEF QueueWrite
    <3> QED BY <3>1, <3>2, DLQAssumption DEF QueueInv, QueueTypeOK
  <2>2. CASE ~Full
    <3>1. queued' = Append(queued, f) /\ gone' = gone
        BY <2>2 DEF QueueWrite
    <3> QED BY <2>2, <3>1, DLQAssumption DEF Full, QueueInv, QueueTypeOK
  <2> QED BY <2>1, <2>2
<1>3. QueueTypeOK'
    BY <1>1, <1>2 DEF QueueInv, QueueTypeOK
<1> DEFINE w == Cardinality(Owing("write"))
           d == Cardinality(Owing("delete"))
           written == queueStats.written
           deleted == queueStats.deleted
           size == queueStats.size
           before == Len(queued)
           after == Len(queued')
           lost == gone
           lostAfter == gone'
<1>4. /\ w \in Nat /\ d \in Nat /\ written \in Nat /\ deleted \in Nat /\ size \in Nat
      /\ before \in Nat /\ after \in Nat /\ lost \in Nat /\ lostAfter \in Nat
    BY <1>2, OwingFinite DEF QueueInv, QueueTypeOK, Stats
<1>5. written + w = before + deleted + d + lost /\ size + w >= before + d
    BY DEF QueueInv, TotalsAccount, SizeCovers
<1>6. after + lostAfter = before + lost + 1 /\ after <= before + 1
    BY <1>2
<1>7. /\ TotalsAccount' <=> written + (w + 1) = after + deleted + d + lostAfter
      /\ SizeCovers' <=> size + (w + 1) >= after + d
    BY <1>1 DEF TotalsAccount, SizeCovers
<1> HIDE DEF w, d, written, deleted, size, before, after, lost, lostAfter
<1>8. written + (w + 1) = after + deleted + d + lostAfter /\ size + (w + 1) >= after + d
    BY <1>4, <1>5, <1>6
<1> QED BY <1>3, <1>7, <1>8 DEF QueueInv

\* Delete: one less in the queue, and one update owed.
LEMMA DequeueKeeps ==
    ASSUME QueueInv, NEW c \in Callers, NEW f \in Failed, QueueDelete(c, f)
    PROVE  QueueInv'
<1>1. /\ Cardinality(Owing("write"))' = Cardinality(Owing("write"))
      /\ Cardinality(Owing("delete"))' = Cardinality(Owing("delete")) + 1
      /\ queueStats' = queueStats /\ queueCalls' \in 0..MaxCalls
      /\ owed' \in [Callers -> [op : {"none", "write", "read", "delete"}, count : Nat]]
    BY CallOwes, OwingFinite DEF QueueDelete, QueueInv
<1>2. queued' \in Seq(Failed) /\ Len(queued') = Len(queued) - 1 /\ gone' = gone
    BY RemovedOne DEF QueueDelete, QueueInv, QueueTypeOK
<1>3. QueueTypeOK'
    BY <1>1, <1>2, DLQAssumption DEF QueueInv, QueueTypeOK
<1> DEFINE w == Cardinality(Owing("write"))
           d == Cardinality(Owing("delete"))
           written == queueStats.written
           deleted == queueStats.deleted
           size == queueStats.size
           before == Len(queued)
           lost == gone
<1>4. /\ w \in Nat /\ d \in Nat /\ written \in Nat /\ deleted \in Nat /\ size \in Nat
      /\ before \in Nat /\ lost \in Nat
    BY OwingFinite DEF QueueInv, QueueTypeOK, Stats
<1>5. written + w = before + deleted + d + lost /\ size + w >= before + d
    BY DEF QueueInv, TotalsAccount, SizeCovers
<1>6. /\ TotalsAccount' <=> written + w = (before - 1) + deleted + (d + 1) + lost
      /\ SizeCovers' <=> size + w >= (before - 1) + (d + 1)
    BY <1>1, <1>2 DEF TotalsAccount, SizeCovers
<1> HIDE DEF w, d, written, deleted, size, before, lost
<1>7. written + w = (before - 1) + deleted + (d + 1) + lost /\ size + w >= (before - 1) + (d + 1)
    BY <1>4, <1>5
<1> QED BY <1>3, <1>6, <1>7 DEF QueueInv

\* Read leaves the accounts as they are.
LEMMA ReadKeepsQueue ==
    ASSUME QueueInv, NEW c \in Callers, NEW limit \in 0..1, QueueRead(c, limit)
    PROVE  QueueInv'
<1> DEFINE n == IF limit <= 0 \/ limit > Len(queued) THEN Len(queued) ELSE limit
<1>1. n \in Nat
    BY DEF QueueInv, QueueTypeOK, Stats
<1>2. QueueCall(c, "read", n) /\ UNCHANGED <<queued, gone>>
    BY DEF QueueRead
<1> HIDE DEF n
<1>3. /\ Cardinality(Owing("write"))' = Cardinality(Owing("write"))
      /\ Cardinality(Owing("delete"))' = Cardinality(Owing("delete"))
      /\ queueStats' = queueStats /\ queueCalls' \in 0..MaxCalls
      /\ owed' \in [Callers -> [op : {"none", "write", "read", "delete"}, count : Nat]]
    BY <1>1, <1>2, CallOwes, OwingFinite DEF QueueInv
<1> QED BY <1>2, <1>3 DEF QueueInv, QueueTypeOK, TotalsAccount, SizeCovers

\* The update of the statistics settles what its call owes.
LEMMA CountKeeps ==
    ASSUME QueueInv, NEW c \in Callers, Count(c)
    PROVE  QueueInv'
<1> DEFINE w == Cardinality(Owing("write"))
           d == Cardinality(Owing("delete"))
           written == queueStats.written
           deleted == queueStats.deleted
           size == queueStats.size
           length == Len(queued)
           lost == gone
<1>1. /\ Cardinality(Owing("write"))' = w - (IF "write" = owed[c].op THEN 1 ELSE 0)
      /\ Cardinality(Owing("delete"))' = d - (IF "delete" = owed[c].op THEN 1 ELSE 0)
      /\ owed' \in [Callers -> [op : {"none", "write", "read", "delete"}, count : Nat]]
    BY CountSettles DEF QueueInv
<1>2. /\ w \in Nat /\ d \in Nat /\ written \in Nat /\ deleted \in Nat /\ size \in Nat
      /\ length \in Nat /\ lost \in Nat /\ queueStats.read \in Nat /\ owed[c].count \in Nat
    BY OwingFinite DEF QueueInv, QueueTypeOK, Stats
<1>3. written + w = length + deleted + d + lost /\ size + w >= length + d
    BY DEF QueueInv, TotalsAccount, SizeCovers
<1>4. UNCHANGED <<queued, gone, queueCalls>>
    BY DEF Count
<1>5. queueStats = [written |-> written, read |-> queueStats.read, deleted |-> deleted, size |-> size]
    BY DEF QueueInv, QueueTypeOK, Stats
<1>6. CASE CountWrite(c)
  <2>1. owed[c].op = "write"
        /\ queueStats' = [written |-> written + 1, read |-> queueStats.read,
                          deleted |-> deleted, size |-> size + 1]
      BY <1>5, <1>6 DEF CountWrite
  <2>2. queueStats' \in Stats
      BY <1>2, <2>1 DEF Stats
  <2>3. /\ TotalsAccount' <=> (written + 1) + (w - 1) = length + deleted + (d - 0) + lost
        /\ SizeCovers' <=> (size + 1) + (w - 1) >= length + (d - 0)
      BY <1>1, <1>4, <2>1 DEF TotalsAccount, SizeCovers
  <2>4. QueueTypeOK'
      BY <1>1, <1>4, <2>2 DEF QueueInv, QueueTypeOK
  <2> HIDE DEF w, d, written, deleted, size, length, lost
  <2>5. (written + 1) + (w - 1) = length + deleted + (d - 0) + lost /\ (size + 1) + (w - 1) >= length + (d - 0)
      BY <1>2, <1>3
  <2> QED BY <2>3, <2>4, <2>5 DEF QueueInv
<1>7. CASE CountRead(c)
  <2>1. owed[c].op = "read"
        /\ queueStats' = [written |-> written, read |-> queueStats.read + owed[c].count,
                          deleted |-> deleted, size |-> size]
      BY <1>5, <1>7 DEF CountRead
  <2>2. queueStats' \in Stats
      BY <1>2, <2>1 DEF Stats
  <2>3. /\ TotalsAccount' <=> written + (w - 0) = length + deleted + (d - 0) + lost
        /\ SizeCovers' <=> size + (w - 0) >= length + (d - 0)
      BY <1>1, <1>4, <2>1 DEF TotalsAccount, SizeCovers
  <2>4. QueueTypeOK'
      BY <1>1, <1>4, <2>2 DEF QueueInv, QueueTypeOK
  <2> HIDE DEF w, d, written, deleted, size, length, lost
  <2>5. written + (w - 0) = length + deleted + (d - 0) + lost /\ size + (w - 0) >= length + (d - 0)
      BY <1>2, <1>3
  <2> QED BY <2>3, <2>4, <2>5 DEF QueueInv
<1>8. CASE CountDelete(c)
  <2> DEFINE smaller == IF size > 0 THEN size - 1 ELSE size
  <2>1. owed[c].op = "delete"
        /\ queueStats' = [written |-> written, read |-> queueStats.read,
                          deleted |-> deleted + 1, size |-> smaller]
      BY <1>5, <1>8 DEF CountDelete
  <2>2. queueStats' \in Stats
      BY <1>2, <2>1 DEF Stats
  <2>3. /\ TotalsAccount' <=> written + (w - 0) = length + (deleted + 1) + (d - 1) + lost
        /\ SizeCovers' <=> smaller + (w - 0) >= length + (d - 1)
      BY <1>1, <1>4, <2>1 DEF TotalsAccount, SizeCovers
  <2>4. QueueTypeOK'
      BY <1>1, <1>4, <2>2 DEF QueueInv, QueueTypeOK
  <2> HIDE DEF w, d, written, deleted, size, length, lost
  <2>5. written + (w - 0) = length + (deleted + 1) + (d - 1) + lost /\ smaller + (w - 0) >= length + (d - 1)
      BY <1>2, <1>3
  <2> QED BY <2>3, <2>4, <2>5 DEF QueueInv
<1> QED BY <1>6, <1>7, <1>8 DEF Count

\* Close drops what is queued.
LEMMA CloseKeeps == ASSUME QueueInv, QueueClose PROVE QueueInv'
<1>1. queued' = <<>> /\ gone' = gone + Len(queued) /\ UNCHANGED <<queueStats, owed, queueCalls>>
    BY DEF QueueClose
<1>2. QueueTypeOK'
    BY <1>1, DLQAssumption DEF QueueInv, QueueTypeOK
<1>3. Owing("write")' = Owing("write") /\ Owing("delete")' = Owing("delete")
    BY <1>1 DEF Owing
<1> DEFINE w == Cardinality(Owing("write"))
           d == Cardinality(Owing("delete"))
           written == queueStats.written
           deleted == queueStats.deleted
           size == queueStats.size
           before == Len(queued)
           lost == gone
<1>4. /\ w \in Nat /\ d \in Nat /\ written \in Nat /\ deleted \in Nat /\ size \in Nat
      /\ before \in Nat /\ lost \in Nat
    BY OwingFinite DEF QueueInv, QueueTypeOK, Stats
<1>5. written + w = before + deleted + d + lost /\ size + w >= before + d
    BY DEF QueueInv, TotalsAccount, SizeCovers
<1>6. /\ TotalsAccount' <=> written + w = 0 + deleted + d + (lost + before)
      /\ SizeCovers' <=> size + w >= 0 + d
    BY <1>1, <1>3 DEF TotalsAccount, SizeCovers
<1> HIDE DEF w, d, written, deleted, size, before, lost
<1>7. written + w = 0 + deleted + d + (lost + before) /\ size + w >= 0 + d
    BY <1>4, <1>5
<1> QED BY <1>2, <1>6, <1>7 DEF QueueInv

\* The invariant is inductive.
LEMMA QueueInvAlways == QueueSpec => []QueueInv
<1>1. QueueInv /\ [QueueNext]_queueVars => QueueInv'
  <2>1. ASSUME QueueInv, UNCHANGED queueVars PROVE QueueInv'
      BY <2>1 DEF queueVars, QueueInv, QueueTypeOK, TotalsAccount, SizeCovers, Owing
  <2> QED BY <2>1, WriteKeeps, DequeueKeeps, ReadKeepsQueue, CountKeeps, CloseKeeps DEF QueueNext
<1> QED BY QueueInitially, <1>1, PTL DEF QueueSpec

-----------------------------------------------------------------------------
\* The queue stays within its limit and no statistic goes below zero.
THEOREM QueueTypeCorrect == QueueSpec => []QueueTypeOK
<1>1. QueueInv => QueueTypeOK
    BY DEF QueueInv
<1> QED BY QueueInvAlways, <1>1, PTL

\* TotalWritten and TotalDeleted (dlq.go:219) account for every event, whatever calls are
\* between their two critical sections.
THEOREM TotalsAlwaysAccount == QueueSpec => []TotalsAccount
<1>1. QueueInv => TotalsAccount
    BY DEF QueueInv
<1> QED BY QueueInvAlways, <1>1, PTL

\* CurrentSize never hides an event that waits, although Delete's decrement is guarded and
\* may come before the increment of the Write it belongs to.
THEOREM SizeNeverHides == QueueSpec => []SizeNeverTooSmall
<1>1. ASSUME QueueInv PROVE SizeNeverTooSmall
  <2> DEFINE w == Cardinality(Owing("write"))
             d == Cardinality(Owing("delete"))
             size == queueStats.size
             length == Len(queued)
  <2>1. w \in Nat /\ d \in Nat /\ size \in Nat /\ length \in Nat
      BY <1>1, OwingFinite DEF QueueInv, QueueTypeOK, Stats
  <2>2. size + w >= length + d
      BY <1>1 DEF QueueInv, SizeCovers
  <2>3. SizeNeverTooSmall <=> size + w >= length
      BY DEF SizeNeverTooSmall
  <2> HIDE DEF w, d, size, length
  <2> QED BY <2>1, <2>2, <2>3
<1> QED BY QueueInvAlways, <1>1, PTL

-----------------------------------------------------------------------------
(* The error handling operator and its side outputs.                       *)

\* Where the call of Process for an event is, and what it knows.
Places == {"new", "operator", "backoff", "ok", "failed", "emit", "send", "error"}
Categories == {ClassifyError(err) : err \in OperatorErrors \cup {{"canceled"}}} \cup {"none"}
Waits == {0} \cup UNION {calculateBackoff(n) : n \in Nat}
Calls == [at : Places, attempts : Nat, category : Categories, wait : Waits, chan : Nat]
Channels == [queue : Seq(HandledEvents), closed : BOOLEAN, read : BOOLEAN]

\* What the variables hold.
HandlerTyped ==
    /\ engineConfig \in EngineConfigs
    /\ handled \in [HandledEvents -> Calls]
    /\ sideChans \in Seq(Channels)
    /\ sideOutput \in 0..Len(sideChans)
    /\ \A e \in HandledEvents : handled[e].at = "send" => handled[e].chan \in 1..Len(sideChans)
    /\ sideFate \in [HandledEvents ->
                       {"none", "no output", "fault", "sent", "cancelled", "full", "handled"}]

\* From the dead letter queue on, the queue has the event with its attempts.
Written ==
    \A e \in HandledEvents :
        handled[e].at \in {"emit", "send", "error"} /\ engineConfig.dlq = "memory"
            => e \in DOMAIN captured /\ captured[e] = handled[e].attempts

\* The side output event has no fate before Process returns the error, and one after it
\* unless the queue failed.
FateWithTheError ==
    \A e \in HandledEvents :
        /\ handled[e].at # "error" => sideFate[e] = "none"
        /\ handled[e].at = "error" /\ engineConfig.side /\ sideFate[e] = "none"
             => engineConfig.dlq = "file"

\* The events that were sent and not received are those in the channels, each once.
InChannels(s, x) == \E c \in 1..Len(s) : \E i \in 1..Len(s[c].queue) : s[c].queue[i] = x
EachOnce(s) ==
    \A c, d \in 1..Len(s) : \A i \in 1..Len(s[c].queue), j \in 1..Len(s[d].queue) :
        s[c].queue[i] = s[d].queue[j] => c = d /\ i = j
SentAreQueued == \A e \in HandledEvents : sideFate[e] = "sent" <=> InChannels(sideChans, e)
QueuedOnce == EachOnce(sideChans)

\* The registered channel is open, and one that was closed under an Emit is on record.
ClosedOnRecord ==
    /\ sideOutput # 0 => ~sideChans[sideOutput].closed
    /\ \A e \in HandledEvents : handled[e].at = "send" /\ sideChans[handled[e].chan].closed => overlap
    /\ sideFault => overlap

\* The inductive invariant.
HandlerInv ==
    /\ HandlerTyped /\ Written /\ FateWithTheError /\ SentAreQueued /\ QueuedOnce /\ ClosedOnRecord

-----------------------------------------------------------------------------
\* A channel of a sequence of channels.
LEMMA ChannelFacts ==
    ASSUME NEW s \in Seq(Channels)
    PROVE  /\ Len(s) \in Nat /\ DOMAIN s = 1..Len(s)
           /\ \A c \in 1..Len(s) :
                /\ s[c] \in Channels /\ s[c].queue \in Seq(HandledEvents)
                /\ Len(s[c].queue) \in Nat /\ DOMAIN s[c].queue = 1..Len(s[c].queue)
<1>1. Len(s) \in Nat /\ DOMAIN s = 1..Len(s)
    BY LenProperties
<1>2. ASSUME NEW c \in 1..Len(s)
      PROVE  /\ s[c] \in Channels /\ s[c].queue \in Seq(HandledEvents)
             /\ Len(s[c].queue) \in Nat /\ DOMAIN s[c].queue = 1..Len(s[c].queue)
  <2>1. s[c] \in Channels
      BY ElementOfSeq
  <2>2. s[c].queue \in Seq(HandledEvents)
      BY <2>1 DEF Channels
  <2> QED BY <2>1, <2>2, LenProperties
<1> QED BY <1>1, <1>2

\* The two ways to say that an event is in a channel.
LEMMA InChannelsIs ==
    ASSUME NEW s \in Seq(Channels), NEW x
    PROVE  InChannels(s, x) <=> \E c \in DOMAIN s : \E i \in DOMAIN s[c].queue : s[c].queue[i] = x
BY ChannelFacts DEF InChannels

\* One channel is replaced by another.
LEMMA ChannelReplaced ==
    ASSUME NEW s \in Seq(Channels), NEW c \in 1..Len(s), NEW ch \in Channels, NEW t,
           t = [s EXCEPT ![c] = ch]
    PROVE  /\ t \in Seq(Channels) /\ Len(t) = Len(s)
           /\ t[c] = ch /\ \A d \in 1..Len(s) : d # c => t[d] = s[d]
<1>1. Len(s) \in Nat
    BY ChannelFacts
<1> QED BY <1>1, ExceptSeq

\* A channel with the same queue.
LEMMA ChannelMarked ==
    ASSUME NEW s \in Seq(Channels), NEW c \in 1..Len(s), NEW ch \in Channels, NEW t,
           t = [s EXCEPT ![c] = ch], ch.queue = s[c].queue
    PROVE  /\ \A x : InChannels(t, x) <=> InChannels(s, x)
           /\ EachOnce(s) => EachOnce(t)
<1>1. /\ t \in Seq(Channels) /\ Len(t) = Len(s)
      /\ t[c] = ch /\ \A d \in 1..Len(s) : d # c => t[d] = s[d]
    BY ChannelReplaced
<1>2. \A d \in 1..Len(s) : t[d].queue = s[d].queue
    BY <1>1
<1> QED BY <1>1, <1>2 DEF InChannels, EachOnce

\* A new, empty channel.
LEMMA ChannelAdded ==
    ASSUME NEW s \in Seq(Channels)
    PROVE  /\ Append(s, NewChannel) \in Seq(Channels)
           /\ Len(Append(s, NewChannel)) = Len(s) + 1
           /\ \A c \in 1..Len(s) : Append(s, NewChannel)[c] = s[c]
           /\ Append(s, NewChannel)[Len(s) + 1] = NewChannel
           /\ \A x : InChannels(Append(s, NewChannel), x) <=> InChannels(s, x)
           /\ EachOnce(s) => EachOnce(Append(s, NewChannel))
<1> DEFINE t == Append(s, NewChannel)
<1>1. NewChannel \in Channels /\ NewChannel.queue = <<>>
    BY DEF NewChannel, Channels
<1>2. Len(s) \in Nat
    BY ChannelFacts
<1>3. t \in Seq(Channels) /\ Len(t) = Len(s) + 1
      /\ (\A c \in 1..Len(s) : t[c] = s[c]) /\ t[Len(s) + 1] = NewChannel
    BY <1>1, <1>2, AppendProperties
<1>4. Len(<<>>) = 0 /\ \A c \in 1..Len(t) : c \in 1..Len(s) \/ Len(t[c].queue) = 0
    BY <1>1, <1>2, <1>3
<1> HIDE DEF t
<1>5. \A x : InChannels(t, x) <=> InChannels(s, x)
    BY <1>2, <1>3, <1>4 DEF InChannels
<1>6. EachOnce(s) => EachOnce(t)
    BY <1>2, <1>3, <1>4, SMTT(30) DEF EachOnce
<1> QED BY <1>3, <1>5, <1>6 DEF t

\* An event that was in none is sent to a channel.
LEMMA ChannelSent ==
    ASSUME NEW s \in Seq(Channels), NEW c \in 1..Len(s), NEW e \in HandledEvents, NEW ch \in Channels,
           NEW t, t = [s EXCEPT ![c] = ch], ch.queue = Append(s[c].queue, e), ~InChannels(s, e)
    PROVE  /\ \A x : InChannels(t, x) <=> InChannels(s, x) \/ x = e
           /\ EachOnce(s) => EachOnce(t)
<1> DEFINE q == s[c].queue
           r == Append(q, e)
<1>1. /\ t \in Seq(Channels) /\ Len(t) = Len(s)
      /\ t[c] = ch /\ \A d \in 1..Len(s) : d # c => t[d] = s[d]
    BY ChannelReplaced
<1>2. q \in Seq(HandledEvents) /\ Len(q) \in Nat /\ Len(s) \in Nat
    BY ChannelFacts
<1>3. Len(r) = Len(q) + 1 /\ (\A i \in 1..Len(q) : r[i] = q[i]) /\ r[Len(q) + 1] = e
    BY <1>2, AppendProperties
<1>4. \A d \in 1..Len(s) : \A i \in 1..Len(s[d].queue) : s[d].queue[i] # e
    BY DEF InChannels
<1>5. t[c].queue = r
    BY <1>1
<1> HIDE DEF r
<1>6. ASSUME NEW d \in 1..Len(s), NEW i \in 1..Len(t[d].queue)
      PROVE  \/ i \in 1..Len(s[d].queue) /\ t[d].queue[i] = s[d].queue[i]
             \/ d = c /\ i = Len(q) + 1 /\ t[d].queue[i] = e
  <2>1. CASE d = c
      BY <1>2, <1>3, <1>5, <2>1
  <2>2. CASE d # c
      BY <1>1, <2>2
  <2> QED BY <2>1, <2>2
<1>7. ASSUME NEW d \in 1..Len(s), NEW i \in 1..Len(s[d].queue)
      PROVE  i \in 1..Len(t[d].queue) /\ t[d].queue[i] = s[d].queue[i]
  <2>1. CASE d = c
      BY <1>2, <1>3, <1>5, <2>1
  <2>2. CASE d # c
      BY <1>1, <2>2
  <2> QED BY <2>1, <2>2
<1>8. Len(q) + 1 \in 1..Len(t[c].queue) /\ t[c].queue[Len(q) + 1] = e
    BY <1>2, <1>3, <1>5
<1> HIDE DEF q
<1>9. ASSUME NEW x PROVE InChannels(t, x) <=> InChannels(s, x) \/ x = e
  <2>1. ASSUME InChannels(t, x) PROVE InChannels(s, x) \/ x = e
    <3>1. PICK d \in 1..Len(s) : \E i \in 1..Len(t[d].queue) : t[d].queue[i] = x
        BY <1>1, <2>1 DEF InChannels
    <3>2. PICK i \in 1..Len(t[d].queue) : t[d].queue[i] = x
        BY <3>1
    <3> QED BY <1>6, <3>2 DEF InChannels
  <2>2. ASSUME InChannels(s, x) PROVE InChannels(t, x)
    <3>1. PICK d \in 1..Len(s) : \E i \in 1..Len(s[d].queue) : s[d].queue[i] = x
        BY <2>2 DEF InChannels
    <3>2. PICK i \in 1..Len(s[d].queue) : s[d].queue[i] = x
        BY <3>1
    <3>3. i \in 1..Len(t[d].queue) /\ t[d].queue[i] = x
        BY <1>7, <3>2
    <3> QED BY <1>1, <3>3 DEF InChannels
  <2>3. InChannels(t, e)
      BY <1>1, <1>8 DEF InChannels
  <2> QED BY <2>1, <2>2, <2>3
<1>10. ASSUME EachOnce(s) PROVE EachOnce(t)
  <2> SUFFICES ASSUME NEW a \in 1..Len(s), NEW b \in 1..Len(s),
                      NEW i \in 1..Len(t[a].queue), NEW j \in 1..Len(t[b].queue),
                      t[a].queue[i] = t[b].queue[j]
               PROVE  a = b /\ i = j
      BY <1>1 DEF EachOnce
  <2>1. CASE t[a].queue[i] = e
    <3>1. a = c /\ i = Len(q) + 1
        BY <1>4, <1>6, <2>1
    <3>2. b = c /\ j = Len(q) + 1
        BY <1>4, <1>6, <2>1
    <3> QED BY <3>1, <3>2
  <2>2. CASE t[a].queue[i] # e
    <3>1. i \in 1..Len(s[a].queue) /\ t[a].queue[i] = s[a].queue[i]
        BY <1>6, <2>2
    <3>2. j \in 1..Len(s[b].queue) /\ t[b].queue[j] = s[b].queue[j]
        BY <1>6, <2>2
    <3> QED BY <1>10, <3>1, <3>2 DEF EachOnce
  <2> QED BY <2>1, <2>2
<1> QED BY <1>9, <1>10

\* The first event of a channel is received.
LEMMA ChannelReceived ==
    ASSUME NEW s \in Seq(Channels), NEW c \in 1..Len(s), NEW ch \in Channels, NEW t,
           t = [s EXCEPT ![c] = ch], ch.queue = Tail(s[c].queue), s[c].queue # <<>>, EachOnce(s)
    PROVE  /\ Head(s[c].queue) \in HandledEvents
           /\ \A x : InChannels(t, x) <=> InChannels(s, x) /\ x # Head(s[c].queue)
           /\ InChannels(s, Head(s[c].queue))
           /\ EachOnce(t)
<1> DEFINE q == s[c].queue
           r == Tail(q)
           n == Len(q)
<1>1. /\ t \in Seq(Channels) /\ Len(t) = Len(s)
      /\ t[c] = ch /\ \A d \in 1..Len(s) : d # c => t[d] = s[d]
    BY ChannelReplaced
<1>2. q \in Seq(HandledEvents) /\ n \in Nat /\ Len(s) \in Nat
    BY ChannelFacts
<1>3. /\ n \in Nat \ {0} /\ Head(q) = q[1] /\ Head(q) \in HandledEvents /\ Len(r) = n - 1
      /\ \A i \in 1..(n - 1) : r[i] = q[i + 1]
    BY <1>2, EmptySeq, HeadTailProperties
<1>4. t[c].queue = r
    BY <1>1
<1> HIDE DEF r
<1>5. ASSUME NEW d \in 1..Len(s), NEW i \in 1..Len(t[d].queue)
      PROVE  /\ d # c => i \in 1..Len(s[d].queue) /\ t[d].queue[i] = s[d].queue[i]
             /\ d = c => i + 1 \in 2..n /\ t[d].queue[i] = q[i + 1]
  <2>1. CASE d = c
      BY <1>2, <1>3, <1>4, <2>1
  <2>2. CASE d # c
      BY <1>1, <2>2
  <2> QED BY <2>1, <2>2
<1>6. ASSUME NEW d \in 1..Len(s), NEW i \in 1..Len(s[d].queue), ~(d = c /\ i = 1)
      PROVE  \E j \in 1..Len(t[d].queue) : t[d].queue[j] = s[d].queue[i]
  <2>1. CASE d = c
    <3>1. i \in 2..n
        BY <1>2, <1>6, <2>1
    <3>2. i - 1 \in 1..(n - 1) /\ (i - 1) + 1 = i
        BY <1>3, <3>1
    <3>3. i - 1 \in 1..Len(t[c].queue) /\ t[c].queue[i - 1] = q[i]
        BY <1>3, <1>4, <3>2
    <3> QED BY <2>1, <3>3
  <2>2. CASE d # c
      BY <1>1, <2>2
  <2> QED BY <2>1, <2>2
<1>7. 1 \in 1..n
    BY <1>3
<1>8. InChannels(s, Head(q))
    BY <1>3, <1>7 DEF InChannels
<1>9. ASSUME NEW d \in 1..Len(s), NEW i \in 1..Len(s[d].queue), s[d].queue[i] = q[1]
      PROVE  d = c /\ i = 1
    BY <1>7, <1>9 DEF EachOnce
<1>10. ASSUME NEW x PROVE InChannels(t, x) <=> InChannels(s, x) /\ x # Head(q)
  <2>1. ASSUME InChannels(t, x) PROVE InChannels(s, x) /\ x # Head(q)
    <3>0. PICK d \in 1..Len(s) : \E i \in 1..Len(t[d].queue) : t[d].queue[i] = x
        BY <1>1, <2>1 DEF InChannels
    <3>1. PICK i \in 1..Len(t[d].queue) : t[d].queue[i] = x
        BY <3>0
    <3>2. CASE d # c
      <4>1. i \in 1..Len(s[d].queue) /\ s[d].queue[i] = x
          BY <1>5, <3>1, <3>2
      <4> QED BY <1>3, <1>9, <3>2, <4>1 DEF InChannels
    <3>3. CASE d = c
      <4>1. i + 1 \in 2..n /\ q[i + 1] = x
          BY <1>5, <3>1, <3>3
      <4>2. i + 1 \in 1..Len(s[c].queue) /\ s[c].queue[i + 1] = x /\ i + 1 # 1
          BY <1>2, <4>1
      <4>3. x # q[1]
          BY <1>9, <4>2
      <4>4. InChannels(s, x)
          BY <4>2 DEF InChannels
      <4> QED BY <1>3, <4>3, <4>4
    <3> QED BY <3>2, <3>3
  <2>2. ASSUME InChannels(s, x), x # Head(q) PROVE InChannels(t, x)
    <3>0. PICK d \in 1..Len(s) : \E i \in 1..Len(s[d].queue) : s[d].queue[i] = x
        BY <2>2 DEF InChannels
    <3>1. PICK i \in 1..Len(s[d].queue) : s[d].queue[i] = x
        BY <3>0
    <3>2. ~(d = c /\ i = 1)
        BY <1>3, <2>2, <3>1
    <3>3. \E j \in 1..Len(t[d].queue) : t[d].queue[j] = x
        BY <1>6, <3>1, <3>2
    <3> QED BY <1>1, <3>3 DEF InChannels
  <2> QED BY <2>1, <2>2
<1>11. EachOnce(t)
  <2> SUFFICES ASSUME NEW a \in 1..Len(s), NEW b \in 1..Len(s),
                      NEW i \in 1..Len(t[a].queue), NEW j \in 1..Len(t[b].queue),
                      t[a].queue[i] = t[b].queue[j]
               PROVE  a = b /\ i = j
      BY <1>1, SMTT(30) DEF EachOnce
  <2> DEFINE u == IF a = c THEN i + 1 ELSE i
             v == IF b = c THEN j + 1 ELSE j
  <2>1. u \in 1..Len(s[a].queue) /\ s[a].queue[u] = t[a].queue[i]
      BY <1>2, <1>5
  <2>2. v \in 1..Len(s[b].queue) /\ s[b].queue[v] = t[b].queue[j]
      BY <1>2, <1>5
  <2> HIDE DEF u, v
  <2>3. a = b /\ u = v
    <3>1. s[a].queue[u] = s[b].queue[v]
        BY <2>1, <2>2
    <3>2. \A x \in 1..Len(s[a].queue), y \in 1..Len(s[b].queue) :
             s[a].queue[x] = s[b].queue[y] => a = b /\ x = y
        BY Zenon DEF EachOnce
    <3> QED BY <2>1, <2>2, <3>1, <3>2, Zenon
  <2>4. i \in Int /\ j \in Int
      OBVIOUS
  <2> QED BY <2>3, <2>4 DEF u, v
<1> QED BY <1>3, <1>8, <1>10, <1>11

-----------------------------------------------------------------------------
\* The engine starts with the channel its configuration asks for.
LEMMA HandlerInitially == ErrorHandlerInit => HandlerInv
<1> SUFFICES ASSUME ErrorHandlerInit PROVE HandlerInv
    OBVIOUS
<1>1. NewCall \in Calls
  <2>1. "none" \in Categories /\ 0 \in Waits
      BY DEF Categories, Waits
  <2> QED BY <2>1 DEF NewCall, Calls, Places
<1>2. NewChannel \in Channels /\ NewChannel.queue = <<>> /\ ~NewChannel.closed
    BY DEF NewChannel, Channels
<1>3. engineConfig.side \in BOOLEAN
    BY ErrorHandlerAssumption DEF ErrorHandlerInit
<1>4. /\ sideChans \in Seq(Channels) /\ sideOutput \in 0..Len(sideChans)
      /\ \A c \in 1..Len(sideChans) : sideChans[c] = NewChannel
  <2>1. CASE engineConfig.side
    <3>1. sideChans = <<NewChannel>> /\ sideOutput = 1
        BY <2>1 DEF ErrorHandlerInit
    <3> QED BY <1>2, <3>1
  <2>2. CASE ~engineConfig.side
    <3>1. sideChans = <<>> /\ sideOutput = 0
        BY <2>2 DEF ErrorHandlerInit
    <3> QED BY <3>1
  <2> QED BY <1>3, <2>1, <2>2
<1>5. \A e \in HandledEvents : handled[e] = NewCall /\ NewCall.at = "new" /\ sideFate[e] = "none"
    BY DEF ErrorHandlerInit, NewCall
<1>6. HandlerTyped
    BY <1>1, <1>4, <1>5 DEF ErrorHandlerInit, HandlerTyped
<1>7. Written /\ FateWithTheError
    BY <1>5 DEF Written, FateWithTheError
<1>8. \A c \in 1..Len(sideChans) : Len(sideChans[c].queue) = 0
    BY <1>2, <1>4
<1>9. SentAreQueued /\ QueuedOnce
    BY <1>5, <1>8 DEF SentAreQueued, QueuedOnce, InChannels, EachOnce
<1>10. ClosedOnRecord
    BY <1>2, <1>4, <1>5 DEF ErrorHandlerInit, ClosedOnRecord
<1> QED BY <1>6, <1>7, <1>9, <1>10 DEF HandlerInv

\* The call goes on without a word to the queue or a channel.
LEMMA CallKeeps ==
    ASSUME HandlerInv, NEW e \in HandledEvents, NEW h \in Calls,
           handled' = [handled EXCEPT ![e] = h],
           handled[e].at \in {"new", "operator", "backoff"},
           h.at \in {"operator", "backoff", "ok", "failed"},
           Unmoved, UNCHANGED <<captured, sideFate>>
    PROVE  HandlerInv'
<1>1. /\ handled' \in [HandledEvents -> Calls]
      /\ \A x \in HandledEvents : handled'[x] = IF x = e THEN h ELSE handled[x]
    BY DEF HandlerInv, HandlerTyped
<1>2. UNCHANGED <<engineConfig, sideChans, sideOutput, sideEnabled, overlap, sideFault, captured, sideFate>>
    BY DEF Unmoved
<1>3. HandlerTyped'
    BY <1>1, <1>2 DEF HandlerInv, HandlerTyped
<1>4. Written' /\ FateWithTheError'
    BY <1>1, <1>2 DEF HandlerInv, Written, FateWithTheError
<1>5. SentAreQueued' /\ QueuedOnce'
    BY <1>2 DEF HandlerInv, SentAreQueued, QueuedOnce
<1>6. ClosedOnRecord'
    BY <1>1, <1>2 DEF HandlerInv, ClosedOnRecord
<1> QED BY <1>3, <1>4, <1>5, <1>6 DEF HandlerInv

\* Process is called, its operator returns, and the backoff ends.
LEMMA CallsKeep ==
    ASSUME HandlerInv, NEW e \in HandledEvents,
           \/ StartHandling(e) \/ OperatorSucceeds(e) \/ HandlerBackoff(e)
           \/ \E err \in OperatorErrors : OperatorFails(e, err)
    PROVE  HandlerInv'
<1>0. handled \in [HandledEvents -> Calls] /\ handled[e] \in Calls /\ handled[e].attempts \in Nat
    BY DEF HandlerInv, HandlerTyped, Calls
<1>1. CASE StartHandling(e)
  <2> DEFINE h == [handled[e] EXCEPT !.at = "operator"]
  <2>1. handled' = [handled EXCEPT ![e] = h] /\ handled[e].at = "new"
      BY <1>0, <1>1 DEF StartHandling, Step
  <2>2. h \in Calls /\ h.at = "operator"
      BY <1>0 DEF Calls, Places
  <2> HIDE DEF h
  <2> QED BY <1>1, <2>1, <2>2, CallKeeps DEF StartHandling
<1>2. CASE OperatorSucceeds(e)
  <2> DEFINE h == [handled[e] EXCEPT !.at = "ok", !.attempts = handled[e].attempts + 1]
  <2>1. handled' = [handled EXCEPT ![e] = h] /\ handled[e].at = "operator"
      BY <1>0, <1>2 DEF OperatorSucceeds
  <2>2. handled[e].attempts + 1 \in Nat
      BY <1>0
  <2>3. h \in Calls /\ h.at = "ok"
      BY <1>0, <2>2 DEF Calls, Places
  <2> HIDE DEF h
  <2> QED BY <1>2, <2>1, <2>3, CallKeeps DEF OperatorSucceeds
<1>3. CASE HandlerBackoff(e)
  <2>1. handled[e].at = "backoff" /\ Unmoved /\ UNCHANGED <<captured, sideFate>>
      BY <1>3 DEF HandlerBackoff, BackoffEnds
  <2>2. CASE Step(e, "operator")
    <3> DEFINE h == [handled[e] EXCEPT !.at = "operator"]
    <3>1. handled' = [handled EXCEPT ![e] = h]
        BY <1>0, <2>2 DEF Step
    <3>2. h \in Calls /\ h.at = "operator"
        BY <1>0 DEF Calls, Places
    <3> HIDE DEF h
    <3> QED BY <2>1, <3>1, <3>2, CallKeeps
  <2>3. CASE handled' = [handled EXCEPT ![e].at = "failed", ![e].category = ClassifyError({"canceled"})]
    <3> DEFINE g == ClassifyError({"canceled"})
               h == [handled[e] EXCEPT !.at = "failed", !.category = g]
    <3>1. g \in Categories
        BY DEF Categories
    <3> HIDE DEF g
    <3>2. handled' = [handled EXCEPT ![e] = h]
        BY <1>0, <2>3 DEF g
    <3>3. h \in Calls /\ h.at = "failed"
        BY <1>0, <3>1 DEF Calls, Places
    <3> HIDE DEF h
    <3> QED BY <2>1, <3>2, <3>3, CallKeeps
  <2> QED BY <1>3, <2>2, <2>3 DEF HandlerBackoff, BackoffEnds
<1>4. ASSUME NEW err \in OperatorErrors, OperatorFails(e, err) PROVE HandlerInv'
  <2> DEFINE max == MaxAttemptsOf(engineConfig)
             category == ClassifyError(err)
             n == handled[e].attempts + 1
             over == max = 0 \/ ~IsRetriable(category) \/ (max >= 0 /\ n > max)
             m == IF max < 0 /\ n > RetryBound THEN RetryBound ELSE n
             p == IF over THEN "failed" ELSE "backoff"
  <2>1. PICK wait \in calculateBackoff(n - 1) :
          handled' = [handled EXCEPT ![e] =
                        [@ EXCEPT !.attempts = m, !.category = category, !.at = p,
                                  !.wait = IF over THEN 0 ELSE wait]]
      BY <1>4 DEF OperatorFails
  <2>2. handled[e].at = "operator" /\ Unmoved /\ UNCHANGED <<captured, sideFate>>
      BY <1>4 DEF OperatorFails
  <2> DEFINE w == IF over THEN 0 ELSE wait
  <2>3. category \in Categories /\ m \in Nat /\ p \in {"failed", "backoff"} /\ n - 1 \in Nat
      BY <1>0, ErrorHandlerAssumption DEF Categories
  <2>4. w \in Waits
    <3>1. wait \in UNION {calculateBackoff(k) : k \in Nat}
        BY <2>1, <2>3
    <3> QED BY <3>1 DEF Waits
  <2> HIDE DEF max, category, n, over, m, p, w
  <2> DEFINE h == [handled[e] EXCEPT !.attempts = m, !.category = category, !.at = p, !.wait = w]
  <2>5. handled' = [handled EXCEPT ![e] = h]
      BY <1>0, <2>1 DEF w
  <2>6. h \in Calls /\ h.at = p
      BY <1>0, <2>3, <2>4 DEF Calls, Places
  <2> HIDE DEF h
  <2> QED BY <2>2, <2>3, <2>5, <2>6, CallKeeps
<1> QED BY <1>1, <1>2, <1>3, <1>4

\* What the dead letter queue holds after it took an event.
LEMMA QueueTakes ==
    ASSUME NEW e, NEW n, captured' = [x \in DOMAIN captured \cup {e} |-> IF x = e THEN n ELSE captured[x]]
    PROVE  /\ e \in DOMAIN captured' /\ captured'[e] = n
           /\ \A x \in DOMAIN captured : x # e => x \in DOMAIN captured' /\ captured'[x] = captured[x]
OBVIOUS

\* handleError writes to the queue: the event is there unless the queue failed.
LEMMA WriteDLQKeeps ==
    ASSUME HandlerInv, NEW e \in HandledEvents, WriteDLQ(e)
    PROVE  HandlerInv'
<1>0. handled \in [HandledEvents -> Calls] /\ handled[e] \in Calls /\ engineConfig.side \in BOOLEAN
    BY ErrorHandlerAssumption DEF HandlerInv, HandlerTyped
<1>1. /\ handled[e].at = "failed"
      /\ UNCHANGED <<engineConfig, sideChans, sideOutput, sideEnabled, overlap, sideFault, sideFate>>
    BY DEF WriteDLQ, Unmoved
<1>2. PICK p \in {"emit", "error"} :
        /\ Step(e, p)
        /\ p = "error" /\ engineConfig.side => engineConfig.dlq = "file"
        /\ \/ engineConfig.dlq = "memory"
              /\ captured' = [x \in DOMAIN captured \cup {e} |->
                                IF x = e THEN handled[e].attempts ELSE captured[x]]
           \/ engineConfig.dlq # "memory" /\ captured' = captured
    BY <1>0 DEF WriteDLQ
<1> DEFINE h == [handled[e] EXCEPT !.at = p]
<1>3. handled' = [handled EXCEPT ![e] = h]
    BY <1>0, <1>2 DEF Step
<1>4. h \in Calls /\ h.at = p /\ h.attempts = handled[e].attempts
    BY <1>0 DEF Calls, Places
<1> HIDE DEF h
<1>5. /\ handled' \in [HandledEvents -> Calls]
      /\ \A x \in HandledEvents : handled'[x] = IF x = e THEN h ELSE handled[x]
    BY <1>0, <1>3, <1>4
<1>6. HandlerTyped'
    BY <1>1, <1>2, <1>4, <1>5 DEF HandlerInv, HandlerTyped
<1>7. Written'
  <2>1. CASE engineConfig.dlq = "memory"
    <3>1. /\ e \in DOMAIN captured' /\ captured'[e] = h.attempts
          /\ \A x \in DOMAIN captured : x # e => x \in DOMAIN captured' /\ captured'[x] = captured[x]
        BY <1>2, <1>4, <2>1, QueueTakes
    <3> QED BY <1>1, <1>5, <3>1 DEF HandlerInv, Written
  <2>2. CASE engineConfig.dlq # "memory"
      BY <1>1, <2>2 DEF Written
  <2> QED BY <2>1, <2>2
<1>8. FateWithTheError'
    BY <1>1, <1>2, <1>4, <1>5 DEF HandlerInv, FateWithTheError
<1>9. SentAreQueued' /\ QueuedOnce'
    BY <1>1 DEF HandlerInv, SentAreQueued, QueuedOnce
<1>10. ClosedOnRecord'
    BY <1>1, <1>2, <1>4, <1>5 DEF HandlerInv, ClosedOnRecord
<1> QED BY <1>6, <1>7, <1>8, <1>9, <1>10 DEF HandlerInv

\* Process returns the error and the side output event is not in a channel.
LEMMA ErrorReturned ==
    ASSUME HandlerInv, NEW e \in HandledEvents, NEW h \in Calls, NEW fate,
           fate \in {"no output", "fault", "cancelled", "full"},
           handled[e].at \in {"emit", "send"}, h.at = "error", h.attempts = handled[e].attempts,
           handled' = [handled EXCEPT ![e] = h],
           sideFate' = [sideFate EXCEPT ![e] = fate],
           UNCHANGED <<engineConfig, captured, sideChans, sideOutput, overlap>>,
           sideFault' => overlap
    PROVE  HandlerInv'
<1>1. /\ handled' \in [HandledEvents -> Calls]
      /\ \A x \in HandledEvents : handled'[x] = IF x = e THEN h ELSE handled[x]
    BY DEF HandlerInv, HandlerTyped
<1>2. /\ sideFate' \in [HandledEvents ->
                         {"none", "no output", "fault", "sent", "cancelled", "full", "handled"}]
      /\ \A x \in HandledEvents : sideFate'[x] = IF x = e THEN fate ELSE sideFate[x]
    BY DEF HandlerInv, HandlerTyped
<1>3. sideFate[e] = "none"
    BY DEF HandlerInv, FateWithTheError
<1>4. HandlerTyped'
    BY <1>1, <1>2 DEF HandlerInv, HandlerTyped
<1>5. Written' /\ FateWithTheError'
  <2>1. Written'
      BY <1>1, ZenonT(30) DEF HandlerInv, Written
  <2>2. FateWithTheError'
      BY <1>1, <1>2, ZenonT(30) DEF HandlerInv, FateWithTheError
  <2> QED BY <2>1, <2>2
<1>6. SentAreQueued' /\ QueuedOnce'
    BY <1>2, <1>3 DEF HandlerInv, SentAreQueued, QueuedOnce
<1>7. ClosedOnRecord'
    BY <1>1 DEF HandlerInv, ClosedOnRecord
<1> QED BY <1>4, <1>5, <1>6, <1>7 DEF HandlerInv

\* An event that was in no channel is sent to one.
LEMMA SentKeeps ==
    ASSUME HandlerInv, NEW e \in HandledEvents, NEW h \in Calls, NEW c \in 1..Len(sideChans),
           NEW ch \in Channels, ch.queue = Append(sideChans[c].queue, e), ch.closed = sideChans[c].closed,
           handled[e].at = "send", h.at = "error", h.attempts = handled[e].attempts,
           handled' = [handled EXCEPT ![e] = h],
           sideChans' = [sideChans EXCEPT ![c] = ch],
           sideFate' = [sideFate EXCEPT ![e] = "sent"],
           UNCHANGED <<engineConfig, captured, sideOutput, overlap, sideFault>>
    PROVE  HandlerInv'
<1>0. sideChans \in Seq(Channels)
    BY DEF HandlerInv, HandlerTyped
<1>1. sideOutput # 0 => sideOutput \in 1..Len(sideChans)
  <2>1. Len(sideChans) \in Nat
      BY <1>0, ChannelFacts
  <2>2. sideOutput \in 0..Len(sideChans)
      BY DEF HandlerInv, HandlerTyped
  <2> QED BY <2>1, <2>2
<1>5. /\ handled' \in [HandledEvents -> Calls]
      /\ \A x \in HandledEvents : handled'[x] = IF x = e THEN h ELSE handled[x]
    BY DEF HandlerInv, HandlerTyped
<1>6. /\ sideFate' \in [HandledEvents -> {"none", "no output", "fault", "sent", "cancelled", "full", "handled"}]
      /\ \A x \in HandledEvents : sideFate'[x] = IF x = e THEN "sent" ELSE sideFate[x]
    BY DEF HandlerInv, HandlerTyped
<1>7. sideFate[e] = "none" /\ ~InChannels(sideChans, e)
    BY DEF HandlerInv, FateWithTheError, SentAreQueued
<1>8. /\ sideChans' \in Seq(Channels) /\ Len(sideChans') = Len(sideChans)
      /\ sideChans'[c] = ch /\ \A d \in 1..Len(sideChans) : d # c => sideChans'[d] = sideChans[d]
    BY <1>0, ChannelReplaced
<1>9. /\ \A x : InChannels(sideChans', x) <=> InChannels(sideChans, x) \/ x = e
      /\ EachOnce(sideChans')
  <2>1. EachOnce(sideChans)
      BY DEF HandlerInv, QueuedOnce
  <2>2. ~InChannels(sideChans, e)
      BY <1>7
  <2> QED BY <1>0, <2>1, <2>2, ChannelSent, ZenonT(30)
<1>10. HandlerTyped'
    BY <1>5, <1>6, <1>8 DEF HandlerInv, HandlerTyped
<1>11. Written' /\ FateWithTheError'
  <2>1. Written'
      BY <1>5, ZenonT(30) DEF HandlerInv, Written
  <2>2. FateWithTheError'
      BY <1>5, <1>6, ZenonT(30) DEF HandlerInv, FateWithTheError
  <2> QED BY <2>1, <2>2
<1>12. QueuedOnce' /\ SentAreQueued'
    BY <1>6, <1>9 DEF HandlerInv, SentAreQueued, QueuedOnce
<1>13. \A d \in 1..Len(sideChans) : sideChans'[d].closed = sideChans[d].closed
    BY <1>8
<1>14. ClosedOnRecord'
    BY <1>1, <1>5, <1>13, ZenonT(30) DEF HandlerInv, HandlerTyped, ClosedOnRecord
<1> QED BY <1>10, <1>11, <1>12, <1>14 DEF HandlerInv

\* Emit finds the registered channel, which is open, or none.
LEMMA EmitLookupKeeps ==
    ASSUME HandlerInv, NEW e \in HandledEvents, EmitLookup(e)
    PROVE  HandlerInv'
<1>0. /\ handled \in [HandledEvents -> Calls] /\ handled[e] \in Calls
      /\ sideOutput \in 0..Len(sideChans) /\ Len(sideChans) \in Nat
    BY ChannelFacts DEF HandlerInv, HandlerTyped
<1>1. /\ handled[e].at = "emit" /\ captured' = captured
      /\ UNCHANGED <<engineConfig, sideChans, sideOutput, sideEnabled, overlap, sideFault>>
    BY DEF EmitLookup, Unmoved
<1>2. sideFate[e] = "none"
    BY <1>1 DEF HandlerInv, FateWithTheError
<1>3. CASE sideEnabled /\ sideOutput # 0
  <2> DEFINE h == [handled[e] EXCEPT !.at = "send", !.chan = sideOutput]
  <2>0. sideOutput \in Nat /\ sideOutput \in 1..Len(sideChans)
      BY <1>0, <1>3
  <2>1. handled' = [handled EXCEPT ![e] = h] /\ sideFate' = sideFate
      BY <1>0, <1>3 DEF EmitLookup
  <2>2. h \in Calls /\ h.at = "send" /\ h.chan = sideOutput /\ h.attempts = handled[e].attempts
      BY <1>0, <2>0 DEF Calls, Places
  <2> HIDE DEF h
  <2>3. /\ handled' \in [HandledEvents -> Calls]
        /\ \A x \in HandledEvents : handled'[x] = IF x = e THEN h ELSE handled[x]
      BY <1>0, <2>1, <2>2
  <2>4. HandlerTyped'
      BY <1>1, <2>0, <2>1, <2>2, <2>3 DEF HandlerInv, HandlerTyped
  <2>5. Written' /\ FateWithTheError'
      BY <1>1, <1>2, <2>1, <2>2, <2>3 DEF HandlerInv, Written, FateWithTheError
  <2>6. SentAreQueued' /\ QueuedOnce'
      BY <1>1, <2>1 DEF HandlerInv, SentAreQueued, QueuedOnce
  <2>7. ClosedOnRecord'
      BY <1>1, <1>3, <2>2, <2>3 DEF HandlerInv, ClosedOnRecord
  <2> QED BY <2>4, <2>5, <2>6, <2>7 DEF HandlerInv
<1>4. CASE ~(sideEnabled /\ sideOutput # 0)
  <2> DEFINE h == [handled[e] EXCEPT !.at = "error"]
  <2>1. handled' = [handled EXCEPT ![e] = h] /\ sideFate' = [sideFate EXCEPT ![e] = "no output"]
      BY <1>0, <1>4 DEF EmitLookup, Step
  <2>2. h \in Calls /\ h.at = "error" /\ h.attempts = handled[e].attempts
      BY <1>0 DEF Calls, Places
  <2> HIDE DEF h
  <2>3. sideFault' => overlap
      BY <1>1 DEF HandlerInv, ClosedOnRecord
  <2> QED BY <1>1, <2>1, <2>2, <2>3, ErrorReturned
<1> QED BY <1>3, <1>4

\* Emit sends, drops or panics.
LEMMA EmitSendKeeps ==
    ASSUME HandlerInv, NEW e \in HandledEvents, EmitSend(e)
    PROVE  HandlerInv'
<1> DEFINE c == handled[e].chan
           h == [handled[e] EXCEPT !.at = "error"]
<1>0. /\ handled \in [HandledEvents -> Calls] /\ handled[e] \in Calls
      /\ sideChans \in Seq(Channels) /\ Len(sideChans) \in Nat
    BY ChannelFacts DEF HandlerInv, HandlerTyped
<1>1. /\ handled[e].at = "send" /\ captured' = captured
      /\ UNCHANGED <<engineConfig, sideOutput, overlap>>
    BY DEF EmitSend
<1>2. handled' = [handled EXCEPT ![e] = h]
    BY <1>0 DEF EmitSend, Step
<1>3. h \in Calls /\ h.at = "error" /\ h.attempts = handled[e].attempts
    BY <1>0 DEF Calls, Places
<1>4. c \in 1..Len(sideChans)
    BY <1>0, <1>1 DEF HandlerInv, HandlerTyped
<1> HIDE DEF h
<1>5. CASE sideChans[c].closed /\ sideFault' = TRUE
           /\ sideFate' = [sideFate EXCEPT ![e] = "fault"] /\ UNCHANGED sideChans
  <2>1. overlap
      BY <1>1, <1>5 DEF HandlerInv, ClosedOnRecord
  <2> QED BY <1>1, <1>2, <1>3, <1>5, <2>1, ErrorReturned
<1>6. CASE /\ UNCHANGED <<sideChans, sideFault>>
           /\ \/ sideFate' = [sideFate EXCEPT ![e] = "cancelled"]
              \/ sideFate' = [sideFate EXCEPT ![e] = "full"]
  <2>1. sideFault' => overlap
      BY <1>6 DEF HandlerInv, ClosedOnRecord
  <2>2. CASE sideFate' = [sideFate EXCEPT ![e] = "cancelled"]
      BY <1>1, <1>2, <1>3, <1>6, <2>1, <2>2, ErrorReturned
  <2>3. CASE sideFate' = [sideFate EXCEPT ![e] = "full"]
      BY <1>1, <1>2, <1>3, <1>6, <2>1, <2>3, ErrorReturned
  <2> QED BY <1>6, <2>2, <2>3
<1>7. CASE /\ sideChans' = [sideChans EXCEPT ![c].queue = Append(@, e)]
           /\ sideFate' = [sideFate EXCEPT ![e] = "sent"] /\ UNCHANGED sideFault
  <2> DEFINE q == sideChans[c].queue
             ch == [sideChans[c] EXCEPT !.queue = Append(q, e)]
  <2>1. sideChans[c] \in Channels /\ q \in Seq(HandledEvents) /\ DOMAIN sideChans = 1..Len(sideChans)
      BY <1>0, <1>4, ChannelFacts
  <2>2. Append(q, e) \in Seq(HandledEvents)
      BY <2>1, AppendProperties
  <2>3. sideChans' = [sideChans EXCEPT ![c] = ch]
      BY <1>7
  <2>4. ch \in Channels /\ ch.queue = Append(q, e) /\ ch.closed = sideChans[c].closed
      BY <2>1, <2>2 DEF Channels
  <2>5. sideFate' = [sideFate EXCEPT ![e] = "sent"] /\ UNCHANGED sideFault
      BY <1>7
  <2> HIDE DEF ch, c
  <2>6. ch.queue = Append(sideChans[c].queue, e)
      BY <2>4
  <2> HIDE DEF q
  <2> QED BY <1>1, <1>2, <1>3, <1>4, <2>3, <2>4, <2>5, <2>6, SentKeeps
<1> QED BY <1>5, <1>6, <1>7 DEF EmitSend

\* The collector changes the flags of a channel and what is registered; a channel that
\* was open and an Emit holds goes on record when it is closed.
LEMMA MarkedKeeps ==
    ASSUME HandlerInv, NEW c \in 1..Len(sideChans), NEW ch \in Channels, ch.queue = sideChans[c].queue,
           sideChans' = [sideChans EXCEPT ![c] = ch],
           sideOutput' \in 0..Len(sideChans), sideOutput' # 0 => ~sideChans'[sideOutput'].closed,
           UNCHANGED <<engineConfig, handled, captured, sideFate, sideFault>>,
           overlap => overlap', ch.closed = sideChans[c].closed \/ (Held(c) => overlap')
    PROVE  HandlerInv'
<1>0. sideChans \in Seq(Channels)
    BY DEF HandlerInv, HandlerTyped
<1>1. /\ sideChans' \in Seq(Channels) /\ Len(sideChans') = Len(sideChans)
      /\ sideChans'[c] = ch /\ \A d \in 1..Len(sideChans) : d # c => sideChans'[d] = sideChans[d]
    BY <1>0, ChannelReplaced
<1>2. /\ \A x : InChannels(sideChans', x) <=> InChannels(sideChans, x)
      /\ EachOnce(sideChans')
    BY <1>0, ChannelMarked DEF HandlerInv, QueuedOnce
<1>3. HandlerTyped'
    BY <1>1 DEF HandlerInv, HandlerTyped
<1>4. Written' /\ FateWithTheError'
    BY DEF HandlerInv, Written, FateWithTheError
<1>5. SentAreQueued' /\ QueuedOnce'
    BY <1>2 DEF HandlerInv, SentAreQueued, QueuedOnce
<1>6. ASSUME NEW x \in HandledEvents, handled[x].at = "send", sideChans'[handled[x].chan].closed
      PROVE  overlap'
  <2>1. handled[x].chan \in 1..Len(sideChans)
      BY <1>6 DEF HandlerInv, HandlerTyped
  <2>2. CASE sideChans[handled[x].chan].closed
      BY <1>6, <2>2 DEF HandlerInv, ClosedOnRecord
  <2>3. CASE ~sideChans[handled[x].chan].closed
    <3>1. handled[x].chan = c /\ ch.closed # sideChans[c].closed
        BY <1>1, <1>6, <2>1, <2>3
    <3> QED BY <1>6, <3>1 DEF Held
  <2> QED BY <2>2, <2>3
<1>7. ClosedOnRecord'
    BY <1>6 DEF HandlerInv, ClosedOnRecord
<1> QED BY <1>3, <1>4, <1>5, <1>7 DEF HandlerInv

\* A channel is registered, and what was registered stays open.
LEMMA RegisterKeeps ==
    ASSUME HandlerInv, RegisterSideOutput
    PROVE  HandlerInv'
<1>0. sideChans \in Seq(Channels) /\ Len(sideChans) \in Nat
    BY ChannelFacts DEF HandlerInv, HandlerTyped
<1>1. /\ sideChans' = Append(sideChans, NewChannel) /\ sideOutput' = Len(sideChans) + 1
      /\ UNCHANGED <<engineConfig, handled, captured, sideFate, sideFault, overlap>>
    BY DEF RegisterSideOutput, Collector
<1>2. /\ sideChans' \in Seq(Channels) /\ Len(sideChans') = Len(sideChans) + 1
      /\ \A c \in 1..Len(sideChans) : sideChans'[c] = sideChans[c]
      /\ sideChans'[Len(sideChans) + 1] = NewChannel
      /\ \A x : InChannels(sideChans', x) <=> InChannels(sideChans, x)
      /\ EachOnce(sideChans')
    BY <1>0, <1>1, ChannelAdded DEF HandlerInv, QueuedOnce
<1>3. HandlerTyped'
  <2>1. /\ Len(sideChans) + 1 \in 0..(Len(sideChans) + 1)
        /\ \A n \in 1..Len(sideChans) : n \in 1..(Len(sideChans) + 1)
      BY <1>0
  <2> QED BY <1>1, <1>2, <2>1 DEF HandlerInv, HandlerTyped
<1>4. Written' /\ FateWithTheError'
    BY <1>1 DEF HandlerInv, Written, FateWithTheError
<1>5. SentAreQueued' /\ QueuedOnce'
    BY <1>1, <1>2 DEF HandlerInv, SentAreQueued, QueuedOnce
<1>6. ~sideChans'[sideOutput'].closed
    BY <1>1, <1>2 DEF NewChannel
<1>7. ASSUME NEW x \in HandledEvents, handled[x].at = "send", sideChans'[handled[x].chan].closed
      PROVE  overlap
    BY <1>2, <1>7 DEF HandlerInv, HandlerTyped, ClosedOnRecord
<1>8. ClosedOnRecord'
    BY <1>1, <1>6, <1>7 DEF HandlerInv, ClosedOnRecord
<1> QED BY <1>3, <1>4, <1>5, <1>8 DEF HandlerInv

\* The other callers of the collector.
LEMMA CollectorKeeps ==
    ASSUME HandlerInv, StartProcessor \/ UnregisterSideOutput \/ CloseCollector \/ SetEnabled
    PROVE  HandlerInv'
<1>0. sideChans \in Seq(Channels) /\ Len(sideChans) \in Nat /\ sideOutput \in 0..Len(sideChans)
    BY ChannelFacts DEF HandlerInv, HandlerTyped
<1>1. ASSUME sideOutput # 0
      PROVE  /\ sideOutput \in 1..Len(sideChans) /\ sideChans[sideOutput] \in Channels
             /\ DOMAIN sideChans = 1..Len(sideChans) /\ ~sideChans[sideOutput].closed
    BY <1>0, <1>1, ChannelFacts DEF HandlerInv, ClosedOnRecord
<1>2. CASE StartProcessor
  <2> DEFINE ch == [sideChans[sideOutput] EXCEPT !.read = TRUE]
  <2>1. /\ sideOutput # 0 /\ sideChans' = [sideChans EXCEPT ![sideOutput] = ch]
        /\ UNCHANGED <<engineConfig, handled, captured, sideFate, sideFault, overlap, sideOutput>>
      BY <1>1, <1>2 DEF StartProcessor, Collector
  <2>2. /\ ch \in Channels /\ ch.queue = sideChans[sideOutput].queue
        /\ ch.closed = sideChans[sideOutput].closed
      BY <1>1, <2>1 DEF Channels
  <2> HIDE DEF ch
  <2>3. sideChans'[sideOutput] = ch
      BY <1>0, <1>1, <2>1, <2>2, ChannelReplaced
  <2> QED BY <1>0, <1>1, <2>1, <2>2, <2>3, MarkedKeeps
<1>3. CASE UnregisterSideOutput \/ CloseCollector
  <2> DEFINE ch == [sideChans[sideOutput] EXCEPT !.closed = TRUE]
  <2>1. /\ sideOutput # 0 /\ sideChans' = [sideChans EXCEPT ![sideOutput] = ch]
        /\ UNCHANGED <<engineConfig, handled, captured, sideFate, sideFault>>
        /\ sideOutput' = 0 /\ overlap' = (overlap \/ Held(sideOutput))
      BY <1>1, <1>3 DEF UnregisterSideOutput, CloseCollector, Unregister, Collector
  <2>2. ch \in Channels /\ ch.queue = sideChans[sideOutput].queue
      BY <1>1, <2>1 DEF Channels
  <2>3. 0 \in 0..Len(sideChans)
      BY <1>0
  <2> HIDE DEF ch
  <2> QED BY <1>1, <2>1, <2>2, <2>3, MarkedKeeps
<1>4. CASE SetEnabled
  <2>1. UNCHANGED <<engineConfig, handled, captured, sideFate, sideFault, overlap, sideOutput, sideChans>>
      BY <1>4 DEF SetEnabled, Collector
  <2> QED BY <2>1 DEF HandlerInv, HandlerTyped, Written, FateWithTheError, SentAreQueued, QueuedOnce,
                      ClosedOnRecord
<1> QED BY <1>2, <1>3, <1>4

\* A processor receives the first event of its channel, which is handled from then on.
LEMMA ProcessKeeps ==
    ASSUME HandlerInv, NEW c \in DOMAIN sideChans, ProcessSideOutput(c)
    PROVE  HandlerInv'
<1> DEFINE q == sideChans[c].queue
           e == Head(q)
           ch == [sideChans[c] EXCEPT !.queue = Tail(q)]
<1>0. sideChans \in Seq(Channels) /\ c \in 1..Len(sideChans) /\ EachOnce(sideChans)
    BY ChannelFacts DEF HandlerInv, HandlerTyped, QueuedOnce
<1>1. sideChans[c] \in Channels /\ q \in Seq(HandledEvents)
    BY <1>0, ChannelFacts
<1>2. /\ q # <<>> /\ sideChans' = [sideChans EXCEPT ![c] = ch]
      /\ sideFate' = [sideFate EXCEPT ![e] = "handled"]
      /\ UNCHANGED <<engineConfig, handled, captured, sideOutput, overlap, sideFault>>
    BY <1>0, <1>1 DEF ProcessSideOutput
<1>3. Tail(q) \in Seq(HandledEvents)
    BY <1>1, <1>2, HeadTailProperties
<1>4. ch \in Channels /\ ch.queue = Tail(q) /\ ch.closed = sideChans[c].closed
    BY <1>1, <1>3 DEF Channels
<1> HIDE DEF ch
<1>5. /\ e \in HandledEvents /\ InChannels(sideChans, e)
      /\ \A x : InChannels(sideChans', x) <=> InChannels(sideChans, x) /\ x # e
      /\ EachOnce(sideChans')
    BY <1>0, <1>2, <1>4, ChannelReceived
<1>6. /\ sideChans' \in Seq(Channels) /\ Len(sideChans') = Len(sideChans)
      /\ sideChans'[c] = ch /\ \A d \in 1..Len(sideChans) : d # c => sideChans'[d] = sideChans[d]
    BY <1>0, <1>2, <1>4, ChannelReplaced
<1> HIDE DEF q, e
<1>7. /\ sideFate' \in [HandledEvents ->
                         {"none", "no output", "fault", "sent", "cancelled", "full", "handled"}]
      /\ \A x \in HandledEvents : sideFate'[x] = IF x = e THEN "handled" ELSE sideFate[x]
    BY <1>2, <1>5 DEF HandlerInv, HandlerTyped
<1>8. handled[e].at = "error"
    BY <1>5 DEF HandlerInv, SentAreQueued, FateWithTheError
<1>9. HandlerTyped'
    BY <1>2, <1>6, <1>7 DEF HandlerInv, HandlerTyped
<1>10. Written' /\ FateWithTheError'
    BY <1>2, <1>7, <1>8 DEF HandlerInv, Written, FateWithTheError
<1>11. SentAreQueued' /\ QueuedOnce'
    BY <1>5, <1>7 DEF HandlerInv, SentAreQueued, QueuedOnce
<1>12. \A d \in 1..Len(sideChans) : sideChans'[d].closed = sideChans[d].closed
    BY <1>4, <1>6
<1>13. sideOutput # 0 => sideOutput \in 1..Len(sideChans)
  <2>1. Len(sideChans) \in Nat
      BY <1>0, ChannelFacts
  <2>2. sideOutput \in 0..Len(sideChans)
      BY DEF HandlerInv, HandlerTyped
  <2> QED BY <2>1, <2>2
<1>14. ClosedOnRecord'
    BY <1>2, <1>12, <1>13 DEF HandlerInv, HandlerTyped, ClosedOnRecord
<1> QED BY <1>9, <1>10, <1>11, <1>14 DEF HandlerInv

\* Every step keeps the invariant.
LEMMA HandlerInvStep == HandlerInv /\ [ErrorHandlerNext]_handlerVars => HandlerInv'
<1> SUFFICES ASSUME HandlerInv, [ErrorHandlerNext]_handlerVars PROVE HandlerInv'
    OBVIOUS
<1>1. ASSUME NEW e \in HandledEvents, StartHandling(e) \/ HandlerRuns(e) PROVE HandlerInv'
    BY <1>1, CallsKeep, WriteDLQKeeps, EmitLookupKeeps, EmitSendKeeps DEF HandlerRuns
<1>2. CASE UNCHANGED handlerVars \/ CancelHandler
  <2>1. UNCHANGED <<engineConfig, handled, captured, sideFate, sideFault, overlap, sideOutput, sideChans>>
      BY <1>2 DEF CancelHandler, handlerVars
  <2> QED BY <2>1 DEF HandlerInv, HandlerTyped, Written, FateWithTheError, SentAreQueued, QueuedOnce,
                      ClosedOnRecord
<1> QED BY <1>1, <1>2, RegisterKeeps, CollectorKeeps, ProcessKeeps DEF ErrorHandlerNext

\* The invariant always holds.
LEMMA HandlerInvAlways == ErrorHandlerSpec => []HandlerInv
BY HandlerInitially, HandlerInvStep, PTL DEF ErrorHandlerSpec

\* handleError, WriteWithContext, Emit and the processors: no failure is swallowed.
THEOREM NoFailureSwallowed == ErrorHandlerSpec => []FailuresReported
<1>1. HandlerInv => FailuresReported
  <2> SUFFICES ASSUME HandlerInv PROVE FailuresReported
      OBVIOUS
  <2>1. \A e \in HandledEvents : InSideChannel(e) <=> InChannels(sideChans, e)
      BY InChannelsIs DEF HandlerInv, HandlerTyped, InSideChannel
  <2> QED BY <2>1 DEF HandlerInv, Written, FateWithTheError, SentAreQueued, FailuresReported
<1> QED BY <1>1, HandlerInvAlways, PTL

\* UnregisterSideOutput and Close: a channel that is closed is not found again.
THEOREM FaultsNeedOverlap == ErrorHandlerSpec => []EmitFaultNeedsOverlap
<1>1. HandlerInv => EmitFaultNeedsOverlap
    BY DEF HandlerInv, ClosedOnRecord, EmitFaultNeedsOverlap
<1> QED BY <1>1, HandlerInvAlways, PTL
=============================================================================
