SPECIFICATION SinkSpec
CONSTANTS
    Requests = {r1, r2, r3}
    FailureThreshold = 2
    SuccessThreshold = 2
    Timeout = 1
    MaxConcurrentRequests = 1
    CounterModulus = 2
    MaxCallbacks = 2
INVARIANTS PeriodsStartFresh SlotsBackedByProbes ProbeOverrunBounded TransitionsTellState
PROPERTY ClosesAfterRecovery
