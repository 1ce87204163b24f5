SPECIFICATION ErrorsSpec
CONSTANTS
    Requests = {r1, r2}
    FailureThreshold = 2
    SuccessThreshold = 1
    Timeout = 0
    MaxConcurrentRequests = 1
    CounterModulus = 1
    NumEvents = 2
    MaxAttempts = 1
    EnableDLQ = TRUE
    DLQSize = 1
    Callers = {c1, c2, c3}
    Failed = {f1, f2}
    MaxSize = 2
    MaxCalls = 5
    HandledEvents = {e1, e2}
    EngineConfigs <- MCEngineConfigs
    OperatorErrors <- MCOperatorErrors
    InitialBackoff = 1
    MaxBackoff = 2
    BackoffJitter = 0
    SideSize = 1
    MaxSideChannels = 2
    RetryBound = 1
CHECK_DEADLOCK FALSE
INVARIANTS
    NothingLost
    TotalsAccount
    FailuresReported
    EmitFaultNeedsOverlap
PROPERTIES
    WriteReturns
    HandlingReturns
