SPECIFICATION EdgesSpec
CONSTANTS
    ConfigFiles <- MCFiles
    Environments <- MCEnvironments
    NumCallbacks = 2
    MaxEdits = 2
    MaxCallbackFailures = 1
    Requests = {"single", "batch", "get"}
    BatchRequests = {"batch"}
    OtherMethods = {"get"}
    BatchLength = 2
    Clients = {"c1", "c2"}
    Broadcasters = {"b1", "b2"}
    ChannelCapacity = 1
    MaxAttempts = 2
    MaxMessages = 1
    Workers = {w1}
    NumEvents = 5
    Unmarshalable = {2}
    BatchSize = 2
    MaxFailures = 2
    Patterns <- MCPatterns
    EventKinds <- MCKinds
    Untyped = "c"
    EngineTimeout = 1
    MatcherBuffer = 2
    MaxCepEvents = 3
    MaxCepNow = 2
    MaxEventDelay = 1
    MaxEventLead = 1
    MaxRegistrations = 1
INVARIANTS
    MatchesExact
    StoredOnce
PROPERTIES
    ConfigConverges
    HandlersReturn
CHECK_DEADLOCK FALSE
