SPECIFICATION PipelineSpec
CONSTANTS
    Size = 3
    Slide = 2
    Offset = 1
    SecondTicks = 1
    WindowEvents <- MCWindowEvents
    Poison <- MCPoison
    Triggers = {"event", "count", "processing"}
    CountLimit = 2
    MaxWatermark = 4
    KeyedEvents <- MCKeyedEvents
    BranchSize = 1
    JoinEvents <- MCJoinEvents
    JoinKinds = {"hash", "nested", "interval"}
    JoinTypes = {"INNER", "FULL_OUTER"}
    TimeWindow = 1
    LowerBound = 0
    UpperBound = 1
    AllowedLateness = 0
    StateRetention = 1
    MaxStateSize = 1
    OutputSize = 1
    MaxNow = 3
    WJEvents <- MCWJEvents
    WJTypes = {"INNER", "LEFT_OUTER", "FULL_OUTER"}
    MaxWJWatermark = 4
    RefTimes = {1, 2, 3, 4}
    RefRetention = 1
    MaxRefUpdates = 4
    r1 = r1
    r2 = r2
    Registrars = {r1, r2}
    Schemas <- MCSchemas
    Compatibility = "BACKWARD"
    CacheSize = 1
    CacheTTL = 0
    MaxVersions = 2
    MaxSchemaTime = 1
    Values = {"v", "w"}
    SinkVersion = 0
    ProducerQueue = 1
    MaxWrites = 1
INVARIANTS
    EventsInTheirWindows
    LossHasCause
    NoPairMissed
    WindowRowsExact
    LookupRight
    ReadAsWritten
    CompatibleUnlessOverlap
PROPERTIES
    WatermarkResultsComplete
    JoinStops
CHECK_DEADLOCK FALSE
