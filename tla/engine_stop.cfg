SPECIFICATION FairSpec
CONSTANTS
    NumEvents = 1
    BufferSize = 2
    MaxConcurrency = 1
    BackpressureThreshold = 40
    EnableAutoCommit = TRUE
    MaxCrashes = 0
PROPERTY StopReturns
CHECK_DEADLOCK FALSE
