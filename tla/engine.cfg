SPECIFICATION PipelineSpec
CONSTANTS
    NumEvents = 2
    BufferSize = 1
    MaxConcurrency = 1
    BackpressureThreshold = 40
    EnableAutoCommit = TRUE
    MaxCrashes = 1
INVARIANTS WaitGroupAccounts NothingVanishes
PROPERTIES AtLeastOnce ImplementsDelivery
CHECK_DEADLOCK FALSE
