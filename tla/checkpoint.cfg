SPECIFICATION CheckpointSpec
CONSTANTS
    MaxCheckpoints = 2
    Incremental = FALSE
    UseBackend = FALSE
    NumEvents = 3
    MaxCreated = 4
    MaxCrashes = 2
    MaxFailures = 1
    Checkpoints = {c1, c2}
    MaxCount = 1
    MaxAge = 0
    RetainOnFailure = FALSE
    WaitTimeout = 1
    MaxClock = 2
INVARIANTS NoEffectLost 
PROPERTIES PhasesForward
CHECK_DEADLOCK FALSE
