SPECIFICATION Spec
CONSTANTS
    Workers = {w1, w2}
    NumEvents = 3
    Unmarshalable = {2}
    BatchSize = 2
    MaxFailures = 2
INVARIANT NothingLost
