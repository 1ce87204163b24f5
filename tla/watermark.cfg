SPECIFICATION FairSpec
CONSTANTS
    Partitions = {p1, p2}
    EventTimes = {2, 5}
    Tolerance = 1
    IdleTimeout = 2
    StartTime = 4
    MaxTime = 5
    ChannelSize = 2
INVARIANT MarksJustified
PROPERTY MarkReachesEngine
