SPECIFICATION FairSpec
CONSTANTS
    Threads = 2
    Seconds = 2
    QueueDepth = 2
    MaxOps = 2
    MaxClock = 2
    Configs <- MCConfigs
INVARIANT StreamInOrder
INVARIANT StreamedIsRecorded
INVARIANT ResultAddsUp
PROPERTY RunEnds
CHECK_DEADLOCK FALSE
