SPECIFICATION FairSpec
CONSTANTS
    Jobs <- MCJobs
    After <- MCAfter
    MockTicks = 2
    PipeCap = 2
    LongLines = TRUE
    MaxLines = 2
    MaxRuns = 2
INVARIANT HonestOutcome
INVARIANT OwnSamples
 
PROPERTY ImplementsContract
PROPERTY RunReturns
CHECK_DEADLOCK FALSE
