SPECIFICATION AggregateSpec
CONSTANTS
    c1 = c1
    c2 = c2
    c3 = c3
    t1 = t1
    t2 = t2
    t3 = t3
    ClientNames = {c1, c2, c3}
    TargetNames = {t1, t2, t3}
    Blank = Blank
    Unbuilt = Unbuilt
    Error = Error
    MaxNames = 3
    Null = Null
    Text = Text
    FirstProfile = "afa"
    Library <- Files
    Keywords <- Table
    HostOf <- Hosts
    Asks <- AllAsks
    Measured <- Requests
    Samples <- Outcomes
    Failed = Failed
INVARIANT CoverageByMode
INVARIANT FlagsWin
INVARIANT DurationKept
INVARIANT InferredTopologyRuns
INVARIANT ResultsAddUp
CHECK_DEADLOCK FALSE
