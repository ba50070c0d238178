SPECIFICATION FairSpec
CONSTANTS
    Plans <- MCPlans
    Setups <- MCSetups
    MaxFaults = 2
INVARIANT RecordedByAgent
INVARIANT AtMostOnce
INVARIANT SilentMeansComplete
INVARIANT StragglersAreCutOff
PROPERTY RunsEnd
CHECK_DEADLOCK FALSE
