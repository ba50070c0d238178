SPECIFICATION FairSpec
CONSTANTS
    a1 = a1
    a2 = a2
    a3 = a3
    s1 = s1
    w1 = w1
    Assignments = {a1, a2, a3}
    Remote = {a3}
    Streams = {s1}
    Watchers = {w1}
    Hosts = {"api"}
    None = None
    MaxSeq = 1
    MaxFaults = 0
    MaxCrashes = 0
INVARIANT
    OutcomeRecorded
PROPERTIES
    SettlesRun
    WatchReturns
    CompletedStreamEnds
CHECK_DEADLOCK FALSE
