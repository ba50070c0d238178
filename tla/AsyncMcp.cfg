SPECIFICATION SafeSpec
CONSTANTS
    a1 = a1
    a2 = a2
    a3 = a3
    s1 = s1
    w1 = w1
    Assignments = {a1, a2}
    Remote = {}
    Streams = {}
    Watchers = {}
    Hosts = {"mcp"}
    None = None
    MaxSeq = 1
    MaxFaults = 0
    MaxCrashes = 0
INVARIANT
    OutcomeRecorded
CHECK_DEADLOCK FALSE
