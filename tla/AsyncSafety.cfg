SPECIFICATION SafeSpec
CONSTANTS
    a1 = a1
    a2 = a2
    a3 = a3
    s1 = s1
    w1 = w1
    Assignments = {a1, a2}
    Remote = {}
    Streams = {s1}
    Watchers = {w1}
    Hosts = {"api", "cli", "watch", "mcp"}
    None = None
    MaxSeq = 2
    MaxFaults = 1
    MaxCrashes = 1
INVARIANTS
    ProgressExact
    NothingLeftBehind
PROPERTY
    ImplementsLifecycle
CHECK_DEADLOCK FALSE
