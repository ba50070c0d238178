SPECIFICATION Spec
CONSTANTS
    r1 = r1
    r2 = r2
    r3 = r3
    r4 = r4
    c1 = c1
    c2 = c2
    None = None
    RunIds = {r1, r2, r3, r4}
    Callers = {c1, c2}
    Profiles = {"p", "q"}
    Targets = {"t", "u"}
    Results <- MCResults
    Stored <- MCStored
    HistoryLimit = 2
    LastN = 1
    MaxCalls = 3
    MaxFaults = 1
INVARIANT AlertsJustified
INVARIANT AnswerExplained
INVARIANT TablesAgree
INVARIANT AlertMeansRegressed
PROPERTY HistoryIsLatest
SYMMETRY Symmetry
CHECK_DEADLOCK FALSE
