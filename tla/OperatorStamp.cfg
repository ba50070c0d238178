SPECIFICATION SafeSpec

CONSTANTS
    Operators = {o1}
    Works = {w1, w2}
    Invalid = invalid
    Extras = {e1}
    Tokens = {t1}
    OrphansRun = FALSE
    MaxJobs = 5
    MaxEdits = 3
    MaxFaults = 0
    MaxIncarnations = 1
    None = none

INVARIANT StampMatchesRun

\* Nothing happens before a Benchmark is created or after it is deleted for good.
CHECK_DEADLOCK FALSE
