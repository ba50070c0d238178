SPECIFICATION FairSpec

CONSTANTS
    Operators = {o1}
    Works = {w1, w2}
    Invalid = invalid
    Extras = {e1}
    Tokens = {t1}
    OrphansRun = FALSE
    MaxJobs = 5
    MaxEdits = 3
    MaxFaults = 1
    MaxIncarnations = 1
    None = none

PROPERTY Converges
PROPERTY RetryServed

\* Nothing happens before a Benchmark is created or after it is deleted for good.
CHECK_DEADLOCK FALSE
