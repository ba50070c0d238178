SPECIFICATION SafeSpec

CONSTANTS
    Operators = {o1}
    Works = {w1, w2}
    Invalid = invalid
    Extras = {e1}
    Tokens = {t1, t2}
    OrphansRun = TRUE
    MaxJobs = 5
    MaxEdits = 3
    MaxFaults = 1
    MaxIncarnations = 2
    None = none

SYMMETRY Symmetry

INVARIANT AppliedRetryHasJob
INVARIANT ReportedRunFinished
INVARIANT JobsAccountedFor
PROPERTY CompletedLeftOnlyOnRequest

\* Nothing happens before a Benchmark is created or after it is deleted for good.
CHECK_DEADLOCK FALSE
