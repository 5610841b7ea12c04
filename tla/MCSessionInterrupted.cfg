CONSTANTS
    HeaderSize = 2
    NoMagic = NoMagic
    Dates = {1, 2, 3}
    Sizes = {3, 5}
    Logs <- FewLogs
    Drifts = {0}
    Options <- FewOptions
    MaxRuns = 1
SPECIFICATION Spec
INVARIANT
    InterruptedDumpReplays
\* the last run ends
CHECK_DEADLOCK FALSE
