\* Two runs: what the first leaves in the files is what the second finds.
CONSTANTS
    HeaderSize = 2
    NoMagic = NoMagic
    Dates = {1, 2, 3}
    Sizes = {3, 5}
    Logs <- FewLogs
    Drifts = {0}
    Options <- FewOptions
    MaxRuns = 2
SPECIFICATION Spec
INVARIANT
    ReplaySelects
PROPERTIES
    DumpKeptUntilConnected
    KeepsLogbook
\* the last run ends
CHECK_DEADLOCK FALSE
