\* One run of the program, with every option and every kind of dive.
CONSTANTS
    HeaderSize = 2
    NoMagic = NoMagic
    Dates = {1, 2, 3}
    Sizes = {3, 5}
    Logs <- AllLogs
    Drifts = {0, 1}
    Options <- AllOptions
    MaxRuns = 1
SPECIFICATION Spec
INVARIANTS
    TypeOK
    DumpIsPrefix
    DumpHoldsAll
    DownloadSelects
    ReplayReproduces
    HandlesClosedInOrder
PROPERTY
    RunEnds
\* the last run ends
CHECK_DEADLOCK FALSE
