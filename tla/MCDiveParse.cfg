CONSTANTS
    Dates = {"monday", "tuesday"}
    Records <- SmallRecords
    UseInvalidElements = {TRUE, FALSE}
SPECIFICATION Spec
INVARIANT TypeOK
INVARIANT ParserReleased
INVARIANT FaithfulReadings
INVARIANT FaithfulMixes
INVARIANT WaypointsConform
INVARIANT SignalsWritten
INVARIANT LowestTemperatureTrue
PROPERTY ImplementsParsedDive
\* doparse returns.
CHECK_DEADLOCK FALSE
