\* Up to five samples around the 1 m threshold, and up to three with the
\* pressures of two tanks.
CONSTANT
    Families <- ProfileAndGauges
SPECIFICATION Spec
INVARIANTS TypeOK StopsAtSurfacing DepthSurvives AverageBetween
           OneTankUnfixed FixedStart AlarmsWritten
CHECK_DEADLOCK FALSE
