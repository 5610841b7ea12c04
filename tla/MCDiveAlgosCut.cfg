\* Truncation and an alarm between two samples: expected to be violated.
CONSTANT
    Families <- OnlyGauges
SPECIFICATION Spec
INVARIANT AlarmsSurvive
CHECK_DEADLOCK FALSE
