\* Truncation and a descent to less than 1 m: expected to be violated.
CONSTANT
    Families <- OnlyProfile
SPECIFICATION Spec
INVARIANT CutsNoDescent
CHECK_DEADLOCK FALSE
