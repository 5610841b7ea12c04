\* Two tanks and the initial pressure fix: expected to be violated.
CONSTANT
    Families <- OnlyManifold
SPECIFICATION Spec
INVARIANT NeverMixesTanks
CHECK_DEADLOCK FALSE
