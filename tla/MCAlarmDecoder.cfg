\* Every record of up to three samples, whole, cut anywhere or with a bad tail.
CONSTANTS
    Models = {"galileo", "galileo trimix", "matrix", "other"}
    Freedive = {TRUE, FALSE}
    Recordings <- SomeRecordings
    ShortSizes = {20, 43, 44, 83, 151}
SPECIFICATION Spec
INVARIANTS TypeOK StaysInside ReportsWhatSounded
CHECK_DEADLOCK FALSE
