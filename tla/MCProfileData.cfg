\* Up to three dives, dated or not, with and without a duration, samples and
\* a gas mix.
CONSTANTS
    Stamps <- Starts
    Day <- Calendar
    Durations = {0, 7000}
    Spans = {3600}
    Mixes <- Cylinders
    MaxGases = 1
    MaxDives = 3
SPECIFICATION Spec
INVARIANTS TypeOK GroupsTile GroupsAreDays PassedTimeTrue LinksResolve
CHECK_DEADLOCK FALSE
