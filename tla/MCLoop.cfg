\* The loop with its wakeup listener: three rows, two failures, a stop anywhere.
\* Of the surroundings the specification assumes no more than stopping needs.
SPECIFICATION StopSpec
CONSTANTS
    IdleMin = 1
    IdleMax = 3
    BatchSize = 2
    UseNotify = TRUE
    MaxArrivals = 3
    MaxFailures = 2
INVARIANTS
    CutOnlyAfterGrace
    
    WaitsInBounds
PROPERTIES
    NoSpin
    StopsWhenAsked
    BacklogDrained
CHECK_DEADLOCK TRUE
