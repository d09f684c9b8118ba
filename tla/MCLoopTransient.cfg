\* A full batch with a transient failure in it.
SPECIFICATION Spec
CONSTANTS
    IdleMin = 1
    IdleMax = 3
    BatchSize = 2
    UseNotify = TRUE
    MaxArrivals = 3
    MaxFailures = 2
PROPERTY
    TransientBacksOff
CHECK_DEADLOCK TRUE
