\* RELAY_IDLE_MAX=0s, which LoadRelay accepts.
SPECIFICATION Spec
CONSTANTS
    IdleMin = 1
    IdleMax = 0
    BatchSize = 2
    UseNotify = TRUE
    MaxArrivals = 3
    MaxFailures = 2
PROPERTY
    NoSpin
CHECK_DEADLOCK TRUE
