\* Four rows: two that always fail, one that is refused for good, one sound one;
\* one crash or outage besides.  CAP/2 = 5 exceeds their turns of 3 and the skew of 1.
SPECIFICATION Spec
CONSTANTS
    a1 = a1
    a2 = a2
    MaxRows = 4
    BatchSize = 2
    AggregateOf <- MCAggregateOf
    Stuck = {1, 2}
    Poison = {3}
    Base = 1
    Cap = 10
    IdleMin = 1
    IdleMax = 1
    PassTime = 1
    Skew = 1
    MaxAttempts = 2
    AttemptLimit = 4
    MaxTroubles = 1
INVARIANTS
    OvertakenOnlyAfterFailure
PROPERTIES
    OthersGetThrough
    StuckIsReported
CHECK_DEADLOCK TRUE
