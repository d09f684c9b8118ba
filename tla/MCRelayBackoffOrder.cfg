\* One relay, one refused produce: a backoff lets a younger event overtake.
SPECIFICATION Spec
CONSTANTS
    r1 = r1
    r2 = r2
    a1 = a1
    a2 = a2
    MaxRows = 3
    Relays = {r1}
    BatchSize = 2
    PurgeBatch = 2
    Aggregates = {a1, a2}
    AggregateOf <- MCAggregateOf
    MaxFaults = 0
    MaxRejections = 1
INVARIANTS
    PerAggregateOrder
CHECK_DEADLOCK TRUE
