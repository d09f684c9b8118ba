\* Two relays, one failure: a lost session lets both publish one row.
SPECIFICATION Spec
CONSTANTS
    r1 = r1
    r2 = r2
    a1 = a1
    a2 = a2
    MaxRows = 2
    Relays = {r1, r2}
    BatchSize = 2
    PurgeBatch = 2
    Aggregates = {a1, a2}
    AggregateOf <- MCAggregateOf
    MaxFaults = 1
    MaxRejections = 0
SYMMETRY Symmetry
INVARIANTS
    NoConcurrentPublish
CHECK_DEADLOCK TRUE
