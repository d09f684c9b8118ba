\* Two relays, two rows, two failures and two refused produces, in any mixture.
SPECIFICATION Spec
CONSTANTS
    r1 = r1
    r2 = r2
    a1 = a1
    a2 = a2
    MaxRows = 2
    Relays = {r1, r2}
    BatchSize = 2
    PurgeBatch = 2
    Aggregates = {a1, a2}
    AggregateOf <- MCAggregateOf
    MaxFaults = 2
    MaxRejections = 2
SYMMETRY Symmetry
INVARIANTS
    TypeOK
    NoLostEvent
    ClaimsDisjoint
    DuplicatesBounded
PROPERTIES
    KeepsPromise
    DecisionsStand
    OneAttemptPerPass
CHECK_DEADLOCK TRUE
