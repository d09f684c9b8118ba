\* Three requests, two of them for one address, of which two arrive; one relay
\* over two rows; one failure on each side and one refused produce.
SPECIFICATION SysSpec
CONSTANTS
    r1 = r1
    r2 = r2
    q1 = q1
    q2 = q2
    q3 = q3
    e1 = e1
    e2 = e2
    MaxRows = 2
    Relays = {r1}
    BatchSize = 2
    PurgeBatch = 2
    Aggregates = {1, 2}
    AggregateOf <- MCAggregateOf
    MaxFaults = 1
    MaxRejections = 1
    Requests = {q1, q2, q3}
    EmailOf <- MCEmailOf
    MaxConns = 2
    MaxApiFaults = 1
    MaxArrivals = 2
INVARIANTS
    RowsAndUsersAgree
PROPERTIES
    KeepsUserPromise
    EveryUserDecided
CHECK_DEADLOCK TRUE
