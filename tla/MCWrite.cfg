\* Four requests, three of them for one address, two connections, two failures.
\* A stop before the last answer is what EveryRequestAnswered excludes; after the
\* last answer the model only stutters.
SPECIFICATION FairSpec
CONSTANTS
    q1 = q1
    q2 = q2
    q3 = q3
    q4 = q4
    e1 = e1
    e2 = e2
    Requests = {q1, q2, q3, q4}
    EmailOf <- MCEmailOf
    MaxConns = 2
    MaxFaults = 2
INVARIANTS
    TypeOK
    AnswersTellTheTruth
PROPERTIES
    Atomically
    EveryRequestAnswered
CHECK_DEADLOCK FALSE
