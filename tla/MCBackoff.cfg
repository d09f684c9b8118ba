\* Every base and cap a six-bit Duration can hold, seven failures in a row.
SPECIFICATION Spec
CONSTANTS
    MaxInt = 31
    MaxAttempts = 7
INVARIANTS
    NeverWraps
    FollowsFormula
CHECK_DEADLOCK TRUE
