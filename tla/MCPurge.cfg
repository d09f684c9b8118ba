\* Two purgers over one table, with a failing page and a stop anywhere.
SPECIFICATION FairSpec
CONSTANTS
    p1 = p1
    p2 = p2
    MaxRows = 3
    Purgers = {p1, p2}
    Batch = 2
    MaxFaults = 1
INVARIANTS
    NothingCountedTwice
PROPERTIES
    OnlyOldGo
    ExhaustedMeansNoneLeft
    OldRowsGo
    PurgersStop
CHECK_DEADLOCK TRUE
