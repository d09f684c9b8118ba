\* One process of either kind and release, two migration jobs of two releases,
\* one fault on each side, a pool of two connections.
SPECIFICATION Spec
CONSTANTS
    j1 = j1
    j2 = j2
    Jobs = {j1, j2}
    Releases = {1, 2}
    ReleaseOf <- MCReleaseOf
    Latest <- MCLatest
    PlanOf <- MCPlanOf
    MaxJobFaults = 1
    Unset = Unset
    Garbage = Garbage
    MaxConns = 2
    StartEnvs <- MCEnvs
    RepairValues <- MCRepair
    MaxFaults = 1
INVARIANTS
    TypeOK
    SchemaIsWhole
    DoneMeansMigrated
    
    ExitTellsTheTruth
    ReadyMeansMigrated
    OneRestartIsEnough
PROPERTIES
    MigrationsFinish
    GoesDownWhole
    
CHECK_DEADLOCK TRUE
