SPECIFICATION FairSpec
CONSTANTS
    Events = {e1, e2}
    Mints = {m1}
    Liquidity <- Levels
    Friction <- Scores
    MinLiqSOL = 1
    GraduationGuard = 3
    MaxFrictionPct = 1
    Capacity = 1
    Faults = TRUE
    RedisTries = 2
    MaxForgets = 0
    MaxRestarts = 1
INVARIANTS
    TypeOK
    SignalsAreRecorded
    TakenIsVetted
    AnalyzerInv
PROPERTIES
    ProcessReturns
CHECK_DEADLOCK FALSE
