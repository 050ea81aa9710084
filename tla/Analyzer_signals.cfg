SPECIFICATION Spec
CONSTANTS
    Events = {e1, e2, e3}
    Mints = {m1}
    Liquidity <- Levels
    Friction <- Scores
    MinLiqSOL = 1
    GraduationGuard = 3
    MaxFrictionPct = 1
    Capacity = 1
    Faults = FALSE
    RedisTries = 2
    MaxForgets = 2
    MaxRestarts = 0
SYMMETRY EventSymmetry
INVARIANTS
    Accounted
    OneVerdictPerKey
    NoTwins
CHECK_DEADLOCK FALSE
