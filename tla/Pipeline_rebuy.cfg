SPECIFICATION PipelineSpec
CONSTANTS
    Buys = {b1, b2}
    Mints = {m1}
    SigMint <- SameMint
    Checks = {c1}
    Sells = {s1}
    Kills = {}
    SimulationMode = FALSE
    MaxActivePositions = 0
    Milestones = {}
    CloseAfter = 0
    MaxAge = 0
    Quotes = {"gain", "flat", "loss", "zero"}
    IOFaults = FALSE
    RedisTries = 2
    MayPanic = FALSE
    MaxRestarts = 1
    None = None
    Liquidity <- Enough
    Friction <- Scores
    MinLiqSOL = 1
    GraduationGuard = 3
    MaxFrictionPct = 1
    Capacity = 1
    Faults = FALSE
    MaxForgets = 1
SYMMETRY EventSymmetry
INVARIANTS
    SignalsComeAlone
    BoughtIsVetted
    BuysPerKey
    GaugeExact
CHECK_DEADLOCK FALSE
