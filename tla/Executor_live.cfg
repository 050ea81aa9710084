SPECIFICATION Spec
CONSTANTS
    Buys = {b1}
    Mints = {m1}
    SigMint <- DistinctMints
    Checks = {c1, c2}
    Sells = {s1, s2}
    Kills = {}
    SimulationMode = FALSE
    MaxActivePositions = 0
    Milestones = {1, 2}
    CloseAfter = 1
    MaxAge = 3
    Quotes = {"gain", "flat", "loss", "zero"}
    IOFaults = FALSE
    RedisTries = 2
    MayPanic = TRUE
    MaxRestarts = 0
    None = None
SYMMETRY Threads
INVARIANTS
    TypeOK
    TrajectoryOrdered
    TrajectoryInv
    OpenIsSaved
    SingleSeller
    SaleInv
PROPERTIES
    ImplementsLedger
    SoldIsFinal
