SPECIFICATION FairSpec
CONSTANTS
    Buys = {b1}
    Mints = {m1}
    SigMint <- DistinctMints
    Checks = {c1}
    Sells = {s1, s2}
    Kills = {k1}
    SimulationMode = TRUE
    MaxActivePositions = 0
    Milestones = {}
    CloseAfter = 0
    MaxAge = 0
    Quotes = {"gain", "flat", "loss", "zero"}
    IOFaults = FALSE
    RedisTries = 2
    MayPanic = FALSE
    MaxRestarts = 0
    None = None
PROPERTIES
    KillSells
