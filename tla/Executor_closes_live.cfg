SPECIFICATION FairSpec
CONSTANTS
    Buys = {b1}
    Mints = {m1}
    SigMint <- DistinctMints
    Checks = {c1}
    Sells = {s1}
    Kills = {}
    SimulationMode = FALSE
    MaxActivePositions = 0
    Milestones = {1}
    CloseAfter = 0
    MaxAge = 1
    Quotes = {"gain", "flat", "loss", "zero"}
    IOFaults = TRUE
    RedisTries = 2
    MayPanic = FALSE
    MaxRestarts = 0
    None = None
PROPERTIES
    KeepsTrying
