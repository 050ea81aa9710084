SPECIFICATION Spec
CONSTANTS
    Buys = {b1}
    Mints = {m1}
    SigMint <- DistinctMints
    Checks = {c1}
    Sells = {s1, s2}
    Kills = {k1}
    SimulationMode = FALSE
    MaxActivePositions = 0
    Milestones = {}
    CloseAfter = 0
    MaxAge = 0
    Quotes = {"flat", "loss"}
    IOFaults = TRUE
    RedisTries = 2
    MayPanic = FALSE
    MaxRestarts = 1
    None = None
SYMMETRY Threads
INVARIANTS
    BookedOnce
    GaugeExact
    BookedIsSold
