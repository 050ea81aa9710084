SPECIFICATION Spec
CONSTANTS
    Trades <- ThreeTrades
    Rejects = {r1}
    Keep = 1
    Shown = 1
    None = None
    MaxFaults = 1
    MaxCrashes = 1
INVARIANTS
    TypeOK
    EndsKept
    NoTradeAtBothEnds
    DamageBounded
    BooksAgree
CHECK_DEADLOCK FALSE
