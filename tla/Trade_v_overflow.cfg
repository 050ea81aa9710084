SPECIFICATION Spec
CONSTANTS
    Word = 1048576
    RaydiumMul = 399
    RaydiumDen = 400
    PumpMul = 99
    PumpDen = 100
    VirtualSol = 30
    VirtualTokens = 1073
    BaseTip = 0
    TenSol = 10
    Pools <- Traded
    Spend = 4
    MaxFrictionPct = 30
    TakeProfitPct = 50
    StopLossPct = 30
    SlippagePct = 25
INVARIANTS
    FrictionIsExact
CHECK_DEADLOCK FALSE
