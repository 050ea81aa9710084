SPECIFICATION FairSpec
CONSTANTS
    Word = 1073741824
    RaydiumMul = 399
    RaydiumDen = 400
    PumpMul = 99
    PumpDen = 100
    VirtualSol = 30
    VirtualTokens = 1073
    BaseTip = 0
    TenSol = 10
    Pools <- Traded
    Spend = 4
    MaxFrictionPct = 30
    TakeProfitPct = 50
    StopLossPct = 30
    SlippagePct = 25
PROPERTIES
    EventuallySold
CHECK_DEADLOCK FALSE
