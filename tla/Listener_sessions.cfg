SPECIFICATION FairSpec
CONSTANTS
    Notes = {n1, n2, n3}
    RaydiumDisabled = FALSE
    Buffer <- OneSlot
    Capacity <- OneSlot
    MaxBreaks = 2
    Stops = TRUE
INVARIANTS
    NoDeafSession
    EventsAccounted
PROPERTIES
    Resubscribes
    Served
CHECK_DEADLOCK FALSE
