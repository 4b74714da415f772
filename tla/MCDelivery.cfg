CONSTANTS
    p1 = p1
    p2 = p2
    e1 = e1
    e2 = e2
    Procs <- OneProc
    Events <- TwoEvents
    MaxInFlight = 1
    MaxRetries = 1
    MaxBoots = 2
SPECIFICATION FairSpec
INVARIANTS
    TypeOK
    FlightsHoldTheirRows
    RepeatNeedsLoss
PROPERTIES
    Settles
    ImplementsWorkItem
