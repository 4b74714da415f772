CONSTANTS
    Last = 1
    Commands <- FirstStep
    Origins <- AllOrigins
    MaxPauses = 1
    MaxCalls = 2
    MaxPasses = 3
    MaxFaults = 1
SPECIFICATION FairSpec
CHECK_DEADLOCK FALSE
INVARIANTS
    TypeOK
    PassesOverlapOnlyInTeardown
    AtRest
    ApprovalsWereShown
PROPERTIES
    EndedStays
    CancelEnds
