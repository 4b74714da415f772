CONSTANTS
    p1 = p1
    s1 = s1
    Procs <- OneProc
    Scheds <- OneSched
    Targets <- AnyTarget
    Grace = 0
    MaxConcurrent = 1
    Ceiling = 2
    BackoffCap = 2
    MaxTime = 2
    MaxEdits = 1
    MaxFaults = 1
SPECIFICATION FairSpec
INVARIANTS
    TypeOK
    AtMostOnce
    PauseAgrees
    DeferralKeepsGrace
    StopDrains
PROPERTIES
    FiredOrMissedLeavesRow
    ImplementsWorkItem
    DueIsServed
