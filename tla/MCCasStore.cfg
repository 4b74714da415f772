CONSTANTS
    c1 = c1
    c2 = c2
    c3 = c3
    c4 = c4
    Calls <- FourCalls
    Kinds <- AnyKind
    MaxRetries = 2
SPECIFICATION Spec
SYMMETRY Symmetry
CHECK_DEADLOCK FALSE
INVARIANTS
    TypeOK
    LossesHaveWinners
PROPERTIES
    CleanSwap
    AtomicToCallers
