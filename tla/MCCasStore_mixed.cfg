CONSTANTS
    c1 = c1
    c2 = c2
    c3 = c3
    c4 = c4
    Calls <- ThreeCalls
    Kinds <- AnyKind
    MaxRetries = 2
SPECIFICATION Spec
CHECK_DEADLOCK FALSE
INVARIANT NotSilentlyLost
