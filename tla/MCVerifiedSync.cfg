CONSTANTS
    p1 = p1
    p2 = p2
    i1 = i1
    i2 = i2
    Procs <- TwoProcs
    Items <- TwoItems
    Lag = 1
    Skew = 1
    Margin = 0
    Cap = 1
    MaxTime = 2
    MaxRuns = 3
SPECIFICATION Spec
SYMMETRY Symmetry
CHECK_DEADLOCK FALSE
INVARIANTS
    TypeOK
    SeenIsLanded
    NoSilentMiss
