CONSTANTS
    p1 = p1
    p2 = p2
    e1 = e1
    e2 = e2
    Procs <- TwoProcs
    Events <- OneEvent
    MaxInFlight = 1
    MaxRetries = 1
    MaxBoots = 3
SPECIFICATION Spec
SYMMETRY Symmetry
INVARIANTS
    ClaimExclusive
    SlotsBounded
