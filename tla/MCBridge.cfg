CONSTANTS
    c1 = c1
    c2 = c2
    s1 = s1
    None = None
    Conns <- TwoConns
    Calls <- OneCall
SPECIFICATION FairSpec
INVARIANTS
    TypeOK
    OpenIsLive
    PendingHasSocket
    RevokeSticks
PROPERTIES
    CallsSettle
    DeadIsDropped
