CONSTANTS
    j1 = j1
    j2 = j2
    None = None
    Jobs <- TwoJobs
    MaxFaults = 0
SPECIFICATION Spec
CHECK_DEADLOCK FALSE
INVARIANTS
    FollowUpsExclusive
