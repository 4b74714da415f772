CONSTANTS
    j1 = j1
    j2 = j2
    None = None
    Jobs <- TwoJobs
    MaxFaults = 2
SPECIFICATION FairSpec
CHECK_DEADLOCK FALSE
INVARIANTS
    TypeOK
    ToldIsStored
    AbortHonoured
    FirstBuildsExclusive
    FollowUpsOverlapOnlyInChecks
PROPERTIES
    JobsEnd
