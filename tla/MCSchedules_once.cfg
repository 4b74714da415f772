CONSTANTS
    p1 = p1
    s1 = s1
    Procs <- OneProc
    Scheds <- OneSched
    Targets <- Jobs
    Grace = 1
    MaxConcurrent = 1
    Ceiling = 2
    BackoffCap = 2
    MaxTime = 3
    MaxEdits = 1
    MaxFaults = 0
SPECIFICATION Spec
PROPERTIES
    OnceLeavesTrace
