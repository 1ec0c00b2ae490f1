SPECIFICATION HealthSpec
CONSTANTS
    Stream <- MCStream
    Config <- MCConfig
    Related <- MCRelated
    Capacity = 2
    MaxReconnects = 1
    Depth = {"depth"}
    Deadline = 2
    MaxTime = 3
    MaxMessages = 2
    MaxBreaks = 2
INVARIANTS
    IncidentsAccounted
    VerdictsAreTrue
    
CHECK_DEADLOCK FALSE
