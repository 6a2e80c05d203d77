SPECIFICATION FairSpec
CONSTANTS
    MaxAtOnce = 1
    OverlapOnce = FALSE
    MaxStarts = 2
    MaxCalls = 1
    MaxFaults = 0
    MaxVersion = 1
    MaxSessions = 1
PROPERTIES
    ServiceServes
CHECK_DEADLOCK FALSE
