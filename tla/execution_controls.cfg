SPECIFICATION FairSpec
CONSTANTS
    PipeSize = 2
    MaxSize = 3
    MaxKills = 1
    AmpleTime = FALSE
INVARIANTS
    StoppedIsStopped
PROPERTIES
    EveryCallRecorded
CHECK_DEADLOCK FALSE
