SPECIFICATION Spec
CONSTANTS
    PipeSize = 2
    MaxSize = 3
    MaxKills = 0
    AmpleTime = TRUE
INVARIANT FinishedIsNotTimedOut
CHECK_DEADLOCK FALSE
