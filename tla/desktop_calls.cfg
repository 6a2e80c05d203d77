SPECIFICATION Spec
CONSTANTS
    MaxAtOnce = 2
    OverlapOnce = TRUE
    MaxStarts = 3
    MaxCalls = 2
    MaxFaults = 1
    MaxVersion = 2
    MaxSessions = 2
INVARIANTS
    CurrentIsInstalled
    OneSupervisedNode
    ServiceStaysActive
    SettingsAreTrue
PROPERTIES
    QuitStopsChild
CHECK_DEADLOCK FALSE
