SPECIFICATION FairSpec
CONSTANTS
    None = None
    Jobs = {j1, j2}
    Callers = {c1}
    Workers = {w1, w2}
    early = early
    late = late
    otherInput = otherInput
    otherCreator = otherCreator
    Requests = {early, late, otherCreator}
    Fingerprint <- Fingerprints
    Input <- Fingerprints
    Origin <- Origins
    MaxCalls = 4
    MaxFaults = 2
    Serialized = TRUE
INVARIANTS
    AcceptedIsRecorded
    ListsAnswer
    FinishedOnce
    TrailEndsAtStatus
PROPERTIES
    KeepsPromise
    Settles
