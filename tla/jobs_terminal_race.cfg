SPECIFICATION Spec
CONSTANTS
    None = None
    Jobs = {j1}
    Callers = {c1, c2}
    Workers = {w1}
    early = early
    late = late
    otherInput = otherInput
    otherCreator = otherCreator
    Requests = {early}
    Fingerprint <- Fingerprints
    Input <- Fingerprints
    Origin <- Origins
    MaxCalls = 3
    MaxFaults = 0
    Serialized = FALSE
PROPERTY TerminalIsFinal
