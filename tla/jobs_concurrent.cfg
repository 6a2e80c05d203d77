SPECIFICATION Spec
CONSTANTS
    None = None
    Jobs = {j1}
    Callers = {c1, c2}
    Workers = {w1, w2}
    early = early
    late = late
    otherInput = otherInput
    otherCreator = otherCreator
    Requests = {early, late, otherInput, otherCreator}
    Fingerprint <- Fingerprints
    Input <- Fingerprints
    Origin <- Origins
    MaxCalls = 4
    MaxFaults = 1
    Serialized = FALSE
SYMMETRY Interchangeable
INVARIANTS
    TypeOK
    CreditIsEarned
    EvidenceChain
    RecordIsFounded
    ViewsAgree
