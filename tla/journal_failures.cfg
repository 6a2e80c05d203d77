SPECIFICATION FairSpec
CONSTANTS
    p1 = p1
    p2 = p2
    first = first
    again = again
    other = other
    refused = refused
    broken = broken
    m1 = m1
    m2 = m2
    Torn = Torn
    None = None
    Processes = {p1, p2}
    Contributions = {first, again, other, refused, broken}
    Manifests = {m1, m2}
    Manifest <- ManifestOf
    Verdict <- VerdictOf
    MaxAttempts = 3
    MaxFaults = 2
INVARIANTS
    EntriesAreKept
    RecordedAuditedOnce
    EveryAttemptAudited
PROPERTIES
    KeepsPromise
    CallsEnd
