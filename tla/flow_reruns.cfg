SPECIFICATION FairSpec
CONSTANTS
    n1 = n1
    n2 = n2
    j1 = j1
    j2 = j2
    j3 = j3
    Nodes = {n1, n2}
    Jobs = {j1, j2, j3}
    Manifests <- Batches
    Outcome <- Yields
    MaxRuns = 3
    MaxFaults = 2
INVARIANTS
    LedgerIsBounded
    AggregatesAgree
    CreditedOnce
PROPERTIES
    MarkedIsCredited
    RunCompletes
