SPECIFICATION Spec
CONSTANTS
    p1 = p1
    p2 = p2
    Procs = {p1, p2}
    Nodes <- TwoNodes
    Batch <- ThreeAssignments
    Logs <- ShortAndLong
    MaxCommands = 6
    MaxFaults = 1
SYMMETRY Symmetric
INVARIANTS
    ClaimsAreCredited
    CreditedOnce
PROPERTIES
    MarkedIsReported
CHECK_DEADLOCK FALSE
