SPECIFICATION Spec
CONSTANTS
    p1 = p1
    p2 = p2
    n1 = n1
    n2 = n2
    w1 = w1
    None = None
    Processes = {p1, p2}
    Nodes = {n1, n2}
    Works = {w1}
    MaxCalls = 2
    MaxFaults = 1
    MaxMoves = 1
    MaxClock = 1
SYMMETRY Symmetry
INVARIANTS
    CommandsLeaveStartable
    AttestedIsAccounted
    LineageIsAttested
    RestartIsTrue
    StoppedOnce
