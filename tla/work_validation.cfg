SPECIFICATION Spec
CONSTANTS
    Absent = Absent
    Bad = Bad
    Unhashable = Unhashable
    Other = Other
    Malformed = Malformed
    Raised = Raised
    Node = Node
    OtherNode = OtherNode
    OtherJob = OtherJob
    j1 = j1
    Jobs <- MCJobs
    Digest <- MCDigest
    Stopwords <- MCStopwords
    PerUnit <- MCPerUnit
    UnitCap <- MCUnitCap
    MaxFloat = 6
    MaxOperands = 2
    MaxLimit = 2
    MinDimensions = 2
    MaxDimensions = 3
    MaxChars = 3
    PreviewChars = 2
    DefaultLimit = 2
    DefaultDimensions = 2
    DefaultMaxChars = 2
INVARIANTS
    HonestIsAccepted
    AcceptedIsExact
    CreditFollowsVerdict
    OutputsMeetReference
CHECK_DEADLOCK FALSE
