SPECIFICATION FairSpec
CONSTANTS
    Capacity = 10
    HeaderLen = 2
    Store = "shared"
    Fenced = TRUE
    Ordering = "x86"
    Shape <- MCShapeZero
    MaxWrites = 4
INVARIANTS
    AcceptedIsCurrent
    NothingRetainedSkipped
PROPERTY
    CatchesUp
