SPECIFICATION Spec
CONSTANTS
    Capacity = 10
    HeaderLen = 2
    Store = "owned"
    Fenced = TRUE
    Ordering = "c11"
    Shape <- MCShapeZero
    MaxWrites = 4
INVARIANT
    NothingRetainedSkipped
