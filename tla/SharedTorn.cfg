SPECIFICATION Spec
CONSTANTS
    Capacity = 7
    HeaderLen = 2
    Store = "shared"
    Fenced = TRUE
    Ordering = "c11"
    Shape <- MCShape
    MaxWrites = 4
INVARIANT
    AcceptedIsCurrent
