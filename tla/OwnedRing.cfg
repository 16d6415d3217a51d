SPECIFICATION Spec
CONSTANTS
    Capacity = 7
    HeaderLen = 2
    Store = "owned"
    Fenced = TRUE
    Ordering = "c11"
    Shape <- MCShape
    MaxWrites = 4
INVARIANTS
    AcceptedIsCurrent
    DeliveredInOrder
    ErrorMeansLapped
