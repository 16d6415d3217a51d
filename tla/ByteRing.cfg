SPECIFICATION Spec
CONSTANTS
    Capacity = 7
    HeaderLen = 2
    Record <- MCRecord
    MaxWrites = 6
INVARIANTS
    RetainedExactly
    RetainedIntact
    RawWalkAgrees
