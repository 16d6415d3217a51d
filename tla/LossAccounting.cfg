SPECIFICATION LossSpec
CONSTANTS
    Capacity = 8
    HeaderLen = 2
    Source = {s1, s2}
    Record <- MCRecord
    MaxWrites = 6
    CountModulus = 3
SYMMETRY
    MCSymmetry
INVARIANTS
    NoLossMissed
    LossMeansEvicted
    ProducedIsAccounted
    
