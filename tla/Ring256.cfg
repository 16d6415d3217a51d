SPECIFICATION Spec
CONSTANTS
    Capacity = 7
    HeaderLen = 2
    Record <- MCRecord
    SpanSlots = 2
    LossSlots = 2
    MaxCalls = 5
INVARIANTS
    SpansSuffice
    LossRangesExact
    CountsSurviveOverflow
PROPERTIES
    ImplementsByteRing
