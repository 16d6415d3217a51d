SPECIFICATION ProducerSpec
CONSTANTS
    Capacity = 16
    HeaderLen = 2
    Record <- MCRecord
    SpanSlots = 5
    LossSlots = 3
    MaxCalls = 0
    SourceSlots = 2
    StateSlots = 2
    AttestSlots = 1
    ScanSlots = 3
    ScanBytes = 11
    Deadband = 1
    Programs <- MCPrograms
INVARIANTS
    HandedSeqsIncrease
    HandoffExact
    SignatureNamesLatest
    ConditionsCorrelate
    CommandsAccounted
    ReportedTracksObserved
    ReportsChain
PROPERTIES
    ImplementsEpochProducer
