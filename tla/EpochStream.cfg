SPECIFICATION EpochSpec
CONSTANTS
    Capacity = 12
    HeaderLen = 2
    Record <- MCRecord
    MaxWrites = 9
    Source = {1, 2}
    DefinitionLens <- MCDefinitionLens
    MaxEpoch = 3
    MaxWhenRejected = 7
INVARIANTS
    SeqsIncrease
    EpochResolved
    NeverFutureEpoch
    SnapshotSplitsEpochs
    LossIsReal
