SPECIFICATION ResolutionSpec
CONSTANTS
    Files <- MCFiles
    Inputs <- MCInputs
INVARIANTS
    NothingLost
    OwnDefinition
    ValueMeansOneThing
    VectorsAsDescribed
    EventIffAdmitted
