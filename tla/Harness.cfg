SPECIFICATION HarnessSpec
CONSTANTS
    Capacity = 11
    HeaderLen = 2
    Sources = 2
    PerSource = 2
    MessageLen = 3
    HighWaterLen = 4
    MinLaps = 1
    MaxRuns = 2
INVARIANTS
    StaleIsCaught
    OraclesAgree
    ReportIsComplete
    RunNeverAccuses
PROPERTY
    RunsEnd
