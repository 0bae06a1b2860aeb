SPECIFICATION Spec
CONSTANTS
    Size = 3
    Batch = 2
    Window = 1
    InterestCap = 2
    DataCap = 2
    MaxNackCongestion = 1
    MaxTimeoutRetries = 1
    MaxFaults = 2
INVARIANTS
    ReadsComplete
    PanicsExplained
PROPERTIES
    DownloadEnds
CHECK_DEADLOCK FALSE
