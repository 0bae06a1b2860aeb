CONSTANTS
    Files <- MCFiles
    LongNames <- MCLongNames
    Reported <- MCReported
    FileSize = 2
    BufferSz = 2
    MaxBurst = 1
    MaxFaults = 1
    MaxGc = 1
SPECIFICATION Spec
INVARIANT FileInfoTakesOwn
PROPERTY TransferEnds
CHECK_DEADLOCK FALSE
