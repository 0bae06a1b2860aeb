SPECIFICATION Spec
CONSTANTS
    Tree <- MCTree
    PathLists <- MCPathLists
    SegmentSize = 2
    MaxStreams = 2
    MaxRepeat = 1
    Burst = 2
    Bulk = 2
    MaxNull = 1
INVARIANTS
    ListsTree
    DownloadsComplete
    ClosesOnlyAfterFailure
PROPERTIES
    TransferEnds
CHECK_DEADLOCK FALSE
