SPECIFICATION Spec
CONSTANTS
    Main = Main
    NoThread = NoThread
    Junk = Junk
    Programs = {"copy", "plugin"}
    NThreads = 2
    Threads <- MCThreads
    P = 2
    FileSize = 3
    BSize = 1
    Reads <- MCReads
    Asked = {0, 1, 2, 3}
    MinSize = 1
    MaxSize = 2
    DefaultSize = 2
    MaxNacks = 1
    MaxTimeouts = 1
    Word = 64
    NackReasons = {"DUPLICATE", "NO_ROUTE", "OTHER"}
    MayThrow = TRUE
INVARIANTS
    CounterIsExact
    TaskCalledOnce
    AbortsAreJustified
    ReadsReturnContent
    CopyIsFaithful
PROPERTIES
    ProgramEnds
CHECK_DEADLOCK FALSE
