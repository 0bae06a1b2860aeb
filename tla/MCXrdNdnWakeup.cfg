SPECIFICATION Spec
CONSTANTS
    Main = Main
    NoThread = NoThread
    Junk = Junk
    Programs = {"plugin"}
    NThreads = 1
    Threads <- MCThreads
    P = 2
    FileSize = 3
    BSize = 1
    Reads <- MCReads
    Asked = {1}
    MinSize = 1
    MaxSize = 1
    DefaultSize = 1
    MaxNacks = 1
    MaxTimeouts = 1
    Word = 64
    NackReasons = {"DUPLICATE", "CONGESTION", "OTHER"}
    MayThrow = FALSE
PROPERTIES
    SlotAvailableWakes
CHECK_DEADLOCK FALSE
