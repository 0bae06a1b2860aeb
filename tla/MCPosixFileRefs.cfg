SPECIFICATION Spec
CONSTANTS
    Threads = {t1, t2}
    Handlers = {}
    P = 3
    FileSize = 4
    Reads <- MCReads
    Word = 64
    Junk = 99
    MaxCalls = 3
    Listing <- MCListing
    Nul = 0
    Asked <- MCAsked
    DefaultSize = 1
INVARIANTS
    RefCounted
CHECK_DEADLOCK FALSE
