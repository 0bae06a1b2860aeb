SPECIFICATION Spec
CONSTANTS
    Threads = {t1, t2}
    Handlers = {h}
    P = 3
    FileSize = 4
    Reads <- MCReads
    Word = 64
    Junk = 99
    MaxCalls = 4
    Listing <- MCListing
    Nul = 0
    Asked <- MCAsked
    DefaultSize = 1
INVARIANTS
    CloseKeepsPipeline
    ReadsOwnOctets
    ListingComplete
PROPERTIES
    CallsReturn
CHECK_DEADLOCK FALSE
