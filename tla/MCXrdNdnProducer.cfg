SPECIFICATION Spec
CONSTANTS
    p1 = p1
    p2 = p2
    Paths = {p1, p2}
    NoPath = NoPath
    MaxInterests = 2
    Names <- MCNames
    MaxThreads = 2
    MaxHandlers = 3
    MaxFds = 2
    MaxAges = 1
INVARIANTS
    ReadsNamedFile
    NoDescriptorLost
    InterestStillThere
PROPERTIES
    InterestsAnswered
    UnusedFilesErased
CHECK_DEADLOCK FALSE
