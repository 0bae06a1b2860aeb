SPECIFICATION FixedSpec
CONSTANTS
    Requests = {r1, r2, r3}
    Consumers = {c0, c1}
    DefaultId = c0
    NackReasons = {"NONE", "DUPLICATE", "OTHER"}
    MaxRetries = 1
    MaxBurst = 2
    MaxNacks = 1
    NoConsumer = NoConsumer
    WindowSize = 2
SYMMETRY Symmetry
INVARIANTS
    TypeOK
    AtMostOneResponse
    NothingLost
    TimeoutArmed
    ResponsesReachOwner
    WorkerClosesForOrphans
    InFlightWithinWindow
CHECK_DEADLOCK FALSE
