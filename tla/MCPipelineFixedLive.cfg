SPECIFICATION FixedLiveSpec
CONSTANTS
    Requests = {r1, r2}
    Consumers = {c0, c1}
    DefaultId = c0
    NackReasons = {"NONE", "DUPLICATE", "OTHER"}
    MaxRetries = 1
    MaxBurst = 2
    MaxNacks = 1
    NoConsumer = NoConsumer
    WindowSize = 1
PROPERTIES
    WorkerStops
    ImplementsRequestResponse
CHECK_DEADLOCK FALSE
