SPECIFICATION Spec
CONSTANTS
    Requests = {r1, r2, r3, r4, r5}
    Consumers = {c0}
    DefaultId = c0
    NackReasons = {"NONE"}
    MaxRetries = 1
    MaxBurst = 2
    MaxNacks = 0
    NoConsumer = NoConsumer
    InitialSsthresh = 3
    MinWindow = 1
    MaxWindow = 3
SYMMETRY Symmetry
INVARIANTS
    WindowInBounds
    InFlightWithinLimit
PROPERTIES
    ImplementsSafety
CHECK_DEADLOCK FALSE
