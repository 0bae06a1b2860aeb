SPECIFICATION Spec
CONSTANTS
    Apps = {"pingserver", "ftserver", "pingclient"}
    RingSize = 2
    MaxRxBufs = 2
    MaxPackets = 4
    MaxPings = 2
INVARIANTS
    ForwarderClean
    RxSlotsReturned
    TransmittedIsTrue
PROPERTIES
    AppEnds
CHECK_DEADLOCK FALSE
