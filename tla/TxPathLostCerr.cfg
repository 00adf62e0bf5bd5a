SPECIFICATION Spec
CONSTANTS
    QueueSize = 2
    FifoSize = 2
    MaxSends = 2
    MaxAsked = 0
    MaxBusOffs = 1
    MaxWarnings = 1
    MaxInSend = 0
    MaxCrcFailures = 0
INVARIANT
    BusOffNoticed
CHECK_DEADLOCK FALSE
