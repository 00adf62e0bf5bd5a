SPECIFICATION Spec
CONSTANTS
    QueueSize = 2
    FifoSize = 2
    MaxSends = 3
    MaxAsked = 0
    MaxBusOffs = 0
    MaxInSend = 1
    MaxWarnings = 0
    MaxCrcFailures = 0
INVARIANT
    ShadowKnowsQueue
CHECK_DEADLOCK FALSE
