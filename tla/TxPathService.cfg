SPECIFICATION FairSpec
CONSTANTS
    QueueSize = 2
    FifoSize = 2
    MaxSends = 5
    MaxAsked = 0
    MaxBusOffs = 0
    MaxInSend = 0
    MaxWarnings = 1
    MaxCrcFailures = 0
INVARIANTS
    TypeOK
    ShadowAgrees
PROPERTIES
    ImplementsTxService
    AcceptedIsReported
CHECK_DEADLOCK FALSE
