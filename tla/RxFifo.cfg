SPECIFICATION FairSpec
CONSTANTS
    Size = 3
    HwFifoSize = 2
    Options = {"RECV_ERRORS"}
    MaxCount = 2
    MaxEvents = 6
    MaxCrcFailures = 1
INVARIANTS
    TypeOK
    RingConsistent
    OverflowAtBack
    NoSilentLoss
    AnswerIsExact
PROPERTIES
    ImplementsLossyQueue
    MaskIsTemporary
    HostIsTold
