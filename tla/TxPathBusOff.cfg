SPECIFICATION Spec
CONSTANTS
    QueueSize = 2
    FifoSize = 2
    MaxSends = 4
    MaxAsked = 3
    MaxBusOffs = 1
    MaxInSend = 1
    MaxWarnings = 0
    MaxCrcFailures = 1
INVARIANTS
    FreeCountExact
    CountOnlyLeaks
    FifoIsServed
    FifoInOrder
    BusOffNoticed
    NoOrphan
    NoFalseReport
    SpaceIsKept
CHECK_DEADLOCK FALSE
