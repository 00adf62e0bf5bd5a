SPECIFICATION FairSpec
CONSTANTS
    N = 3
    MaxTries = 2
    FifoSize = 2
    Faulty = {0, 1}
    MaxRaises = 2
INVARIANTS
    TypeOK
    SpiExclusive
    FifoExclusive
    ReadyMeansListening
    HandlesInitialised
PROPERTIES
    SetupEnds
    Served
