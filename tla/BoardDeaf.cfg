SPECIFICATION Spec
CONSTANTS
    N = 2
    MaxTries = 2
    FifoSize = 2
    Faulty = {1}
    MaxRaises = 1
INVARIANT
    ReadyMeansListening
