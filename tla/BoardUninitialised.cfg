SPECIFICATION Spec
CONSTANTS
    N = 2
    MaxTries = 2
    FifoSize = 2
    Faulty = {0}
    MaxRaises = 1
INVARIANT
    NothingFromUninitialised
