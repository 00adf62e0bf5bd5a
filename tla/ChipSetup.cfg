SPECIFICATION FairSpec
CONSTANTS
    CrcRetries = 2
    ConfigTries = 2
    ModeTries = 2
    Words = 2
    Calls <- MCCalls
    MaxLost = 2
INVARIANTS
    OkIsHonest
    NeverHalfLoaded
PROPERTY
    CallsReturn
