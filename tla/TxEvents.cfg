SPECIFICATION FairSpec
CONSTANTS
    Size = 3
    RecordTxEvents = TRUE
    MaxCount = 9
    MaxEvents = 7
INVARIANTS
    TracedWithOneMore
    DrainSafe
PROPERTY
    HostIsTold
