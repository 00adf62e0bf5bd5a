SPECIFICATION FairSpec
CONSTANTS
    MaxByte = 8
    Start = 8
    End = 7
    Text = 6
    Controllers = 2
    MaxDlc = 1
    Chunk = 2
    Event <- MCEvent
    Request <- MCRequest
    MaxAbandons = 1
INVARIANTS
    NothingLeftOver
    BoardKeepsItsPlace
PROPERTIES
    ImplementsTransaction
    Answered
CHECK_DEADLOCK FALSE
