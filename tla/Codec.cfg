SPECIFICATION Spec
CONSTANTS
    Requests <- MCRequests
    Foreign <- MCForeign
    Records <- MCRecords
    Overflows = {0, 66051}
    FilterLists <- MCFilterLists
    Slots = {0, 1, 31}
    Stamps = {16909060}
    Junk = {0, 255}
INVARIANTS
    FrameArrives
    EventArrives
    FilterHit
CHECK_DEADLOCK FALSE
