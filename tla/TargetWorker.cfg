SPECIFICATION Spec
CONSTANTS
    MaxTransfer = 4
    Prefix = 2
    FifoSize = 1
    RxSlots = 1
    Deadline = 1
    MaxRequests = 2
INVARIANT LongReadsEcho
PROPERTY StopEnds
CHECK_DEADLOCK FALSE
