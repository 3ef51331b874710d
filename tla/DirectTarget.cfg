SPECIFICATION Spec
CONSTANTS
    FifoSize = 3
    MaxCommand = 2
    MaxResponse = 2
    Prefix = 1
    Echo = 1
    MaxPolls = 2
    MaxRuns = 3
    MaxArgument = 4
INVARIANTS
    BytesHandledOnce
    NoOverrunInOrder
    OwnReply
PROPERTIES
    StopRestoresPins
CHECK_DEADLOCK FALSE
