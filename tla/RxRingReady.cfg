SPECIFICATION LiveSpec
CONSTANTS
  ReadyGpio = TRUE
  RxSlots = 3
  MaxRecords = 5
  MaxCalls = 2
INVARIANTS
  RingShape
PROPERTIES
  NewestWins
CHECK_DEADLOCK FALSE
