SPECIFICATION LiveSpec
CONSTANTS
  ReadyGpio = FALSE
  RxSlots = 3
  MaxRecords = 6
  MaxCalls = 2
INVARIANTS
  TypeOK
  RecordsAccounted
  NoLostWakeup
PROPERTIES
  NewestWins
  RemoveReleasesReader
CHECK_DEADLOCK FALSE
