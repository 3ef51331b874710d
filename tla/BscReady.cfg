SPECIFICATION Spec
CONSTANTS
  ReadyGpio = TRUE
  FifoSize = 2
  RxThreshold = 2
  TxThreshold = 1
  MaxTransfer = 3
  RxSlots = 2
  MaxWrites = 3
  MaxBytes = 2
  GapEvents = 2
INVARIANTS
  TypeOK
  OneRequest
  NoSplit
  ReadyMeansAnswered
  RepliesToNewest
  TxExact
  TxInterruptArmed
  ClosedIsInert
PROPERTIES
  PublishOwned
