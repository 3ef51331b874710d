SPECIFICATION Spec
CONSTANTS
  ReadyGpio = FALSE
  FifoSize = 2
  RxThreshold = 2
  TxThreshold = 1
  MaxTransfer = 2
  RxSlots = 2
  MaxWrites = 4
  MaxBytes = 2
  GapEvents = 1
PROPERTIES
  ReadsAdvance
