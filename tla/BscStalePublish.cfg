SPECIFICATION Spec
CONSTANTS
  ReadyGpio = TRUE
  FifoSize = 1
  RxThreshold = 1
  TxThreshold = 1
  MaxTransfer = 2
  RxSlots = 1
  MaxWrites = 2
  MaxBytes = 1
  GapEvents = 1
PROPERTIES
  NotOverUnreadInput
