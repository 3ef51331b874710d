SPECIFICATION Spec
CONSTANTS
  ReadyGpio = TRUE
  FifoSize = 2
  RxThreshold = 2
  TxThreshold = 1
  MaxTransfer = 1
  RxSlots = 1
  MaxWrites = 2
  MaxBytes = 2
  GapEvents = 1
PROPERTIES
  OnlyAcceptedAcknowledged
