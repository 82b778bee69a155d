SPECIFICATION FairSpec
CONSTANTS
  ImgLen = 4
  MaxFileLen = 5
  SeqMod = 4
  RetryLimit = 3
  MaxFaults = 2
INVARIANTS
  TypeOK
  InOrder
  FlashWhole
PROPERTIES
  ReceiveReturns
  ImplementsTransfer
CHECK_DEADLOCK FALSE
