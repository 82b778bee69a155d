SPECIFICATION FairSpec
CONSTANTS
  SysCount = 2
  PoolCount = 4
  PageCount = 1
  MaxBbt = 2
  OobReserve = FALSE
  FaultKinds = {"erase","program","read","bootread","recread","mark"}
  Endless = {"program"}
  MaxFaults = 1
  MaxFactoryBad = 0
  MaxCrashes = 1
  MaxDebug = 1
  DebugBlocks = {1, 4}
INVARIANTS
  TypeOK
  Injective
PROPERTIES
  EveryCallReturns
CHECK_DEADLOCK FALSE
