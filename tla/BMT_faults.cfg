SPECIFICATION Spec
CONSTANTS
  SysCount = 2
  PoolCount = 4
  PageCount = 2
  MaxBbt = 2
  OobReserve = FALSE
  FaultKinds = {"erase","program","read"}
  Endless = {}
  MaxFaults = 3
  MaxFactoryBad = 1
  MaxCrashes = 0
  MaxDebug = 1
  DebugBlocks = {0, 1}
INVARIANTS
  FreeBlank
  DataSafe
  NoBadInUse
CHECK_DEADLOCK FALSE
