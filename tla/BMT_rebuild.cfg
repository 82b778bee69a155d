SPECIFICATION Spec
CONSTANTS
  SysCount = 2
  PoolCount = 5
  PageCount = 1
  MaxBbt = 2
  OobReserve = FALSE
  FaultKinds = {"erase", "read"}
  Endless = {}
  MaxFaults = 4
  MaxFactoryBad = 0
  MaxCrashes = 1
  MaxDebug = 0
  DebugBlocks = {}
INVARIANTS
  DataSafe
CHECK_DEADLOCK FALSE
