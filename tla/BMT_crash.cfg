SPECIFICATION Spec
CONSTANTS
  SysCount = 2
  PoolCount = 4
  PageCount = 2
  MaxBbt = 2
  OobReserve = FALSE
  FaultKinds = {"erase","program","read"}
  Endless = {}
  MaxFaults = 2
  MaxFactoryBad = 1
  MaxCrashes = 2
  MaxDebug = 0
  DebugBlocks = {}
INVARIANTS
  MapSafe
  DataSurvivesLoss
  BbtIsFactory
  PoolStable
PROPERTIES
  PoolEraseSparesMapped
CHECK_DEADLOCK FALSE
