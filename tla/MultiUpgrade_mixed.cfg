SPECIFICATION Spec
CONSTANTS
  Images <- MCImages
  Pkts <- MCPkts
  AllInOne = {"whole"}
  Capacity = 4
  SeqMod = 6
  MaxFaults = 0
  MaxSwitches = 1
  MaxCrashes = 0
INVARIANTS
  KernelWhole
CHECK_DEADLOCK FALSE
