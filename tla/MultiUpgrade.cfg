SPECIFICATION FairSpec
CONSTANTS
  Images <- MCImages
  Pkts <- MCPkts
  AllInOne = {"whole"}
  Capacity = 4
  SeqMod = 6
  MaxFaults = 2
  MaxSwitches = 2
  MaxCrashes = 1
INVARIANTS
  TypeOK
  InPlace
  FlashSound
PROPERTIES
  Finishes
CHECK_DEADLOCK FALSE
