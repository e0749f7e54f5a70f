SPECIFICATION FairSpec
CONSTANTS
  FullSectors = 6
  SectorSize = 16
  WrSize = 2
  StateLen = 4
  CfgLen = 4
  UpdateRate = 2
  Values = {v1}
  Ids = {d1}
  PowerFailAt <- AllPcs
  MaxPowerFails = 1
  FaultAt <- AllPcs
  MaxFaults = 1
INVARIANT ReadBackOnce
PROPERTY WearSpreads
