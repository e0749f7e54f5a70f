SPECIFICATION Spec
CONSTANTS
  FullSectors = 6
  SectorSize = 32
  WrSize = 4
  StateLen = 4
  CfgLen = 4
  UpdateRate = 2
  Values = {v1}
  Ids = {d1}
  PowerFailAt <- OutsideWindow
  MaxPowerFails = 3
  FaultAt <- RetriedFaults
  MaxFaults = 1
INVARIANT ReadBack
INVARIANT Recoverable
PROPERTY ImplementsFlashAccess
PROPERTY InitFailsOnce
INVARIANT IInv
