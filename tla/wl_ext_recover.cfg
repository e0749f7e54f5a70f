SPECIFICATION Spec
CONSTANTS
  Values = {v1}
  SizeFactor = 2
  Configs <- SafeConfigs
INVARIANT KeepsData
