SPECIFICATION Spec
CONSTANTS
  Values = {v1}
  SizeFactor = 2
  Configs <- MCConfigs
INVARIANT KeepsOtherData
INVARIANT TransactionClosed
