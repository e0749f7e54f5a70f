SPECIFICATION Spec
CONSTANTS
  Sector = 8
  Block = 4
  Configs <- MCConfigs
INVARIANT ImageComplete
INVARIANT NotRefused
