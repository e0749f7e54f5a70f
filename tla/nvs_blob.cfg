CONSTANTS
  ENTRY_COUNT = 4
  ENTRY_SIZE = 2
  ITEMS_PER_WORD = 2
  PageCount = 3
  Keys <- MCKeys
  SmallTail = 2
  Configs <- FullConfigs
SPECIFICATION Spec
INVARIANT RefusalHarmless
