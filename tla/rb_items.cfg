SPECIFICATION Spec
CONSTANTS
  Header = 4
  Align = 2
  Items = {i1, i2, i3, i4}
  Junk = Junk
  Configs <- MCConfigs
SYMMETRY Symmetry
INVARIANT Intact
INVARIANT AvailableExactly
INVARIANT CurFreeSizeTrue
PROPERTY ImplementsFifo
