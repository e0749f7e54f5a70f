SPECIFICATION Spec
CONSTANTS
  Kind = "byte"
  Size = 5
  Header = 2
  Align = 1
  Items = {}
  Junk = Junk
  Numbers = 11
INVARIANT SpaceExact
INVARIANT FitsExactly
INVARIANT ByteOrder
