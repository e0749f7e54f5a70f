SPECIFICATION FairSpec
CONSTANTS
  Kind = "nosplit"
  Size = 8
  Header = 2
  Align = 1
  Items = {s1, s2}
  Senders = {s1, s2}
  Receivers = {r1, r2}
  Junk = Junk
  Lengths = {1, 2}
  Isr = TRUE
  MaxSends = 3
  Teams <- MCTeams
  s1 = s1
  s2 = s2
  r1 = r1
  r2 = r2
INVARIANT NoItemMissed
INVARIANT NoSpaceMissed
PROPERTY SendsEnd
CHECK_DEADLOCK FALSE
