SPECIFICATION FairSpec
CONSTANTS
  Tasks = {t1, t2, t3}
  Partitions = {p1, p2, p3}
  Objects = {o1, o2, o3}
  MAX_WL_HANDLES = 2
  None = None
  MaxFails = 1
INVARIANT OneDriver
INVARIANT RightInstance
INVARIANT NoLeak
PROPERTY CallsReturn
