SPECIFICATION StampSpec
CONSTANTS
  u1 = u1  u2 = u2  u3 = u3
  User = {u1, u2, u3}
  NoUser = NoUser
  MaxSegments = 2
  MaxActive = 1
  MaxClock = 2
  MaxStamps = 3
  MaxStepsBack = 1
INVARIANTS StampTypeOK Exclusive OneSegment NoneLeft NoDuplicates InOrder
SYMMETRY Users
CHECK_DEADLOCK FALSE
