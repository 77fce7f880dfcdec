SPECIFICATION StampSpec
CONSTANTS
  u1 = u1  u2 = u2  u3 = u3
  User = {u1, u2, u3}
  NoUser = NoUser
  MaxSegments = 2
  MaxActive = 2
  MaxClock = 2
  MaxStamps = 3
  MaxStepsBack = 0
INVARIANTS Exclusive
CHECK_DEADLOCK FALSE
