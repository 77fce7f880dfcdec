SPECIFICATION FairSpec
CONSTANTS
  t1 = t1  t2 = t2  t3 = t3
  Thread = {t1, t2, t3}
  NoThread = NoThread
  Index = {1, 2}
  MaxDepth = 2
  MaxLocks = 2
INVARIANTS TypeOK EntryKept MutexHeld GlobalBrief
PROPERTIES ImplementsLocks LockReturns
