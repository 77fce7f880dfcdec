SPECIFICATION Spec
CONSTANTS
  p1 = p1
  p2 = p2
  NoProc = NoProc
  Proc <- MCProc
  MaxNode = 14
  MaxOps = 3
  Early = 2
  Operations <- MCOperations
  UserId = "user"
INVARIANTS TypeOK OnePosition ReadsBack ObjectsExact WordsFound
PROPERTIES LocksDown
SYMMETRY Symmetry
