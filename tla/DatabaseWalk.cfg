SPECIFICATION FairSpec
CONSTANTS
  p1 = p1  p2 = p2  p3 = p3  v1 = v1  v2 = v2  v3 = v3
  Proc = {p1, p2, p3}
  NoProc = NoProc
  NoValue = NoValue
  Key <- PrefixFree
  Value = {v1}
  SizeOf <- MCSizeOf
  Ops = {"insert", "put"}
  MaxOps = 1
  MaxCrashes = 0
INVARIANTS CursorAtKey
PROPERTIES LinksStay OperationsEnd
