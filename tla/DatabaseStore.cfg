SPECIFICATION Spec
CONSTANTS
  p1 = p1  p2 = p2  p3 = p3  v1 = v1  v2 = v2  v3 = v3
  Proc = {p1, p2}
  NoProc = NoProc
  NoValue = NoValue
  Key <- PrefixFree
  Value = {v1, v2, v3}
  SizeOf <- MCSizeOf
  Ops = {"put"}
  MaxOps = 2
  MaxCrashes = 1
PROPERTIES ImplementsStore
