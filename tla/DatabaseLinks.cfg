SPECIFICATION Spec
CONSTANTS
  p1 = p1  p2 = p2  p3 = p3  v1 = v1  v2 = v2  v3 = v3
  Proc = {p1, p2}
  NoProc = NoProc
  NoValue = NoValue
  Key <- Nested
  Value = {v1}
  SizeOf <- MCSizeOf
  Ops = {"insert", "put"}
  MaxOps = 1
  MaxCrashes = 0
PROPERTIES LinksStay
