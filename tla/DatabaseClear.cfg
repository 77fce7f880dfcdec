SPECIFICATION Spec
CONSTANTS
  p1 = p1  p2 = p2  p3 = p3  v1 = v1  v2 = v2  v3 = v3
  Proc = {p1}
  NoProc = NoProc
  NoValue = NoValue
  Key <- ThreeKeys
  Value = {v1}
  SizeOf <- MCSizeOf
  Ops = {"insert", "put", "remove"}
  MaxOps = 5
  MaxCrashes = 1
PROPERTIES KeyCleared OthersRemain
