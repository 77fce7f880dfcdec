SPECIFICATION Spec
CONSTANTS
  p1 = p1  p2 = p2  p3 = p3  v1 = v1  v2 = v2  v3 = v3
  Proc = {p1, p2}
  NoProc = NoProc
  NoValue = NoValue
  Key <- Nested
  Value = {v1, v3}
  SizeOf <- MCSizeOf
  Ops = {"insert", "put", "get", "clear", "remove"}
  MaxOps = 2
  MaxCrashes = 1
INVARIANTS TypeOK WellFormed Inv DataPrivate
PROPERTIES ExtentsFixed
SYMMETRY Handles
