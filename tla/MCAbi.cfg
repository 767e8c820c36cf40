SPECIFICATION Spec
CONSTANTS
  Ptr = {p1, p2, p3, p4, p5, p6}
  Null = Null
  Nobody = Nobody
  MaxCalls = 2
  MaxHostCalls = 2
INVARIANTS Ownership RightBytes
CHECK_DEADLOCK FALSE
