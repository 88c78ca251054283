SPECIFICATION Spec
CONSTANTS
  p1 = p1
  p2 = p2
  p3 = p3
  n1 = n1
  NoProc = NoProc
  Proc = {p1, p2, p3}
  NodeOf <- OneNode
  HardLinks = TRUE
  Killable = {}
  Signalled = {}
  Trying = FALSE
  MaxInc = 1
SYMMETRY Alike
INVARIANTS Mutex
CHECK_DEADLOCK FALSE
