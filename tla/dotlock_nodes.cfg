SPECIFICATION Spec
CONSTANTS
  p1 = p1
  p2 = p2
  p3 = p3
  n1 = n1
  NoProc = NoProc
  Proc = {p1, p2, p3}
  NodeOf <- OwnNodes
  HardLinks = TRUE
  Killable = {p1, p2, p3}
  Signalled = {}
  Trying = TRUE
  MaxInc = 2
SYMMETRY Alike
INVARIANTS Mutex
PROPERTIES ImplementsAbstractLock
CHECK_DEADLOCK FALSE
