SPECIFICATION FairSpec
CONSTANTS
  p1 = p1
  p2 = p2
  p3 = p3
  n1 = n1
  NoProc = NoProc
  Proc = {p1, p2, p3}
  NodeOf <- OneNode
  HardLinks = FALSE
  Killable = {p1, p2, p3}
  Signalled = {p1, p2, p3}
  Trying = FALSE
  MaxInc = 2
INVARIANTS MutexUnlessRobbed IInv
PROPERTIES FirstRobbery Recovery
CHECK_DEADLOCK FALSE
