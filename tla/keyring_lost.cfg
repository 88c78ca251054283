SPECIFICATION Spec
CONSTANTS
  p1 = p1
  p2 = p2
  p3 = p3
  pub = pub
  sec = sec
  ka = ka
  kb = kb
  kc = kc
  NoProc = NoProc
  Absent = Absent
  Proc = {p1, p2}
  Ring = {sec}
  Secret = {sec}
  KrNames <- OneRing
  Key = {ka, kb}
  Initial <- EmptyFiles
  May <- InsertOwn
  MaxLen = 1
  MaxOps = 1
  Faulty = FALSE
  Mortal = {}
  Reboots = FALSE
INVARIANTS NothingLost
CHECK_DEADLOCK FALSE
