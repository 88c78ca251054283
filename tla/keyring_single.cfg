SPECIFICATION Spec
CONSTANTS
  p1 = p1
  p2 = p2
  p3 = p3
  pub = pub
  sec = sec
  ka = ka
  kb = kb
  kc = kc
  NoProc = NoProc
  Absent = Absent
  Proc = {p1}
  Ring = {pub, sec}
  Secret = {sec}
  KrNames <- SameOrder
  Key = {ka, kb, kc}
  Initial <- TwoKeys
  May <- Everything
  MaxLen = 2
  MaxOps = 3
  Faulty = TRUE
  Mortal = {p1}
  Reboots = FALSE
INVARIANTS NothingLost NoLeakedLock NeverMissed
CHECK_DEADLOCK FALSE
