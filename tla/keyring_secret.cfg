SPECIFICATION Spec
CONSTANTS
  p1 = p1
  p2 = p2
  p3 = p3
  pub = pub
  sec = sec
  ka = ka
  kb = kb
  kc = kc
  NoProc = NoProc
  Absent = Absent
  Proc = {p1, p2}
  Ring = {pub, sec}
  Secret = {sec}
  KrNames <- SameOrder
  Key = {ka, kb}
  Initial <- NoFiles
  May <- InsertOrUpdateOwn
  MaxLen = 1
  MaxOps = 2
  Faulty = TRUE
  Mortal = {p1}
  Reboots = TRUE
INVARIANTS NoDeadlock OneWriter HandlesMade
PROPERTIES CreatesOnlyMissing
CHECK_DEADLOCK FALSE
