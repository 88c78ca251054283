SPECIFICATION Spec
CONSTANTS
  p1 = p1
  p2 = p2
  ka = ka
  kb = kb
  kc = kc
  kd = kd
  NoProc = NoProc
  Absent = Absent
  Proc = {p1}
  Fpr = {ka, kb, kc, kd}
  Byte <- FirstBytes
  Slots = 2
  PerHtbl = 1
  PerHlst = 2
  CacheSoft = 3
  Values = {1}
  Imports <- OneFile
  Checks <- SomeChecks
  LockOnce = FALSE
  Mortal = {p1}
  MaxOps = 3
INVARIANTS TypeOK Lookups OnDisk OnePerKey CheckScheduled
CHECK_DEADLOCK FALSE
