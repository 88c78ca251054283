SPECIFICATION Spec
CONSTANTS
  u = u
  a = a
  b = b
  c = c
  u1 = u1
  a1 = a1
  b1 = b1
  b2 = b2
  c1 = c1
  Key = {u, a, b, c}
  Uid = {u1, a1, b1, b2, c1}
  UidsOf <- TwoOfB
  Beginnings <- All
  Rateable = {a, b, c}
  Assignable = {4}
  Completes = 1
  Marginals = 2
  MaxDepth = 3
  CountMod = 256
  Pgp = TRUE
  Interactive = TRUE
  NoAutoCheck = {TRUE, FALSE}
  Failing = TRUE
  Horizon = 4
  MaxSets = 1
  MaxForced = 1
INVARIANTS Exact NeverMore Delegated
PROPERTIES Growing
CHECK_DEADLOCK FALSE
