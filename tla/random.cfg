CONSTANTS
  a1 = a1
  a2 = a2
  b1 = b1
  p = p
  q = q
  Thread <- Threads
  NoThread = NoThread
  Proc <- Processes
  NoProc = NoProc
  ProcOf <- Of
  PoolSize = 10
  FastLength = 5
  Request <- Requests
  MaxCalls <- Calls
  MaxStarts = 2
SPECIFICATION FairSpec
INVARIANTS TypeOK Backed SeededUnlessReplaced
PROPERTIES SeedNotMissed Delivered
