SPECIFICATION FairSpec
CONSTANTS
  Thread = {t1, t2}
  NoThread = NoThread
  PoolSize = 4
  Request <- Sizes
  Null = Null
  Clean = Clean
INVARIANTS Disjoint NothingLost Intact NoTrace LockKept
PROPERTIES SignalEnds
