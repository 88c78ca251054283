SPECIFICATION FairSpec
CONSTANTS
  Pid = {1, 2}
  Timeouts <- Callers
  MaxLooks = 20
INVARIANTS ExactTimeout SoonForNewOwner
PROPERTIES Ends
CHECK_DEADLOCK FALSE
