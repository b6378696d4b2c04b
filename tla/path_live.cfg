SPECIFICATION PathFairSpec
CONSTANTS
  w1 = w1
  Withdraw = {w1}
  Unpayable = {}
  Frozen = {}
  Batch = 1
  MaxCarried = 1
  MaxId = 9
  MaxFaults = 1
  MaxCrashes = 1
  Depth = 2
  Interval = 2
  SyncStartHeight = 0
  MaxHeight = 3
  MaxReorgs = 1
INVARIANTS
  PaidIsFinal
  NoneLost
PROPERTIES
  FinalIsPaid
  PaidGetsVerdict
CHECK_DEADLOCK FALSE
