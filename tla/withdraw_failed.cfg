SPECIFICATION FlowSpec
CONSTANTS
  w1 = w1
  w2 = w2
  Withdraw = {w1, w2}
  Unpayable = {}
  Frozen = {w2}
  Batch = 2
  MaxCarried = 1
  MaxId = 2
  MaxFaults = 1
  MaxCrashes = 0
INVARIANTS
  FailedSendIsFinished
CHECK_DEADLOCK FALSE
