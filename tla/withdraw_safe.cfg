\* A payable withdraw and one that is not, fair goroutines, two faults and a crash.
SPECIFICATION FlowFairSpec
CONSTANTS
  w1 = w1
  w2 = w2
  Withdraw = {w1, w2}
  Unpayable = {w2}
  Frozen = {}
  Batch = 2
  MaxCarried = 1
  MaxId = 2
  MaxFaults = 2
  MaxCrashes = 1
INVARIANTS
  FlowTypeOK
  WithdrawsAccounted
  VerdictsFounded
PROPERTIES
  ImplementsLedger
  RowsLeave
CHECK_DEADLOCK FALSE
