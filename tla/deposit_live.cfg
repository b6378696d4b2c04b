\* One deposit, the three kinds of goroutine at once, every answer, one crash.
SPECIFICATION FairSpec
CONSTANTS
  d1 = d1
  g1 = g1
  Deposit = {d1}
  Listener = listener
  Checker = checker
  Duty = {g1}
  Answers = {"accepted", "duplicate", "invalid", "error", "lost"}
  MaxCrashes = 1
INVARIANTS
  TypeOK
  Accounted
  SucceedIsOnSide
PROPERTIES
  RecordedEventually
  ImplementsDepositLedger
CHECK_DEADLOCK FALSE
