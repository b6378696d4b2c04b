\* No call is lost: what is recorded as failed can only be a duplicate.
SPECIFICATION Spec
CONSTANTS
  d1 = d1
  g1 = g1
  Deposit = {d1}
  Listener = listener
  Checker = checker
  Duty = {g1}
  Answers = {"accepted", "duplicate", "invalid"}
  MaxCrashes = 0
INVARIANT ProcessedIsNotFailed
CHECK_DEADLOCK FALSE
