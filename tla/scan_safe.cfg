SPECIFICATION ScanSpec
CONSTANTS
  w1 = w1
  f1 = f1
  n1 = n1
  e1 = e1
  Withdraw = {w1}
  FailedDeposit = {f1}
  NFT = {n1}
  Evidence = {e1}
  Depth = 3
  Interval = 2
  SyncStartHeight = 2
  SupportInvalidDeposit = TRUE
  SupportNFT = TRUE
  MaxHeight = 5
  MaxFaults = 1
  MaxCrashes = 1
  MaxReorgs = 1
  MaxTaken = 1
INVARIANTS
  ScanTypeOK
  RecordedIsFinal
  NoWithdrawSkipped
  NoEvidenceSkipped
  OnlyFaultsPassOver
  ReturnsEnteredOnce
CHECK_DEADLOCK FALSE
