\* Two burns and a failed deposit in three worlds;
\* two coins, which do not pay for everything; both rates.
SPECIFICATION CheckSpec
CONSTANTS
  b1 = b1
  b2 = b2
  d1 = d1
  alice = alice
  bob = bob
  frozen = frozen
  None = None
  Bank = Bank
  Burn = {b1, b2}
  Deposit = {d1}
  DepositFrom <- DepositSender
  Worlds <- ThreeWorlds
  Address = {alice, bob, frozen}
  Frozen = {frozen}
  Malformed = {}
  MinFee = 2
  ReturnFee = 1
  Step = 1
  MaxOuts = 3
  MaxLag = 1
  MaxScans = 2
  Funds <- Purse
INVARIANTS
  WithdrawAgreedIff
  ReturnAgreedIff
  BooksBalance
CHECK_DEADLOCK FALSE
