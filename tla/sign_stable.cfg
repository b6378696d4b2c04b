\* One list of four arbiters (threshold 3) at every height, rotating duty.
SPECIFICATION FairSpec
CONSTANTS
  self = self
  a1 = a1
  a2 = a2
  a3 = a3
  p1 = p1
  p2 = p2
  h1 = h1
  h2 = h2
  None = None
  Arbiter <- Four
  Self = self
  Proposal = {p1}
  Hash = {h1}
  TxHash <- OwnHashes
  MaxHeight = 3
  GroupAt <- RotatingDuty
  CRClaimDPOSNodeStartHeight = 3
  DPOSNodeCrossChainHeight = 9
  DuplicateAnswers = FALSE
  MaxCrashes = 1
INVARIANTS
  TypeOK
  SubmittedIsSpendable
PROPERTIES
  ImplementsQuorumSubmit
  ContentsResolved
CHECK_DEADLOCK FALSE
