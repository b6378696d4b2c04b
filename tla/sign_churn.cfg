\* The list changes with every height, and the threshold rule after height 1.
SPECIFICATION Spec
CONSTANTS
  self = self
  a1 = a1
  a2 = a2
  a3 = a3
  p1 = p1
  p2 = p2
  h1 = h1
  h2 = h2
  None = None
  Arbiter <- Four
  Self = self
  Proposal = {p1, p2}
  Hash = {h1, h2}
  TxHash <- OwnHashes
  MaxHeight = 2
  GroupAt <- ChangingLists
  CRClaimDPOSNodeStartHeight = 1
  DPOSNodeCrossChainHeight = 9
  DuplicateAnswers = TRUE
  MaxCrashes = 0

INVARIANTS
  SubmittedAtMostOnce
  NoRepeatedSignerSubmitted
  MergedSignersInCode
CHECK_DEADLOCK FALSE
