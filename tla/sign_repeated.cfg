\* Two transactions without a nonce share one hash; answers may be delivered twice.
SPECIFICATION Spec
CONSTANTS
  self = self
  a1 = a1
  a2 = a2
  a3 = a3
  p1 = p1
  p2 = p2
  h1 = h1
  h2 = h2
  None = None
  Arbiter <- Three
  Self = self
  Proposal = {p1, p2}
  Hash = {h1}
  TxHash <- OneHash
  MaxHeight = 2
  GroupAt <- ConstantDuty
  CRClaimDPOSNodeStartHeight = 1
  DPOSNodeCrossChainHeight = 2
  DuplicateAnswers = TRUE
  MaxCrashes = 0
SYMMETRY PeersAndTwins
INVARIANT SignerNotCountedTwice
CHECK_DEADLOCK FALSE
