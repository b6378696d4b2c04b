\* Two transactions, two lists, answers that repeat, resets and restarts.
SPECIFICATION FairSpec
CONSTANTS
  self = self
  a1 = a1
  a2 = a2
  p1 = p1
  p2 = p2
  None = None
  Arbiter = {self, a1, a2}
  Self = self
  Proposal = {p1, p2}
  MaxHeight = 1
  GroupAt <- LeavingMembers
  CRClaimDPOSNodeStartHeight = 9
  DPOSNodeCrossChainHeight = 9
  Draws = 2
INVARIANTS
  TypeOK
  SubmittedVerifies
  SubmittedOnce
  MuxReleased
PROPERTIES
  CalledIsSubmitted
CHECK_DEADLOCK FALSE
