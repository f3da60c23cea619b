SPECIFICATION Spec

CONSTANTS
  r1 = r1
  r2 = r2
  w1 = w1
  w2 = w2
  stray = stray
  key = key
  None = None
  Requests <- TwoRequests
  Selections <- TwoSelections
  ScopeKey = key
  StrayHash = stray
  ApprovalModes <- AnyMode
  ClientHashes <- AnyClientHash
  FailingSteps <- EveryStep

SYMMETRY Interchangeable

INVARIANTS
  AtMostOneApproval
  ApprovalFollowsFinalization
  ConfirmedIsPaid
  EvidenceIsThePayout

PROPERTIES
  FinalizedForGood

CHECK_DEADLOCK FALSE
