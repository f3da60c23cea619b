SPECIFICATION FairSettlement

CONSTANTS
  r1 = r1
  r2 = r2
  c1 = c1
  c2 = c2
  stray = stray
  key = key
  None = None
  Requests <- OneRequest
  Selections <- OnePlace
  Creators <- TwoCreators
  Readers = {c1}
  ScopeKey = key
  StrayHash = stray
  ApprovalModes <- CreateApproval
  ClientHashes = {None}
  FailingSteps <- LostWrites
  MaxSetbacks = 1

INVARIANTS
  PaidIsTrue

PROPERTIES
  WinsAreNotTakenBack
  EveryoneLearns

CHECK_DEADLOCK FALSE
