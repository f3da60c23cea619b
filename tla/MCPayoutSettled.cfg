SPECIFICATION FairSpec

CONSTANTS
  r1 = r1
  r2 = r2
  w1 = w1
  w2 = w2
  stray = stray
  key = key
  None = None
  Requests <- OneRequest
  Selections <- TwoSelections
  ScopeKey = key
  StrayHash = stray
  ApprovalModes <- UsedMode
  ClientHashes <- NoClientHash
  FailingSteps <- EvidenceWrite

PROPERTIES
  SettlementIsRecorded

CHECK_DEADLOCK FALSE
