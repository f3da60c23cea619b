SPECIFICATION Spec

CONSTANTS
  r1 = r1
  r2 = r2
  None = None
  Requests <- TwoRequests
  Amounts = {1, 2}
  Dates = {1}
  MaxRequests = 5
  Kinds <- KindsOf
  FailingSteps <- EveryStep

INVARIANTS
  VerifiedIsFunded
  LiveHasRecord
  HashesAreReal

CHECK_DEADLOCK FALSE
