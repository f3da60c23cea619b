SPECIFICATION FairSpec

CONSTANTS
  s1 = s1
  s2 = s2
  d1 = d1
  d2 = d2
  Servers <- TwoProcesses
  Drafts <- TwoDrafts
  Original <- FirstDraft
  Adapters = {"filesystem", "supabase"}
  MaxRequests = 3
  Retries = 3

INVARIANTS
  OneServerLosesNothing
  FailureLeavesNoTrace
  DeletedStaysDeleted

PROPERTIES
  OneServerSparesPayments
  EveryRequestEnds

CHECK_DEADLOCK FALSE
