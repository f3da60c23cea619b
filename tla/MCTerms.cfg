SPECIFICATION FairSpec

CONSTANTS
  Totals = {2, 6}
  EnteredPrizes = {0, 2}
  Deadlines = {0, 2, 3, 4}
  Lead = 1
  Gap = 1
  MaxLag = 2
  LastTime = 5
  MaxEntries = 3
  MaxEdits = 2
  None = None

INVARIANTS
  FundingIsAccepted

PROPERTIES
  LiveGetsPaid

CHECK_DEADLOCK FALSE
