SPECIFICATION Spec

CONSTANTS
  r1 = r1
  r2 = r2
  alice = alice
  bob = bob
  key = key
  None = None
  Requests <- TwoRequests
  Creators <- TwoCreators
  Ids = {1, 2}
  Codes = {1, 2}
  IdempotencyKeys <- OneKey
  Scores = {0, 1}
  WinnerCount = 1
  Settings <- EverySetting

SYMMETRY Interchangeable

INVARIANTS
  OneEntryPerCreator
  KeysNameSubmitted
  WinnersStand

PROPERTIES
  SubmittedStayAlone

CHECK_DEADLOCK FALSE
