SPECIFICATION FairSpec

CONSTANTS
  f1 = f1
  f2 = f2
  None = None
  Flows = {f1, f2}
  Texts = {1, 2, 3}
  Complete = {2, 3}
  Prizes <- TheirPrizes
  Deadlines <- TheirDeadlines
  Polls = 1
  MaxSetbacks = 1

INVARIANTS
  SavedIsStored

PROPERTY FundedGoesLive

CHECK_DEADLOCK FALSE
