SPECIFICATION FairSpec

CONSTANTS
  pay = pay
  out = out
  a1 = a1
  a2 = a2
  w1 = w1
  w2 = w2
  p1 = p1
  p2 = p2
  None = None
  Scopes = {pay, out}
  PayoutScopes = {out}
  Accounts = {a1, a2}
  Wallets = {w1, w2}
  Procs = {p1, p2}
  Workloads <- AllWorkloads

INVARIANTS
  GivenIsKept
  AnswersAreLive

PROPERTIES
  MappingStays
  ApprovedIsServed

CHECK_DEADLOCK FALSE
