SPECIFICATION FairSpec

CONSTANTS
  u1 = u1
  u2 = u2
  p1 = p1
  p2 = p2
  t1 = t1
  k1 = k1
  k2 = k2
  None = None
  Users = {u1, u2}
  Procs = {p1, p2}
  Tabs = {t1}
  Keys = {k1, k2}
  Names = {"ada"}
  Workloads <- AllWorkloads
  MaxFaults = 1

INVARIANTS
  OneOperation
  VerifiedIsTrusted
  AvatarExists

PROPERTIES
  ActiveForGood
  RoleIsKept
  OfferedBecomesActive

CHECK_DEADLOCK FALSE
