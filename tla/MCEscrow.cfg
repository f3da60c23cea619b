SPECIFICATION Spec

CONSTANTS
  this = this
  treasury = treasury
  sponsor = sponsor
  ops = ops
  alice = alice
  zero = zero
  ChallengeIds = {c1, c2}
  Accounts <- MCAccounts
  ZeroAddress = zero
  This = this
  Treasury = treasury
  Admin = ops
  Resolver = ops
  Pauser = ops
  MaxUint = 5
  MaxTime = 2
  PrizeLists <- MCPrizeLists
  Fees <- MCFees
  WinnerLists <- MCWinnerLists
  Appointees = {ops}
  Amounts = {3}
  InitialBalances <- MCInitialBalances

INVARIANTS
  Collateralised
  BooksBalance
  RefundNeverReverts

PROPERTIES
  CustodySpec

CHECK_DEADLOCK FALSE
