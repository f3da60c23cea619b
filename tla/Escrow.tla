------------------------------- MODULE Escrow -------------------------------
(***************************************************************************)
(* contracts/src/CCNEscrow.sol: the USDC escrow that locks a sponsor's     *)
(* prize pool and platform fee per challenge and releases them once, to    *)
(* the winners and the treasury or back to the sponsor.                    *)
(*                                                                         *)
(* A transaction is atomic and nonReentrant, so one external function is   *)
(* one action; a revert leaves no trace and is the absence of a step.      *)
(* Solidity 0.8 arithmetic reverts on overflow and underflow: each is a    *)
(* guard.  AccessControl, Pausable and the USDC token are libraries that   *)
(* are not in the repository; they are modelled as CCNEscrow uses them.    *)
(***************************************************************************)
EXTENDS Integers, Sequences, FiniteSetsExt

CONSTANTS
  ChallengeIds,   \* the non-zero bytes32 challenge identifiers
  Accounts,       \* addresses that hold USDC, the contract's included
  ZeroAddress,    \* address(0)
  This,           \* the address of the contract
  Treasury,       \* immutable treasury, given to the constructor
  Admin, Resolver, Pauser,   \* the role holders the constructor is given
  MaxUint,        \* the largest uint256
  MaxTime,        \* bound: the last block timestamp
  PrizeLists,     \* the amounts arrays callers pass to fundChallenge
  Fees,           \* the platformFee values callers pass
  WinnerLists,    \* the winners arrays callers pass to releasePayout
  Appointees,     \* bound: the addresses roles are granted to and taken from
  Amounts,        \* bound: the amounts of transfers that bypass the contract
  InitialBalances \* the USDC balances before any challenge is funded

ASSUME EscrowConstants ==
  /\ ZeroAddress \notin Accounts
  /\ {This, Treasury, Admin, Resolver, Pauser} \subseteq Accounts
  /\ MaxUint \in Nat /\ MaxTime \in Nat
  /\ PrizeLists \subseteq Seq(Nat)
  /\ Fees \subseteq Nat
  /\ WinnerLists \subseteq Seq(Accounts \cup {ZeroAddress})
  /\ Appointees \subseteq Accounts
  /\ Amounts \subseteq Nat
  /\ InitialBalances \subseteq [Accounts -> Nat]

VARIABLES
  challenges,              \* mapping(bytes32 => ChallengeEscrow)
  prizeAmounts,            \* mapping(bytes32 => uint256[])
  totalLockedPrizePools,
  totalLockedPlatformFees,
  roles,                   \* AccessControl: role -> the addresses that hold it
  paused,                  \* Pausable
  balances,                \* USDC
  now                      \* block.timestamp

vars == <<challenges, prizeAmounts, totalLockedPrizePools,
          totalLockedPlatformFees, roles, paused, balances, now>>

Statuses == {"NONE", "FUNDED", "PAID", "REFUNDED"}
Roles == {"ADMIN", "RESOLVER", "PAUSER"}
Uint == 0..MaxUint

\* An untouched slot of the mapping reads as zeros.
NoChallenge == [sponsor |-> ZeroAddress, prizePool |-> 0, platformFee |-> 0,
                submissionDeadline |-> 0, reviewDeadline |-> 0,
                winnerCount |-> 0, status |-> "NONE"]

ChallengeEscrow ==
  [sponsor : Accounts \cup {ZeroAddress}, prizePool : Uint, platformFee : Uint,
   submissionDeadline : Nat, reviewDeadline : Nat, winnerCount : {0, 1, 3},
   status : Statuses]

\* The loop over amounts, which runs once or three times.
PrizeTotal(amounts) ==
  IF Len(amounts) = 1 THEN amounts[1] ELSE amounts[1] + amounts[2] + amounts[3]

\* safeWinnerCount
SafeWinnerCount(n) == IF n = 1 THEN 1 ELSE 3

\* The checked additions of fundChallenge.
AdditionsFit(pool, fee, pools, fees) ==
  pool + fee <= MaxUint /\ pools <= MaxUint /\ fees <= MaxUint

\* Line 110: ChallengeAlreadyExists.
Fundable(c) == challenges[c].status = "NONE"

\* A bug: only the first of the two status checks.
ExistsOnly(c) == challenges[c].status # "NONE"

\* Lines 164-165 and 201-202: the challenge exists and is not settled yet.
Settleable(c) == challenges[c].status = "FUNDED"

Liability(c) == challenges[c].prizePool + challenges[c].platformFee

\* _assertAccountingInvariant, evaluated on the totals and the balance that
\* hold at that point of the transaction.
AccountingHolds(balance, pools, fees) == balance >= pools + fees

\* _validateWinners
ValidWinners(winners) ==
  \A i \in 1..Len(winners) :
    /\ winners[i] # ZeroAddress
    /\ \A j \in (i + 1)..Len(winners) : winners[i] # winners[j]

\* What account a receives of the prizes; the winners are distinct.
PrizeOf(a, winners, amounts) ==
  IF \E i \in 1..Len(winners) : winners[i] = a
  THEN amounts[CHOOSE i \in 1..Len(winners) : winners[i] = a]
  ELSE 0

Init ==
  /\ challenges = [c \in ChallengeIds |-> NoChallenge]
  /\ prizeAmounts = [c \in ChallengeIds |-> <<>>]
  /\ totalLockedPrizePools = 0
  /\ totalLockedPlatformFees = 0
  /\ roles = [r \in Roles |-> CASE r = "ADMIN" -> {Admin}
                                [] r = "RESOLVER" -> {Resolver}
                                [] r = "PAUSER" -> {Pauser}]
  /\ paused = FALSE
  /\ balances \in InitialBalances
  /\ now = 0

-----------------------------------------------------------------------------
\* USDC transferFrom needs the balance; safeTransferFrom reverts otherwise.
FundChallenge(caller, c, amounts, fee, submissionDeadline, reviewDeadline) ==
  /\ ~paused
  /\ Fundable(c)
  /\ Len(amounts) \in {1, 3}
  /\ \A i \in 1..Len(amounts) : amounts[i] > 0
  /\ submissionDeadline > now
  /\ reviewDeadline > submissionDeadline
  /\ LET pool == PrizeTotal(amounts)
         pools == totalLockedPrizePools + pool
         fees == totalLockedPlatformFees + fee
     IN /\ AdditionsFit(pool, fee, pools, fees)
        /\ balances[caller] >= pool + fee
        /\ AccountingHolds(balances[This] + pool + fee, pools, fees)
        /\ challenges' = [challenges EXCEPT ![c] =
             [sponsor |-> caller, prizePool |-> pool, platformFee |-> fee,
              submissionDeadline |-> submissionDeadline,
              reviewDeadline |-> reviewDeadline,
              winnerCount |-> SafeWinnerCount(Len(amounts)), status |-> "FUNDED"]]
        /\ prizeAmounts' = [prizeAmounts EXCEPT ![c] = amounts]
        /\ totalLockedPrizePools' = pools
        /\ totalLockedPlatformFees' = fees
        /\ balances' = [balances EXCEPT ![caller] = @ - (pool + fee),
                                        ![This] = @ + (pool + fee)]
  /\ UNCHANGED <<roles, paused, now>>

\* A bug: the platform fee stays in the locked totals.
UnlockPoolOnly(c, status) ==
  /\ totalLockedPrizePools >= challenges[c].prizePool
  /\ challenges' = [challenges EXCEPT ![c].status = status]
  /\ totalLockedPrizePools' = totalLockedPrizePools - challenges[c].prizePool
  /\ UNCHANGED totalLockedPlatformFees
  /\ AccountingHolds(balances[This], totalLockedPrizePools', totalLockedPlatformFees)

\* The three statements that take a challenge out of the locked totals.
Unlock(c, status) ==
  /\ totalLockedPrizePools >= challenges[c].prizePool
  /\ totalLockedPlatformFees >= challenges[c].platformFee
  /\ challenges' = [challenges EXCEPT ![c].status = status]
  /\ totalLockedPrizePools' = totalLockedPrizePools - challenges[c].prizePool
  /\ totalLockedPlatformFees' = totalLockedPlatformFees - challenges[c].platformFee
  /\ AccountingHolds(balances[This], totalLockedPrizePools', totalLockedPlatformFees')

ReleasePayout(caller, c, winners) ==
  /\ caller \in roles["RESOLVER"]
  /\ ~paused
  /\ Settleable(c)
  /\ now >= challenges[c].reviewDeadline
  /\ Len(winners) = challenges[c].winnerCount
  /\ Len(prizeAmounts[c]) = challenges[c].winnerCount
  /\ ValidWinners(winners)
  /\ Unlock(c, "PAID")
  /\ balances' = [a \in Accounts |->
       balances[a]
         + PrizeOf(a, winners, prizeAmounts[c])
         + (IF a = Treasury THEN challenges[c].platformFee ELSE 0)
         - (IF a = This THEN PrizeTotal(prizeAmounts[c]) + challenges[c].platformFee ELSE 0)]
  /\ balances'[This] >= 0
  /\ UNCHANGED <<prizeAmounts, roles, paused, now>>

\* A bug: the refund goes to msg.sender.
RefundToCaller(caller, c) == caller

\* Lines 205 and 212: the refund goes to the stored sponsor.
RefundTo(caller, c) == challenges[c].sponsor

CancelAndRefund(caller, c) ==
  /\ caller \in roles["RESOLVER"]
  /\ ~paused
  /\ Settleable(c)
  /\ Unlock(c, "REFUNDED")
  /\ balances[This] >= Liability(c)
  /\ balances' = [balances EXCEPT ![This] = @ - Liability(c),
                                  ![RefundTo(caller, c)] = @ + Liability(c)]
  /\ UNCHANGED <<prizeAmounts, roles, paused, now>>

Pause(caller) ==
  /\ caller \in roles["PAUSER"]
  /\ ~paused
  /\ paused' = TRUE
  /\ UNCHANGED <<challenges, prizeAmounts, totalLockedPrizePools,
                 totalLockedPlatformFees, roles, balances, now>>

Unpause(caller) ==
  /\ caller \in roles["PAUSER"]
  /\ paused
  /\ paused' = FALSE
  /\ UNCHANGED <<challenges, prizeAmounts, totalLockedPrizePools,
                 totalLockedPlatformFees, roles, balances, now>>

-----------------------------------------------------------------------------
\* AccessControl: every role's admin is DEFAULT_ADMIN_ROLE.
GrantRole(caller, r, a) ==
  /\ caller \in roles["ADMIN"]
  /\ roles' = [roles EXCEPT ![r] = @ \cup {a}]
  /\ UNCHANGED <<challenges, prizeAmounts, totalLockedPrizePools,
                 totalLockedPlatformFees, paused, balances, now>>

RevokeRole(caller, r, a) ==
  /\ caller \in roles["ADMIN"] \/ caller = a      \* renounceRole
  /\ roles' = [roles EXCEPT ![r] = @ \ {a}]
  /\ UNCHANGED <<challenges, prizeAmounts, totalLockedPrizePools,
                 totalLockedPlatformFees, paused, balances, now>>

\* USDC: a holder other than the contract sends tokens, possibly to the contract.
Transfer(from, to, amount) ==
  /\ from # This /\ from # to
  /\ balances[from] >= amount
  /\ balances' = [balances EXCEPT ![from] = @ - amount, ![to] = @ + amount]
  /\ UNCHANGED <<challenges, prizeAmounts, totalLockedPrizePools,
                 totalLockedPlatformFees, roles, paused, now>>

Tick ==
  /\ now < MaxTime
  /\ now' = now + 1
  /\ UNCHANGED <<challenges, prizeAmounts, totalLockedPrizePools,
                 totalLockedPlatformFees, roles, paused, balances>>

Next ==
  \/ \E caller \in Accounts \ {This}, c \in ChallengeIds, amounts \in PrizeLists,
        fee \in Fees, submission, review \in 0..MaxTime :
       FundChallenge(caller, c, amounts, fee, submission, review)
  \/ \E caller \in Accounts \ {This}, c \in ChallengeIds, winners \in WinnerLists :
       ReleasePayout(caller, c, winners)
  \/ \E caller \in Accounts \ {This}, c \in ChallengeIds : CancelAndRefund(caller, c)
  \/ \E caller \in Accounts \ {This} : Pause(caller) \/ Unpause(caller)
  \/ \E caller \in Accounts \ {This}, r \in Roles, a \in Appointees :
       GrantRole(caller, r, a) \/ RevokeRole(caller, r, a)
  \/ \E from, to \in Accounts, amount \in Amounts : Transfer(from, to, amount)
  \/ Tick

Spec == Init /\ [][Next]_vars

-----------------------------------------------------------------------------
\* Every variable has its Solidity type.
TypeOK ==
  /\ challenges \in [ChallengeIds -> ChallengeEscrow]
  /\ prizeAmounts \in [ChallengeIds -> Seq(Nat)]
  /\ totalLockedPrizePools \in Uint
  /\ totalLockedPlatformFees \in Uint
  /\ roles \in [Roles -> SUBSET Accounts]
  /\ paused \in BOOLEAN
  /\ balances \in [Accounts -> Nat]
  /\ now \in 0..MaxTime

Funded(c) == challenges[c].status = "FUNDED"

\* The contract's balance covers its recorded liabilities after every
\* transaction (the assertion of lines 271-275 runs before the
\* transfers of a settlement, so it alone does not show this).
Collateralised ==
  balances[This] >= totalLockedPrizePools + totalLockedPlatformFees

\* The running totals are the sums over the funded challenges: no settlement
\* is forgotten, counted twice, or taken from another challenge's part.
TotalsMatchChallenges ==
  LET funded == {c \in ChallengeIds : Funded(c)}
  IN /\ totalLockedPrizePools =
          MapThenSumSet(LAMBDA c : challenges[c].prizePool, funded)
     /\ totalLockedPlatformFees =
          MapThenSumSet(LAMBDA c : challenges[c].platformFee, funded)

\* What releasePayout will pay out of a challenge is exactly the pool it
\* subtracts from the totals.
PrizesMatchPool ==
  \A c \in ChallengeIds :
    /\ Len(prizeAmounts[c]) = challenges[c].winnerCount
    /\ challenges[c].status = "NONE" <=> challenges[c].winnerCount = 0
    /\ challenges[c].status # "NONE" =>
         /\ challenges[c].prizePool = PrizeTotal(prizeAmounts[c])
         /\ challenges[c].sponsor \in Accounts \ {This}
    /\ Funded(c) => challenges[c].prizePool > 0

\* The contract's books account for exactly what it holds for others: the
\* totals are the sums over the funded challenges, and every prize list is worth
\* its pool, so that no sequence of settlements makes one subtract too much.
BooksBalance == TotalsMatchChallenges /\ PrizesMatchPool

\* A funded challenge is never trapped by the contract's own arithmetic: the
\* checked subtractions and the accounting assertion of a refund succeed.
RefundNeverReverts ==
  \A c \in ChallengeIds : Funded(c) =>
    /\ totalLockedPrizePools >= challenges[c].prizePool
    /\ totalLockedPlatformFees >= challenges[c].platformFee
    /\ balances[This] >= Liability(c)
    /\ AccountingHolds(balances[This],
                       totalLockedPrizePools - challenges[c].prizePool,
                       totalLockedPlatformFees - challenges[c].platformFee)

\* A settled challenge stays settled: its record and its prizes never change,
\* so it can be neither funded, paid nor refunded again.
SettledForever ==
  [][\A c \in ChallengeIds :
       challenges[c].status \in {"PAID", "REFUNDED"} =>
         /\ challenges'[c] = challenges[c]
         /\ prizeAmounts'[c] = prizeAmounts[c]]_vars

-----------------------------------------------------------------------------
\* The contract implements Custody: status is the phase, what a challenge is
\* owed is its liability while it is funded.
PhaseOf(status) ==
  CASE status = "NONE" -> "empty"
    [] status = "FUNDED" -> "held"
    [] status = "PAID" -> "paid"
    [] status = "REFUNDED" -> "refunded"

Ledger == INSTANCE Custody WITH
  Challenges <- ChallengeIds,
  Custodian <- This,
  Nobody <- ZeroAddress,
  phase <- [c \in ChallengeIds |-> PhaseOf(challenges[c].status)],
  depositor <- [c \in ChallengeIds |-> challenges[c].sponsor],
  held <- [c \in ChallengeIds |-> IF Funded(c) THEN Liability(c) ELSE 0],
  bal <- balances

\* Every transaction of the contract is a step of Custody or a stutter.
CustodySpec == Ledger!CustodySpec
=============================================================================
