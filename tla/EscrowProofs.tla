---------------------------- MODULE EscrowProofs ----------------------------
(***************************************************************************)
(* Theorems about CCNEscrow.sol for every set of challenges and accounts,  *)
(* every prize list, every uint width and every initial token balance.     *)
(*                                                                         *)
(* Collateralised alone is not inductive: a payout takes out of the        *)
(* balance the amounts stored in prizeAmounts and out of the totals the    *)
(* stored prizePool, so the invariant needs PrizesMatchPool.               *)
(*                                                                         *)
(* That the totals are sums over the funded challenges is proved without   *)
(* the recursion that computes such a sum: Sums says what it is to be one, *)
(* every transaction is seen to keep one, and FoldsUnique shows that the   *)
(* recursion has no other value.                                           *)
(*                                                                         *)
(* Then come the theorems about Terms.  The part of the contract it models *)
(* is smaller than Escrow: OneContract says that the two agree.            *)
(***************************************************************************)
EXTENDS Escrow, Terms, FiniteSetTheorems, SequenceTheorems, TLAPS

Inv == TypeOK /\ PrizesMatchPool /\ Collateralised

\* The loop of fundChallenge over one or three positive amounts yields a
\* positive natural number.
LEMMA PrizeTotalPositive ==
  ASSUME NEW amounts \in Seq(Nat), Len(amounts) \in {1, 3},
         \A i \in 1..Len(amounts) : amounts[i] > 0
  PROVE  PrizeTotal(amounts) \in Nat /\ PrizeTotal(amounts) > 0
<1>1. CASE Len(amounts) = 1
  BY <1>1 DEF PrizeTotal
<1>2. CASE Len(amounts) = 3
  <2>0. \A i \in 1..Len(amounts) : amounts[i] \in Nat
    OBVIOUS
  <2>1. /\ amounts[1] \in Nat /\ amounts[1] > 0
        /\ amounts[2] \in Nat /\ amounts[2] > 0
        /\ amounts[3] \in Nat /\ amounts[3] > 0
    BY <1>2, <2>0
  <2> QED BY <1>2, <2>1 DEF PrizeTotal
<1> QED BY <1>1, <1>2

\* What an account receives of the prizes is a natural number.
LEMMA PrizeOfNat ==
  ASSUME NEW amounts \in Seq(Nat), NEW winners, NEW a,
         Len(winners) = Len(amounts)
  PROVE  PrizeOf(a, winners, amounts) \in Nat
<1>1. CASE \E i \in 1..Len(winners) : winners[i] = a
  <2> DEFINE k == CHOOSE i \in 1..Len(winners) : winners[i] = a
  <2>1. k \in 1..Len(amounts) BY <1>1
  <2>2. amounts[k] \in Nat BY <2>1
  <2> QED BY <1>1, <2>2 DEF PrizeOf
<1>2. CASE ~ \E i \in 1..Len(winners) : winners[i] = a
  BY <1>2 DEF PrizeOf
<1> QED BY <1>1, <1>2

\* The arithmetic the invariant gives about the totals and the balances.
LEMMA InvFacts ==
  ASSUME Inv
  PROVE  /\ MaxUint \in Nat /\ This \in Accounts
         /\ balances \in [Accounts -> Nat] /\ balances[This] \in Nat
         /\ totalLockedPrizePools \in Nat /\ totalLockedPrizePools <= MaxUint
         /\ totalLockedPlatformFees \in Nat /\ totalLockedPlatformFees <= MaxUint
         /\ balances[This] >= totalLockedPrizePools + totalLockedPlatformFees
<1> USE EscrowConstants DEF EscrowConstants
<1>1. /\ MaxUint \in Nat /\ This \in Accounts
      /\ balances \in [Accounts -> Nat]
  BY DEF Inv, TypeOK
<1>2. /\ totalLockedPrizePools \in 0..MaxUint
      /\ totalLockedPlatformFees \in 0..MaxUint
  BY DEF Inv, TypeOK, Uint
<1>3. balances[This] >= totalLockedPrizePools + totalLockedPlatformFees
  BY DEF Inv, Collateralised
<1> QED BY <1>1, <1>2, <1>3

\* The invariant holds of the deployed contract.
LEMMA InitInv == Init => Inv
<1> SUFFICES ASSUME Init PROVE Inv OBVIOUS
<1> USE EscrowConstants DEF EscrowConstants
<1>1. TypeOK
  <2>1. challenges \in [ChallengeIds -> ChallengeEscrow]
    BY DEF Init, NoChallenge, ChallengeEscrow, Statuses, Uint
  <2>2. roles \in [Roles -> SUBSET Accounts]
    BY DEF Init, Roles
  <2>3. prizeAmounts \in [ChallengeIds -> Seq(Nat)]
    BY DEF Init
  <2>4. totalLockedPrizePools \in Uint /\ totalLockedPlatformFees \in Uint
    BY DEF Init, Uint
  <2>5. balances \in [Accounts -> Nat]
    BY DEF Init
  <2>6. paused \in BOOLEAN
    BY DEF Init
  <2>7. now \in 0..MaxTime
    BY DEF Init
  <2> QED BY <2>1, <2>2, <2>3, <2>4, <2>5, <2>6, <2>7 DEF TypeOK
<1>2. PrizesMatchPool
  BY DEF Init, PrizesMatchPool, NoChallenge, Funded
<1>3. Collateralised
  <2>1. balances[This] \in Nat BY DEF Init
  <2> QED BY <2>1 DEF Init, Collateralised
<1> QED BY <1>1, <1>2, <1>3 DEF Inv

-----------------------------------------------------------------------------
\* fundChallenge stores a well-typed record whose pool is the sum of the
\* stored prizes, and brings in as much as it locks.
LEMMA FundChallengeInv ==
  ASSUME Inv,
         NEW caller \in Accounts \ {This}, NEW c \in ChallengeIds,
         NEW amounts \in PrizeLists, NEW fee \in Fees,
         NEW submission \in 0..MaxTime, NEW review \in 0..MaxTime,
         FundChallenge(caller, c, amounts, fee, submission, review)
  PROVE  Inv'
<1> DEFINE pool == PrizeTotal(amounts)
           record == [sponsor |-> caller, prizePool |-> pool, platformFee |-> fee,
                      submissionDeadline |-> submission, reviewDeadline |-> review,
                      winnerCount |-> SafeWinnerCount(Len(amounts)), status |-> "FUNDED"]
<1>1. pool \in Nat /\ pool > 0
  BY PrizeTotalPositive, EscrowConstants DEF FundChallenge, EscrowConstants
<1>2. fee \in Nat /\ amounts \in Seq(Nat) /\ Len(amounts) \in {1, 3}
  BY EscrowConstants DEF FundChallenge, EscrowConstants
<1>3. /\ challenges' = [challenges EXCEPT ![c] = record]
      /\ prizeAmounts' = [prizeAmounts EXCEPT ![c] = amounts]
      /\ UNCHANGED <<roles, paused, now>>
  BY DEF FundChallenge
<1>b. /\ SafeWinnerCount(Len(amounts)) = Len(amounts)
      /\ Len(amounts) \in {0, 1, 3} /\ Len(amounts) # 0
  <2>1. \A n \in {1, 3} : SafeWinnerCount(n) = n /\ n \in {0, 1, 3} /\ n # 0
    BY DEF SafeWinnerCount
  <2> QED BY <1>2, <2>1, Zenon
<1>a. /\ totalLockedPrizePools' = totalLockedPrizePools + pool
      /\ totalLockedPlatformFees' = totalLockedPlatformFees + fee
      /\ totalLockedPrizePools' <= MaxUint /\ totalLockedPlatformFees' <= MaxUint
      /\ pool + fee <= MaxUint
      /\ balances[caller] >= pool + fee
      /\ balances' = [balances EXCEPT ![caller] = @ - (pool + fee),
                                      ![This] = @ + (pool + fee)]
  BY DEF FundChallenge, Fundable, AdditionsFit
<1> HIDE DEF pool
<1>4. record \in ChallengeEscrow
  <2>1. pool \in Uint /\ fee \in Uint
    BY <1>1, <1>2, <1>a, InvFacts DEF Uint
  <2> QED BY <1>2, <1>b, <2>1 DEF ChallengeEscrow, Statuses
<1>5. TypeOK'
  <2>1. challenges' \in [ChallengeIds -> ChallengeEscrow]
    BY <1>3, <1>4 DEF Inv, TypeOK
  <2>2. prizeAmounts' \in [ChallengeIds -> Seq(Nat)]
    BY <1>2, <1>3 DEF Inv, TypeOK
  <2>3. totalLockedPrizePools' \in Uint /\ totalLockedPlatformFees' \in Uint
    BY <1>1, <1>2, <1>a, InvFacts DEF Uint
  <2>4. balances' \in [Accounts -> Nat]
    <3>1. /\ pool + fee \in Nat /\ balances[caller] \in Nat
          /\ balances[This] + (pool + fee) \in Nat
          /\ balances[caller] - (pool + fee) \in Nat
      BY <1>1, <1>2, <1>a, InvFacts
    <3> QED BY <3>1, <1>a, InvFacts
  <2>5. roles' \in [Roles -> SUBSET Accounts] /\ paused' \in BOOLEAN /\ now' \in 0..MaxTime
    BY <1>3 DEF Inv, TypeOK
  <2> QED BY <2>1, <2>2, <2>3, <2>4, <2>5 DEF TypeOK
<1>6. PrizesMatchPool'
  <2> SUFFICES ASSUME NEW d \in ChallengeIds
               PROVE  PrizesMatchPool!(d)'
    BY DEF PrizesMatchPool
  <2>1. CASE d = c
    <3>1. challenges'[c] = record /\ prizeAmounts'[c] = amounts
      BY <1>3 DEF Inv, TypeOK
    <3>2. /\ challenges'[c].winnerCount = Len(amounts)
          /\ challenges'[c].status = "FUNDED"
          /\ challenges'[c].prizePool = pool
          /\ challenges'[c].sponsor = caller
      BY <3>1, <1>b
    <3>3. pool = PrizeTotal(prizeAmounts'[c])
      BY <3>1 DEF pool
    <3>4. Len(amounts) # 0
      BY <1>b
    <3> QED BY <2>1, <3>1, <3>2, <3>3, <3>4, <1>1 DEF Funded
  <2>2. CASE d # c
    BY <2>2, <1>3 DEF Inv, TypeOK, PrizesMatchPool, Funded
  <2> QED BY <2>1, <2>2
<1>7. Collateralised'
  <2>1. caller # This OBVIOUS
  <2>2. balances'[This] = balances[This] + (pool + fee)
    BY <2>1, <1>1, <1>2, <1>a, InvFacts
  <2>3. /\ balances[This] \in Nat /\ totalLockedPrizePools \in Nat
        /\ totalLockedPlatformFees \in Nat
        /\ balances[This] >= totalLockedPrizePools + totalLockedPlatformFees
    BY InvFacts
  <2>4. balances'[This] >= totalLockedPrizePools' + totalLockedPlatformFees'
    BY <2>2, <2>3, <1>1, <1>2, <1>a
  <2> QED BY <2>4 DEF Collateralised
<1> QED BY <1>5, <1>6, <1>7 DEF Inv

\* Taking a funded challenge out of the totals keeps the types, the record
\* of its prizes, and a balance that covers the totals plus its liability.
LEMMA UnlockKeeps ==
  ASSUME Inv, NEW c \in ChallengeIds, Funded(c),
         NEW status \in {"PAID", "REFUNDED"}, Unlock(c, status),
         UNCHANGED prizeAmounts
  PROVE  /\ challenges' \in [ChallengeIds -> ChallengeEscrow]
         /\ totalLockedPrizePools' \in Uint /\ totalLockedPlatformFees' \in Uint
         /\ PrizesMatchPool'
         /\ Liability(c) \in Nat
         /\ balances[This] - Liability(c)
              >= totalLockedPrizePools' + totalLockedPlatformFees'
<1>1. challenges' = [challenges EXCEPT ![c].status = status]
  BY DEF Unlock
<1>a. /\ totalLockedPrizePools >= challenges[c].prizePool
      /\ totalLockedPlatformFees >= challenges[c].platformFee
      /\ totalLockedPrizePools' = totalLockedPrizePools - challenges[c].prizePool
      /\ totalLockedPlatformFees' = totalLockedPlatformFees - challenges[c].platformFee
  BY DEF Unlock
<1>2. challenges[c] \in ChallengeEscrow
  BY DEF Inv, TypeOK
<1>3. challenges' \in [ChallengeIds -> ChallengeEscrow]
  BY <1>1, <1>2 DEF Inv, TypeOK, ChallengeEscrow, Statuses
<1>4. challenges[c].prizePool \in Uint /\ challenges[c].platformFee \in Uint
  BY <1>2 DEF ChallengeEscrow
<1>5. totalLockedPrizePools' \in Uint /\ totalLockedPlatformFees' \in Uint
  BY <1>a, <1>4, InvFacts DEF Uint
<1>6. PrizesMatchPool'
  <2> SUFFICES ASSUME NEW d \in ChallengeIds
               PROVE  PrizesMatchPool!(d)'
    BY DEF PrizesMatchPool
  <2>1. CASE d = c
    BY <2>1, <1>1, <1>2 DEF Inv, TypeOK, PrizesMatchPool, Funded, ChallengeEscrow
  <2>2. CASE d # c
    BY <2>2, <1>1 DEF Inv, TypeOK, PrizesMatchPool, Funded
  <2> QED BY <2>1, <2>2
<1>7. Liability(c) \in Nat
  BY <1>4 DEF Liability, Uint
<1>8. balances[This] - Liability(c)
        >= totalLockedPrizePools' + totalLockedPlatformFees'
  BY <1>a, <1>4, InvFacts DEF Liability, Uint
<1> QED BY <1>3, <1>5, <1>6, <1>7, <1>8

\* releasePayout: no account but the contract loses tokens, and the contract
\* loses no more than the liability it has just unlocked.
LEMMA PayoutBalances ==
  ASSUME Inv, NEW caller, NEW c \in ChallengeIds, NEW winners,
         ReleasePayout(caller, c, winners)
  PROVE  /\ balances' \in [Accounts -> Nat]
         /\ \A a \in Accounts \ {This} : balances'[a] >= balances[a]
         /\ balances'[This] >= balances[This] - Liability(c)
<1> DEFINE prize(a) == PrizeOf(a, winners, prizeAmounts[c])
           fee == challenges[c].platformFee
<1>1. balances' = [a \in Accounts |->
        balances[a] + prize(a) + (IF a = Treasury THEN fee ELSE 0)
          - (IF a = This THEN Liability(c) ELSE 0)]
  <2>1. Liability(c) = PrizeTotal(prizeAmounts[c]) + fee
    BY DEF ReleasePayout, Settleable, Inv, PrizesMatchPool, Liability
  <2> QED BY <2>1 DEF ReleasePayout
<1>2. prizeAmounts[c] \in Seq(Nat) /\ Len(winners) = Len(prizeAmounts[c])
  BY DEF ReleasePayout, Inv, TypeOK
<1>3. \A a : prize(a) \in Nat
  BY <1>2, PrizeOfNat
<1>4. challenges[c].prizePool \in Nat /\ fee \in Nat
  BY DEF Inv, TypeOK, ChallengeEscrow, Uint
<1>5. Liability(c) \in Nat
  BY <1>4 DEF Liability
<1>6. balances'[This] >= 0
  BY DEF ReleasePayout
<1> HIDE DEF prize, fee
<1>7. ASSUME NEW a \in Accounts \ {This}
      PROVE  balances'[a] \in Nat /\ balances'[a] >= balances[a]
  BY <1>1, <1>3, <1>4, <1>7, InvFacts
<1>8. /\ balances'[This] \in Nat
      /\ balances'[This] >= balances[This] - Liability(c)
  BY <1>1, <1>3, <1>4, <1>5, <1>6, InvFacts
<1>9. balances' \in [Accounts -> Nat]
  BY <1>1, <1>7, <1>8
<1> QED BY <1>7, <1>8, <1>9

\* releasePayout pays prizes and fee out of what the challenge was funded with.
LEMMA ReleasePayoutInv ==
  ASSUME Inv, NEW caller, NEW c \in ChallengeIds, NEW winners,
         ReleasePayout(caller, c, winners)
  PROVE  Inv'
<1>1. /\ balances' \in [Accounts -> Nat]
      /\ balances'[This] >= balances[This] - Liability(c)
  BY PayoutBalances
<1>2. Funded(c) /\ Unlock(c, "PAID") /\ UNCHANGED <<prizeAmounts, roles, paused, now>>
  BY DEF ReleasePayout, Settleable, Funded
<1>3. /\ challenges' \in [ChallengeIds -> ChallengeEscrow]
      /\ totalLockedPrizePools' \in Uint /\ totalLockedPlatformFees' \in Uint
      /\ PrizesMatchPool'
      /\ Liability(c) \in Nat
      /\ balances[This] - Liability(c)
           >= totalLockedPrizePools' + totalLockedPlatformFees'
  BY <1>2, UnlockKeeps
<1>4. TypeOK'
  BY <1>1, <1>2, <1>3 DEF Inv, TypeOK
<1>5. Collateralised'
  <2>1. /\ totalLockedPrizePools' \in Nat /\ totalLockedPlatformFees' \in Nat
        /\ balances'[This] \in Nat
    BY <1>1, <1>3, InvFacts DEF Uint
  <2> QED BY <1>1, <1>3, <2>1, InvFacts DEF Collateralised
<1> QED BY <1>3, <1>4, <1>5 DEF Inv

\* cancelAndRefund pays back exactly what the challenge was funded with.
LEMMA CancelAndRefundInv ==
  ASSUME Inv, NEW caller, NEW c \in ChallengeIds, CancelAndRefund(caller, c)
  PROVE  Inv'
<1>1. /\ Funded(c) /\ Unlock(c, "REFUNDED")
      /\ UNCHANGED <<prizeAmounts, roles, paused, now>>
      /\ balances[This] >= Liability(c)
      /\ balances' = [balances EXCEPT ![This] = @ - Liability(c),
                                      ![challenges[c].sponsor] = @ + Liability(c)]
  BY DEF CancelAndRefund, Settleable, RefundTo, Funded
<1>2. /\ challenges' \in [ChallengeIds -> ChallengeEscrow]
      /\ totalLockedPrizePools' \in Uint /\ totalLockedPlatformFees' \in Uint
      /\ PrizesMatchPool'
      /\ Liability(c) \in Nat
      /\ balances[This] - Liability(c)
           >= totalLockedPrizePools' + totalLockedPlatformFees'
  BY <1>1, UnlockKeeps
<1>3. challenges[c].sponsor \in Accounts \ {This}
  BY <1>1 DEF Inv, PrizesMatchPool, Funded
<1>4. /\ balances' \in [Accounts -> Nat]
      /\ balances'[This] = balances[This] - Liability(c)
  BY <1>1, <1>2, <1>3, InvFacts
<1>5. TypeOK'
  BY <1>1, <1>2, <1>4 DEF Inv, TypeOK
<1>6. Collateralised'
  BY <1>2, <1>4 DEF Collateralised
<1> QED BY <1>2, <1>5, <1>6 DEF Inv

\* A token transfer that is not the contract's cannot lower its balance.
LEMMA TransferInv ==
  ASSUME Inv, NEW from \in Accounts, NEW to \in Accounts, NEW amount \in Amounts,
         Transfer(from, to, amount)
  PROVE  /\ Inv'
         /\ balances' \in [Accounts -> Nat] /\ balances'[This] >= balances[This]
<1>1. amount \in Nat BY EscrowConstants DEF EscrowConstants
<1>2. balances' \in [Accounts -> Nat] /\ balances'[This] >= balances[This]
  BY <1>1, InvFacts DEF Transfer
<1>3. TypeOK' /\ PrizesMatchPool'
  BY <1>2 DEF Transfer, Inv, TypeOK, PrizesMatchPool, Funded
<1>4. Collateralised'
  BY <1>2, InvFacts DEF Transfer, Collateralised
<1> QED BY <1>2, <1>3, <1>4 DEF Inv

\* Pausing, role administration and time leave the money alone.
LEMMA AdministrationInv ==
  ASSUME Inv,
         \/ \E caller \in Accounts \ {This} : Pause(caller) \/ Unpause(caller)
         \/ \E caller \in Accounts \ {This}, r \in Roles, a \in Appointees :
              GrantRole(caller, r, a) \/ RevokeRole(caller, r, a)
         \/ Tick
         \/ UNCHANGED vars
  PROVE  /\ Inv'
         /\ UNCHANGED <<challenges, prizeAmounts, totalLockedPrizePools,
                        totalLockedPlatformFees, balances>>
<1>1. UNCHANGED <<challenges, prizeAmounts, totalLockedPrizePools,
                  totalLockedPlatformFees, balances>>
  BY DEF Pause, Unpause, GrantRole, RevokeRole, Tick, vars
<1>2. roles' \in [Roles -> SUBSET Accounts] /\ paused' \in BOOLEAN /\ now' \in 0..MaxTime
  <2>1. CASE \E caller \in Accounts \ {This} : Pause(caller) \/ Unpause(caller)
    BY <2>1 DEF Pause, Unpause, Inv, TypeOK
  <2>2. CASE \E caller \in Accounts \ {This}, r \in Roles, a \in Appointees :
               GrantRole(caller, r, a) \/ RevokeRole(caller, r, a)
    <3> PICK r \in Roles, a \in Appointees :
          /\ roles' \in {[roles EXCEPT ![r] = @ \cup {a}], [roles EXCEPT ![r] = @ \ {a}]}
          /\ UNCHANGED <<paused, now>>
      BY <2>2 DEF GrantRole, RevokeRole
    <3>1. a \in Accounts
      BY EscrowConstants DEF EscrowConstants
    <3>2. roles \in [Roles -> SUBSET Accounts] /\ paused \in BOOLEAN /\ now \in 0..MaxTime
      BY DEF Inv, TypeOK
    <3>3. roles' \in [Roles -> SUBSET Accounts]
      BY <3>1, <3>2
    <3> QED BY <3>2, <3>3
  <2>3. CASE Tick
    BY <2>3, EscrowConstants DEF Tick, Inv, TypeOK, EscrowConstants
  <2>4. CASE UNCHANGED vars
    BY <2>4 DEF vars, Inv, TypeOK
  <2> QED BY <2>1, <2>2, <2>3, <2>4
<1>3. TypeOK' /\ PrizesMatchPool' /\ Collateralised'
  BY <1>1, <1>2 DEF Inv, TypeOK, PrizesMatchPool, Collateralised, Funded
<1> QED BY <1>1, <1>3 DEF Inv

\* Every transaction keeps the invariant.
LEMMA NextInv == Inv /\ [Next]_vars => Inv'
<1> SUFFICES ASSUME Inv, [Next]_vars PROVE Inv' OBVIOUS
<1>1. ASSUME NEW caller \in Accounts \ {This}, NEW c \in ChallengeIds,
             NEW amounts \in PrizeLists, NEW fee \in Fees,
             NEW submission \in 0..MaxTime, NEW review \in 0..MaxTime,
             FundChallenge(caller, c, amounts, fee, submission, review)
      PROVE  Inv'
  BY <1>1, FundChallengeInv
<1>2. ASSUME NEW caller \in Accounts \ {This}, NEW c \in ChallengeIds,
             NEW winners \in WinnerLists, ReleasePayout(caller, c, winners)
      PROVE  Inv'
  BY <1>2, ReleasePayoutInv
<1>3. ASSUME NEW caller \in Accounts \ {This}, NEW c \in ChallengeIds,
             CancelAndRefund(caller, c)
      PROVE  Inv'
  BY <1>3, CancelAndRefundInv
<1>4. ASSUME NEW from \in Accounts, NEW to \in Accounts, NEW amount \in Amounts,
             Transfer(from, to, amount)
      PROVE  Inv'
  BY <1>4, TransferInv
<1>5. ASSUME \/ \E caller \in Accounts \ {This} : Pause(caller) \/ Unpause(caller)
             \/ \E caller \in Accounts \ {This}, r \in Roles, a \in Appointees :
                  GrantRole(caller, r, a) \/ RevokeRole(caller, r, a)
             \/ Tick
             \/ UNCHANGED vars
      PROVE  Inv'
  BY <1>5, AdministrationInv
<1> QED BY <1>1, <1>2, <1>3, <1>4, <1>5 DEF Next

\* Every reachable state is well-typed, its stored prizes add up to the
\* stored pool, and the contract's balance covers its recorded liabilities.
THEOREM EscrowInvariant == Spec => [](TypeOK /\ PrizesMatchPool /\ Collateralised)
<1>1. Inv => TypeOK /\ PrizesMatchPool /\ Collateralised
  BY DEF Inv
<1> QED BY InitInv, NextInv, <1>1, PTL DEF Spec

\* A challenge that was paid or refunded keeps its record for ever: it can be
\* neither funded, paid nor refunded again.
THEOREM SettledForeverHolds == Spec => SettledForever
<1> DEFINE Kept(c) == challenges'[c] = challenges[c] /\ prizeAmounts'[c] = prizeAmounts[c]
<1>1. ASSUME Inv, [Next]_vars, NEW c \in ChallengeIds,
             challenges[c].status \in {"PAID", "REFUNDED"}
      PROVE  Kept(c)
  <2>1. ASSUME NEW d \in ChallengeIds, NEW caller, NEW amounts, NEW fee,
               NEW submission, NEW review,
               FundChallenge(caller, d, amounts, fee, submission, review)
        PROVE  Kept(c)
    <3>1. d # c
      BY <1>1, <2>1 DEF FundChallenge, Fundable
    <3>2. /\ challenges'[c] = challenges[c]
          /\ prizeAmounts'[c] = prizeAmounts[c]
      BY <3>1, <2>1, <1>1 DEF FundChallenge, Inv, TypeOK
    <3> QED BY <3>2
  <2>2. ASSUME NEW d \in ChallengeIds, NEW status, Unlock(d, status), Funded(d),
               UNCHANGED prizeAmounts
        PROVE  Kept(c)
    <3>1. d # c
      BY <1>1, <2>2 DEF Funded
    <3> QED BY <3>1, <2>2, <1>1 DEF Unlock, Inv, TypeOK
  <2>3. ASSUME NEW d \in ChallengeIds, NEW caller,
               (\E winners : ReleasePayout(caller, d, winners)) \/ CancelAndRefund(caller, d)
        PROVE  Kept(c)
    BY <2>2, <2>3 DEF ReleasePayout, CancelAndRefund, Settleable, RefundTo, Funded
  <2>4. CASE UNCHANGED <<challenges, prizeAmounts>>
    BY <2>4
  <2> QED BY <1>1, <2>1, <2>3, <2>4
          DEF Next, vars, Pause, Unpause, GrantRole, RevokeRole, Transfer, Tick
<1>2. Inv /\ [Next]_vars =>
        [\A c \in ChallengeIds :
           challenges[c].status \in {"PAID", "REFUNDED"} =>
             /\ challenges'[c] = challenges[c]
             /\ prizeAmounts'[c] = prizeAmounts[c]]_vars
  BY <1>1
<1> QED BY InitInv, NextInv, <1>2, PTL DEF Spec, SettledForever

-----------------------------------------------------------------------------
\* How each step of the contract looks to Custody.
LEMMA RefinesDeposit ==
  ASSUME Inv, NEW caller \in Accounts \ {This}, NEW c \in ChallengeIds,
         NEW amounts \in PrizeLists, NEW fee \in Fees, NEW submission, NEW review,
         FundChallenge(caller, c, amounts, fee, submission, review)
  PROVE  Ledger!Deposit(c, caller)
<1> DEFINE pool == PrizeTotal(amounts)
           amount == pool + fee
<1>1. pool \in Nat /\ pool > 0 /\ fee \in Nat
  BY PrizeTotalPositive, EscrowConstants DEF FundChallenge, EscrowConstants
<1>2. /\ challenges[c].status = "NONE"
      /\ balances[caller] >= pool + fee
      /\ balances' = [balances EXCEPT ![caller] = @ - (pool + fee),
                                      ![This] = @ + (pool + fee)]
  BY DEF FundChallenge, Fundable, AdditionsFit
<1>3. /\ challenges'[c].sponsor = caller /\ challenges'[c].status = "FUNDED"
      /\ challenges'[c].prizePool = pool /\ challenges'[c].platformFee = fee
      /\ \A d \in ChallengeIds \ {c} : challenges'[d] = challenges[d]
  BY DEF FundChallenge, Inv, TypeOK
<1> HIDE DEF pool
<1>4. amount \in 1..balances[caller]
  BY <1>1, <1>2, InvFacts
<1>5. \A d \in ChallengeIds :
        /\ PhaseOf(challenges'[d].status)
             = IF d = c THEN "held" ELSE PhaseOf(challenges[d].status)
        /\ challenges'[d].sponsor = IF d = c THEN caller ELSE challenges[d].sponsor
        /\ (IF Funded(d)' THEN Liability(d)' ELSE 0)
             = IF d = c THEN amount ELSE IF Funded(d) THEN Liability(d) ELSE 0
  <2> SUFFICES ASSUME NEW d \in ChallengeIds PROVE <1>5!(d)
    OBVIOUS
  <2>1. CASE d = c
    BY <2>1, <1>3 DEF PhaseOf, Funded, Liability
  <2>2. CASE d # c
    <3>1. challenges'[d] = challenges[d]
      BY <2>2, <1>3
    <3> QED BY <2>2, <3>1 DEF Funded, Liability
  <2> QED BY <2>1, <2>2
<1>6. PhaseOf(challenges[c].status) = "empty"
  BY <1>2 DEF PhaseOf
<1> QED BY <1>2, <1>4, <1>5, <1>6 DEF Ledger!Deposit

\* What a settlement does to the mapped phase, depositor and held amount.
LEMMA RefinesUnlock ==
  ASSUME Inv, NEW c \in ChallengeIds, Funded(c),
         NEW status \in {"PAID", "REFUNDED"}, Unlock(c, status)
  PROVE  /\ PhaseOf(challenges[c].status) = "held"
         /\ \A d \in ChallengeIds :
              /\ PhaseOf(challenges'[d].status)
                   = IF d = c THEN PhaseOf(status) ELSE PhaseOf(challenges[d].status)
              /\ challenges'[d].sponsor = challenges[d].sponsor
              /\ (IF Funded(d)' THEN Liability(d)' ELSE 0)
                   = IF d = c THEN 0 ELSE IF Funded(d) THEN Liability(d) ELSE 0
<1>1. /\ challenges'[c].status = status
      /\ challenges'[c].sponsor = challenges[c].sponsor
      /\ \A d \in ChallengeIds \ {c} : challenges'[d] = challenges[d]
  BY DEF Unlock, Inv, TypeOK, ChallengeEscrow
<1>2. PhaseOf(challenges[c].status) = "held"
  BY DEF PhaseOf, Funded
<1> QED BY <1>1, <1>2 DEF Funded, Liability

\* releasePayout lets one deposit leave.
LEMMA RefinesDistribute ==
  ASSUME Inv, NEW caller, NEW c \in ChallengeIds, NEW winners,
         ReleasePayout(caller, c, winners)
  PROVE  Ledger!Distribute(c)
<1>1. Funded(c) /\ Unlock(c, "PAID")
  BY DEF ReleasePayout, Settleable, Funded
<1>2. PhaseOf("PAID") = "paid"
  BY DEF PhaseOf
<1> QED BY <1>1, <1>2, RefinesUnlock, PayoutBalances DEF Ledger!Distribute

\* cancelAndRefund returns one deposit to its sponsor.
LEMMA RefinesReturn ==
  ASSUME Inv, NEW caller, NEW c \in ChallengeIds, CancelAndRefund(caller, c)
  PROVE  Ledger!Return(c)
<1>1. /\ Funded(c) /\ Unlock(c, "REFUNDED")
      /\ balances[This] >= Liability(c)
      /\ balances' = [balances EXCEPT ![This] = @ - Liability(c),
                                      ![challenges[c].sponsor] = @ + Liability(c)]
  BY DEF CancelAndRefund, Settleable, RefundTo, Funded
<1>2. PhaseOf("REFUNDED") = "refunded"
  BY DEF PhaseOf
<1> QED BY <1>1, <1>2, RefinesUnlock DEF Ledger!Return

\* The contract implements Custody: a deposit is taken at most once, and let
\* go at most once, in full to its sponsor or within its own amount.
THEOREM ImplementsCustody == Spec => CustodySpec
<1>1. Init => Ledger!CustodyInit
  <2> SUFFICES ASSUME Init PROVE Ledger!CustodyInit OBVIOUS
  <2>1. balances \in [Accounts -> Nat]
    BY InitInv DEF Inv, TypeOK
  <2>2. \A c \in ChallengeIds :
          /\ PhaseOf(challenges[c].status) = "empty"
          /\ challenges[c].sponsor = ZeroAddress
          /\ ~Funded(c)
    BY DEF Init, NoChallenge, PhaseOf, Funded
  <2> QED BY <2>1, <2>2 DEF Ledger!CustodyInit
<1>2. ASSUME Inv, [Next]_vars
      PROVE  [Ledger!CustodyNext]_(Ledger!custodyVars)
  <2>1. ASSUME NEW caller \in Accounts \ {This}, NEW c \in ChallengeIds,
               NEW amounts \in PrizeLists, NEW fee \in Fees, NEW submission, NEW review,
               FundChallenge(caller, c, amounts, fee, submission, review)
        PROVE  Ledger!CustodyNext
    BY <1>2, <2>1, RefinesDeposit DEF Ledger!CustodyNext
  <2>2. ASSUME NEW caller, NEW c \in ChallengeIds, NEW winners,
               ReleasePayout(caller, c, winners)
        PROVE  Ledger!CustodyNext
    BY <1>2, <2>2, RefinesDistribute DEF Ledger!CustodyNext
  <2>3. ASSUME NEW caller, NEW c \in ChallengeIds, CancelAndRefund(caller, c)
        PROVE  Ledger!CustodyNext
    BY <1>2, <2>3, RefinesReturn DEF Ledger!CustodyNext
  <2>4. ASSUME NEW from \in Accounts, NEW to \in Accounts, NEW amount \in Amounts,
               Transfer(from, to, amount)
        PROVE  Ledger!CustodyNext
    <3>1. balances' \in [Accounts -> Nat] /\ balances'[This] >= balances[This]
      BY <1>2, <2>4, TransferInv
    <3>2. UNCHANGED challenges
      BY <2>4 DEF Transfer
    <3> QED BY <3>1, <3>2 DEF Ledger!CustodyNext, Ledger!Elsewhere, Funded, Liability
  <2>5. CASE \/ \E caller \in Accounts \ {This} : Pause(caller) \/ Unpause(caller)
             \/ \E caller \in Accounts \ {This}, r \in Roles, a \in Appointees :
                  GrantRole(caller, r, a) \/ RevokeRole(caller, r, a)
             \/ Tick
             \/ UNCHANGED vars
    <3>1. UNCHANGED <<challenges, balances>>
      BY <1>2, <2>5, AdministrationInv
    <3> QED BY <3>1 DEF Ledger!custodyVars, Funded, Liability
  <2> QED BY <1>2, <2>1, <2>2, <2>3, <2>4, <2>5 DEF Next
<1> QED BY InitInv, NextInv, <1>1, <1>2, PTL DEF Spec, CustodySpec, Ledger!CustodySpec

-----------------------------------------------------------------------------
\* The locked totals are sums over the funded challenges.
FundedSet == {c \in ChallengeIds : Funded(c)}
Pools == [c \in ChallengeIds |-> challenges[c].prizePool]
PlatformFees == [c \in ChallengeIds |-> challenges[c].platformFee]

\* f gives the sum of w over every part of F.  It need not be computed: the
\* contract's running totals are the value of such an f.
Sums(f, F, w) ==
  /\ f \in [SUBSET F -> Nat]
  /\ f[{}] = 0
  /\ \A c \in F : w[c] \in Nat
  /\ \A S \in SUBSET F : \A c \in F \ S : f[S \cup {c}] = f[S] + w[c]

\* One element may be taken out of a sum.
LEMMA SumsOne ==
  ASSUME NEW F, NEW w, NEW f, Sums(f, F, w), NEW S \in SUBSET F, NEW c \in S
  PROVE  f[S] = w[c] + f[S \ {c}]
<1>1. (S \ {c}) \cup {c} = S /\ S \ {c} \in SUBSET F /\ c \in F \ (S \ {c})
  OBVIOUS
<1>2. f[S] = f[S \ {c}] + w[c]
  BY <1>1, Zenon DEF Sums
<1>3. f[S \ {c}] \in Nat /\ w[c] \in Nat
  BY <1>1 DEF Sums
<1> QED BY <1>2, <1>3

\* n is the sum of w over F.
IsTotal(n, w, F) == \E f : Sums(f, F, w) /\ f[F] = n

\* A sum with one element more.
LEMMA SumsAdd ==
  ASSUME NEW F, NEW w, NEW f, Sums(f, F, w), NEW c, c \notin F, NEW v, v[c] \in Nat,
         \A d \in F : v[d] = w[d]
  PROVE  IsTotal(f[F] + v[c], v, F \cup {c})
<1> DEFINE g == [S \in SUBSET (F \cup {c}) |-> f[S \ {c}] + (IF c \in S THEN v[c] ELSE 0)]
<1>1. \A S \in SUBSET (F \cup {c}) : S \ {c} \in SUBSET F /\ f[S \ {c}] \in Nat
  BY DEF Sums
<1>2. g \in [SUBSET (F \cup {c}) -> Nat]
  <2>1. ASSUME NEW S \in SUBSET (F \cup {c})
        PROVE  f[S \ {c}] + (IF c \in S THEN v[c] ELSE 0) \in Nat
    BY <1>1
  <2> QED BY <2>1
<1>3. g[{}] = 0
  <2>1. {} \ {c} = {} /\ f[{}] = 0
    BY DEF Sums
  <2> QED BY <2>1
<1>4. ASSUME NEW S \in SUBSET (F \cup {c}), NEW d \in (F \cup {c}) \ S
      PROVE  g[S \cup {d}] = g[S] + v[d]
  <2>1. CASE d = c
    <3>1. (S \cup {d}) \ {c} = S \ {c} /\ c \in S \cup {d} /\ c \notin S
      BY <2>1
    <3>2. g[S \cup {d}] = f[S \ {c}] + v[c] /\ g[S] = f[S \ {c}] + 0
      BY <3>1, <1>4
    <3>3. f[S \ {c}] \in Nat
      BY <1>1
    <3> HIDE DEF g
    <3> QED BY <2>1, <3>2, <3>3
  <2>2. CASE d # c
    <3>1. /\ (S \cup {d}) \ {c} = (S \ {c}) \cup {d} /\ (c \in S \cup {d} <=> c \in S)
          /\ S \ {c} \in SUBSET F /\ d \in F \ (S \ {c})
      BY <2>2
    <3>2. f[(S \ {c}) \cup {d}] = f[S \ {c}] + w[d]
      BY <3>1, Zenon DEF Sums
    <3>3. w[d] = v[d] /\ w[d] \in Nat /\ f[S \ {c}] \in Nat
      BY <3>1, <1>1 DEF Sums
    <3>4. PICK e \in Nat : e = IF c \in S THEN v[c] ELSE 0
      OBVIOUS
    <3>5. g[S \cup {d}] = f[(S \ {c}) \cup {d}] + e /\ g[S] = f[S \ {c}] + e
      BY <3>1, <3>4
    <3> HIDE DEF g
    <3> QED BY <3>2, <3>3, <3>5
  <2> QED BY <2>1, <2>2
<1>5. g[F \cup {c}] = f[F] + v[c]
  <2>1. (F \cup {c}) \ {c} = F
    OBVIOUS
  <2> QED BY <2>1
<1> HIDE DEF g
<1>6. Sums(g, F \cup {c}, v)
  BY <1>2, <1>3, <1>4 DEF Sums
<1> QED BY <1>5, <1>6 DEF IsTotal

\* The recursion behind MapThenSumSet, as an equation.
Folds(f, F, w) ==
  f = [s \in SUBSET F |->
         IF s = {} THEN 0
         ELSE w[CHOOSE x \in s : TRUE] + f[s \ {CHOOSE x \in s : TRUE}]]

\* The sums solve it.
LEMMA SumsFolds ==
  ASSUME NEW F, NEW w, NEW f, Sums(f, F, w)
  PROVE  Folds(f, F, w)
<1>1. ASSUME NEW s \in SUBSET F, s # {}
      PROVE  f[s] = w[CHOOSE x \in s : TRUE] + f[s \ {CHOOSE x \in s : TRUE}]
  <2> DEFINE c == CHOOSE x \in s : TRUE
  <2>1. c \in s
    BY <1>1, Zenon
  <2> HIDE DEF c
  <2>2. f[s] = w[c] + f[s \ {c}]
    BY <2>1, SumsOne
  <2> QED BY <2>2 DEF c
<1>2. f \in [SUBSET F -> Nat] /\ f[{}] = 0
  BY DEF Sums
<1> QED BY <1>1, <1>2 DEF Folds

\* Nothing else does: a smallest part on which two solutions differ is neither
\* empty nor can it lose an element.
LEMMA FoldsUnique ==
  ASSUME NEW F, IsFiniteSet(F), NEW w, NEW f, Folds(f, F, w), NEW g, Folds(g, F, w)
  PROVE  f = g
<1> DEFINE T == {s \in SUBSET F : f[s] # g[s]}
<1>1. T = {}
  <2> SUFFICES ASSUME T # {} PROVE FALSE
    OBVIOUS
  <2>1. IsWellFoundedOn(StrictSubsetOrdering(F), SUBSET F)
    BY FS_StrictSubsetOrderingWellFounded, FS_FiniteSubsetsOfFinite
  <2>2. PICK s \in T : \A t \in T : <<t, s>> \notin StrictSubsetOrdering(F)
    <3> HIDE DEF T
    <3>1. T \subseteq SUBSET F
      BY DEF T
    <3> QED BY <2>1, <3>1, WFMin
  <2>3. CASE s = {}
    BY <2>3 DEF Folds
  <2>4. CASE s # {}
    <3> DEFINE c == CHOOSE x \in s : TRUE
    <3>1. c \in s
      BY <2>4
    <3>2. f[s] = w[c] + f[s \ {c}] /\ g[s] = w[c] + g[s \ {c}]
      BY <2>4 DEF Folds
    <3>3. s \ {c} \in SUBSET F /\ s \ {c} \subseteq s /\ s \ {c} # s
      BY <3>1
    <3>4. s \ {c} \in T
      BY <3>2, <3>3
    <3>5. <<s \ {c}, s>> \in StrictSubsetOrdering(F)
      BY <3>3 DEF StrictSubsetOrdering
    <3> QED BY <2>2, <3>4, <3>5
  <2> QED BY <2>3, <2>4
<1>2. f = [s \in SUBSET F |-> f[s]] /\ g = [s \in SUBSET F |-> g[s]]
  BY DEF Folds
<1>3. \A s \in SUBSET F : f[s] = g[s]
  BY <1>1
<1> QED BY <1>2, <1>3, Zenon

\* MapThenSumSet computes the sum.
LEMMA PoolsAreSummed ==
  ASSUME NEW F \in SUBSET ChallengeIds, IsFiniteSet(F), NEW f, Sums(f, F, Pools)
  PROVE  MapThenSumSet(LAMBDA c : challenges[c].prizePool, F) = f[F]
<1> DEFINE Solves(g) ==
      g = [s \in SUBSET F |->
             IF s = {} THEN 0
             ELSE challenges[CHOOSE x \in s : TRUE].prizePool + g[s \ {CHOOSE x \in s : TRUE}]]
<1>1. MapThenSumSet(LAMBDA c : challenges[c].prizePool, F) = (CHOOSE g : Solves(g))[F]
  BY Zenon DEF MapThenSumSet, MapThenFoldSet
<1>2. \A s \in SUBSET F : s # {} =>
        Pools[CHOOSE x \in s : TRUE] = challenges[CHOOSE x \in s : TRUE].prizePool
  <2> SUFFICES ASSUME NEW s \in SUBSET F, s # {}
               PROVE  Pools[CHOOSE x \in s : TRUE] = challenges[CHOOSE x \in s : TRUE].prizePool
    OBVIOUS
  <2>1. (CHOOSE x \in s : TRUE) \in s
    BY Zenon
  <2> QED BY <2>1 DEF Pools
<1>3. \A g : Solves(g) <=> Folds(g, F, Pools)
  BY <1>2 DEF Folds
<1>4. Solves(f) /\ \A g : Solves(g) => g = f
  BY <1>3, SumsFolds, FoldsUnique
<1> HIDE DEF Solves
<1>5. (CHOOSE g : Solves(g)) = f
  BY <1>4, Zenon
<1> QED BY <1>1, <1>5

\* The same of the platform fees.
LEMMA FeesAreSummed ==
  ASSUME NEW F \in SUBSET ChallengeIds, IsFiniteSet(F), NEW f, Sums(f, F, PlatformFees)
  PROVE  MapThenSumSet(LAMBDA c : challenges[c].platformFee, F) = f[F]
<1> DEFINE Solves(g) ==
      g = [s \in SUBSET F |->
             IF s = {} THEN 0
             ELSE challenges[CHOOSE x \in s : TRUE].platformFee + g[s \ {CHOOSE x \in s : TRUE}]]
<1>1. MapThenSumSet(LAMBDA c : challenges[c].platformFee, F) = (CHOOSE g : Solves(g))[F]
  BY Zenon DEF MapThenSumSet, MapThenFoldSet
<1>2. \A s \in SUBSET F : s # {} =>
        PlatformFees[CHOOSE x \in s : TRUE] = challenges[CHOOSE x \in s : TRUE].platformFee
  <2> SUFFICES ASSUME NEW s \in SUBSET F, s # {}
               PROVE  PlatformFees[CHOOSE x \in s : TRUE] = challenges[CHOOSE x \in s : TRUE].platformFee
    OBVIOUS
  <2>1. (CHOOSE x \in s : TRUE) \in s
    BY Zenon
  <2> QED BY <2>1 DEF PlatformFees
<1>3. \A g : Solves(g) <=> Folds(g, F, PlatformFees)
  BY <1>2 DEF Folds
<1>4. Solves(f) /\ \A g : Solves(g) => g = f
  BY <1>3, SumsFolds, FoldsUnique
<1> HIDE DEF Solves
<1>5. (CHOOSE g : Solves(g)) = f
  BY <1>4, Zenon
<1> QED BY <1>1, <1>5

\* TotalsMatchChallenges in a form that steps can be seen to keep: the sum is
\* there, and nothing recursive is said of it.
BooksInv ==
  /\ IsFiniteSet(FundedSet)
  /\ IsTotal(totalLockedPrizePools, Pools, FundedSet)
  /\ IsTotal(totalLockedPlatformFees, PlatformFees, FundedSet)

\* Nothing is locked at deployment.
LEMMA InitBooks == Init => BooksInv
<1> SUFFICES ASSUME Init PROVE BooksInv
  OBVIOUS
<1>1. FundedSet = {}
  BY DEF Init, FundedSet, Funded, NoChallenge
<1>2. IsFiniteSet(FundedSet)
  BY <1>1, FS_EmptySet
<1>3. ASSUME NEW w PROVE IsTotal(0, w, FundedSet)
  <2> DEFINE f == [S \in SUBSET {} |-> 0]
  <2>1. Sums(f, {}, w) /\ f[{}] = 0
    BY DEF Sums
  <2> HIDE DEF f
  <2> QED BY <1>1, <2>1 DEF IsTotal
<1> QED BY <1>2, <1>3 DEF Init, BooksInv

\* A total gains the part of a challenge that becomes funded.
LEMMA TotalGains ==
  ASSUME NEW F, NEW w, NEW total, IsTotal(total, w, F),
         NEW c, c \notin F, NEW v, v[c] \in Nat, \A d \in F : v[d] = w[d],
         NEW G, G = F \cup {c}, NEW after, after = total + v[c]
  PROVE  IsTotal(after, v, G)
<1>1. PICK f : Sums(f, F, w) /\ f[F] = total
  BY DEF IsTotal
<1>2. IsTotal(f[F] + v[c], v, F \cup {c})
  BY <1>1, SumsAdd
<1> QED BY <1>1, <1>2

\* A total loses the part of a challenge that is settled.
LEMMA TotalLoses ==
  ASSUME NEW F, NEW w, NEW total, total \in Int, IsTotal(total, w, F),
         NEW c \in F, NEW v, w[c] \in Nat, \A d \in F : v[d] = w[d],
         NEW G, G = F \ {c}, NEW after, after = total - w[c]
  PROVE  IsTotal(after, v, G)
<1>1. PICK f : Sums(f, F, w) /\ f[F] = total
  BY DEF IsTotal
<1> DEFINE g == [S \in SUBSET (F \ {c}) |-> f[S]]
<1>2. g \in [SUBSET (F \ {c}) -> Nat] /\ g[{}] = 0
  BY <1>1 DEF Sums
<1>3. ASSUME NEW S \in SUBSET (F \ {c}), NEW d \in (F \ {c}) \ S
      PROVE  g[S \cup {d}] = g[S] + v[d]
  <2>1. S \cup {d} \in SUBSET (F \ {c}) /\ S \in SUBSET F /\ d \in F \ S
    OBVIOUS
  <2>2. f[S \cup {d}] = f[S] + w[d]
    BY <1>1, <2>1, Zenon DEF Sums
  <2> QED BY <2>1, <2>2
<1>4. f[F] = w[c] + f[F \ {c}]
  BY <1>1, SumsOne
<1>5. g[F \ {c}] = f[F \ {c}] /\ g[F \ {c}] \in Nat
  BY <1>2
<1>6. \A d \in F \ {c} : v[d] \in Nat
  BY <1>1 DEF Sums
<1> HIDE DEF g
<1>7. Sums(g, F \ {c}, v)
  BY <1>2, <1>3, <1>6 DEF Sums
<1>8. g[F \ {c}] = after
  BY <1>1, <1>4, <1>5
<1> QED BY <1>7, <1>8 DEF IsTotal

\* No part exceeds the total.
LEMMA TotalCovers ==
  ASSUME NEW F, NEW w, NEW total, IsTotal(total, w, F), NEW c \in F
  PROVE  total - w[c] \in Nat
<1>1. PICK f : Sums(f, F, w) /\ f[F] = total
  BY DEF IsTotal
<1>2. f[F] = w[c] + f[F \ {c}]
  BY <1>1, SumsOne
<1>3. F \ {c} \in SUBSET F /\ w[c] \in Nat
  BY <1>1 DEF Sums
<1>4. f[F \ {c}] \in Nat
  BY <1>1, <1>3 DEF Sums
<1> QED BY <1>1, <1>2, <1>3, <1>4

\* fundChallenge adds a challenge that was not funded before, and its parts.
LEMMA FundChallengeBooks ==
  ASSUME Inv, BooksInv,
         NEW caller \in Accounts \ {This}, NEW c \in ChallengeIds,
         NEW amounts \in PrizeLists, NEW fee \in Fees, NEW submission, NEW review,
         FundChallenge(caller, c, amounts, fee, submission, review)
  PROVE  BooksInv'
<1> DEFINE pool == PrizeTotal(amounts)
<1>1. pool \in Nat /\ fee \in Nat
  BY PrizeTotalPositive, EscrowConstants DEF FundChallenge, EscrowConstants
<1>2. /\ challenges'[c].status = "FUNDED"
      /\ challenges'[c].prizePool = pool /\ challenges'[c].platformFee = fee
      /\ \A d \in ChallengeIds \ {c} : challenges'[d] = challenges[d]
      /\ challenges[c].status = "NONE"
  BY DEF FundChallenge, Fundable, Inv, TypeOK
<1>3. /\ totalLockedPrizePools' = totalLockedPrizePools + pool
      /\ totalLockedPlatformFees' = totalLockedPlatformFees + fee
  BY DEF FundChallenge
<1> HIDE DEF pool
<1>4. c \notin FundedSet /\ FundedSet' = FundedSet \cup {c}
  BY <1>2 DEF FundedSet, Funded
<1>5. \A d \in FundedSet : Pools'[d] = Pools[d] /\ PlatformFees'[d] = PlatformFees[d]
  BY <1>2, <1>4 DEF FundedSet, Pools, PlatformFees
<1>6. Pools'[c] = pool /\ PlatformFees'[c] = fee
  BY <1>2 DEF Pools, PlatformFees
<1>7. IsFiniteSet(FundedSet')
  BY <1>4, FS_AddElement DEF BooksInv
<1>8. IsTotal(totalLockedPrizePools', Pools', FundedSet')
  <2>1. IsTotal(totalLockedPrizePools, Pools, FundedSet)
    BY DEF BooksInv
  <2>2. totalLockedPrizePools' = totalLockedPrizePools + Pools'[c]
    BY <1>3, <1>6
  <2> QED BY <1>1, <1>4, <1>5, <1>6, <2>1, <2>2, TotalGains
<1>9. IsTotal(totalLockedPlatformFees', PlatformFees', FundedSet')
  <2>1. IsTotal(totalLockedPlatformFees, PlatformFees, FundedSet)
    BY DEF BooksInv
  <2>2. totalLockedPlatformFees' = totalLockedPlatformFees + PlatformFees'[c]
    BY <1>3, <1>6
  <2> QED BY <1>1, <1>4, <1>5, <1>6, <2>1, <2>2, TotalGains
<1> QED BY <1>7, <1>8, <1>9 DEF BooksInv

\* A settlement takes exactly its own challenge out of the totals.
LEMMA UnlockBooks ==
  ASSUME Inv, BooksInv, NEW c \in ChallengeIds, Funded(c),
         NEW status \in {"PAID", "REFUNDED"}, Unlock(c, status)
  PROVE  BooksInv'
<1>1. challenges' = [challenges EXCEPT ![c].status = status]
  BY DEF Unlock
<1>2. /\ totalLockedPrizePools' = totalLockedPrizePools - challenges[c].prizePool
      /\ totalLockedPlatformFees' = totalLockedPlatformFees - challenges[c].platformFee
  BY DEF Unlock
<1>3. \A d \in ChallengeIds :
        /\ challenges'[d].status = IF d = c THEN status ELSE challenges[d].status
        /\ challenges'[d].prizePool = challenges[d].prizePool
        /\ challenges'[d].platformFee = challenges[d].platformFee
  BY <1>1 DEF Inv, TypeOK, ChallengeEscrow
<1>4. c \in FundedSet /\ FundedSet' = FundedSet \ {c}
  BY <1>3 DEF FundedSet, Funded
<1>5. \A d \in FundedSet : Pools'[d] = Pools[d] /\ PlatformFees'[d] = PlatformFees[d]
  BY <1>3 DEF FundedSet, Pools, PlatformFees
<1>6. /\ Pools[c] = challenges[c].prizePool /\ Pools[c] \in Nat
      /\ PlatformFees[c] = challenges[c].platformFee /\ PlatformFees[c] \in Nat
  BY DEF Pools, PlatformFees, Inv, TypeOK, ChallengeEscrow, Uint
<1>7. IsFiniteSet(FundedSet')
  BY <1>4, FS_RemoveElement DEF BooksInv
<1>8. IsTotal(totalLockedPrizePools', Pools', FundedSet')
  <2>1. IsTotal(totalLockedPrizePools, Pools, FundedSet)
    BY DEF BooksInv
  <2>2. totalLockedPrizePools' = totalLockedPrizePools - Pools[c]
    BY <1>2, <1>6
  <2>3. totalLockedPrizePools \in Int
    BY InvFacts
  <2> QED BY <1>4, <1>5, <1>6, <2>1, <2>2, <2>3, TotalLoses
<1>9. IsTotal(totalLockedPlatformFees', PlatformFees', FundedSet')
  <2>1. IsTotal(totalLockedPlatformFees, PlatformFees, FundedSet)
    BY DEF BooksInv
  <2>2. totalLockedPlatformFees' = totalLockedPlatformFees - PlatformFees[c]
    BY <1>2, <1>6
  <2>3. totalLockedPlatformFees \in Int
    BY InvFacts
  <2> QED BY <1>4, <1>5, <1>6, <2>1, <2>2, <2>3, TotalLoses
<1> QED BY <1>7, <1>8, <1>9 DEF BooksInv

\* Every transaction keeps the books.
LEMMA NextBooks == Inv /\ BooksInv /\ [Next]_vars => BooksInv'
<1> SUFFICES ASSUME Inv, BooksInv, [Next]_vars PROVE BooksInv'
  OBVIOUS
<1>1. ASSUME NEW caller \in Accounts \ {This}, NEW c \in ChallengeIds,
             NEW amounts \in PrizeLists, NEW fee \in Fees, NEW submission, NEW review,
             FundChallenge(caller, c, amounts, fee, submission, review)
      PROVE  BooksInv'
  BY <1>1, FundChallengeBooks
<1>2. ASSUME NEW caller, NEW c \in ChallengeIds, NEW winners,
             ReleasePayout(caller, c, winners)
      PROVE  BooksInv'
  BY <1>2, UnlockBooks DEF ReleasePayout, Settleable, Funded
<1>3. ASSUME NEW caller, NEW c \in ChallengeIds, CancelAndRefund(caller, c)
      PROVE  BooksInv'
  BY <1>3, UnlockBooks DEF CancelAndRefund, Settleable, Funded
<1>4. ASSUME UNCHANGED <<challenges, totalLockedPrizePools, totalLockedPlatformFees>>
      PROVE  BooksInv'
  <2>1. /\ FundedSet' = FundedSet /\ Pools' = Pools /\ PlatformFees' = PlatformFees
        /\ totalLockedPrizePools' = totalLockedPrizePools
        /\ totalLockedPlatformFees' = totalLockedPlatformFees
    BY <1>4 DEF FundedSet, Funded, Pools, PlatformFees
  <2> QED BY <2>1, Zenon DEF BooksInv, IsTotal
<1>5. ASSUME NEW from, NEW to, NEW amount, Transfer(from, to, amount)
      PROVE  BooksInv'
  BY <1>4, <1>5 DEF Transfer
<1>6. ASSUME \/ \E caller \in Accounts \ {This} : Pause(caller) \/ Unpause(caller)
             \/ \E caller \in Accounts \ {This}, r \in Roles, a \in Appointees :
                  GrantRole(caller, r, a) \/ RevokeRole(caller, r, a)
             \/ Tick
             \/ UNCHANGED vars
      PROVE  BooksInv'
  BY <1>4, <1>6, AdministrationInv
<1> QED BY <1>1, <1>2, <1>3, <1>5, <1>6 DEF Next

\* The running totals are the sums over the funded challenges, and every prize
\* list is worth its pool, whatever challenges were funded and settled in
\* whatever order.
THEOREM BooksBalanceHolds == Spec => []BooksBalance
<1>1. ASSUME Inv, BooksInv PROVE BooksBalance
  <2>1. FundedSet \in SUBSET ChallengeIds /\ IsFiniteSet(FundedSet)
    BY <1>1 DEF FundedSet, BooksInv
  <2>2. PICK f : Sums(f, FundedSet, Pools) /\ f[FundedSet] = totalLockedPrizePools
    BY <1>1, Zenon DEF BooksInv, IsTotal
  <2>3. PICK g : Sums(g, FundedSet, PlatformFees) /\ g[FundedSet] = totalLockedPlatformFees
    BY <1>1, Zenon DEF BooksInv, IsTotal
  <2>4. totalLockedPrizePools = MapThenSumSet(LAMBDA c : challenges[c].prizePool, FundedSet)
    BY <2>1, <2>2, PoolsAreSummed, Zenon
  <2>5. totalLockedPlatformFees = MapThenSumSet(LAMBDA c : challenges[c].platformFee, FundedSet)
    BY <2>1, <2>3, FeesAreSummed, Zenon
  <2>6. TotalsMatchChallenges
    BY <2>4, <2>5, Zenon DEF TotalsMatchChallenges, FundedSet
  <2> QED BY <1>1, <2>6 DEF BooksBalance, Inv
<1>2. Inv /\ BooksInv => BooksBalance
  BY <1>1
<1> QED BY InitInv, InitBooks, NextInv, NextBooks, <1>2, PTL DEF Spec

\* A funded challenge can always be refunded: the contract's own checked
\* arithmetic never stands in the way.
THEOREM RefundNeverRevertsHolds == Spec => []RefundNeverReverts
<1>1. ASSUME Inv, BooksInv PROVE RefundNeverReverts
  <2> SUFFICES ASSUME NEW c \in ChallengeIds, Funded(c) PROVE RefundNeverReverts!(c)!2
    BY DEF RefundNeverReverts
  <2>1. c \in FundedSet
    BY DEF FundedSet
  <2>2. /\ totalLockedPrizePools - Pools[c] \in Nat
        /\ totalLockedPlatformFees - PlatformFees[c] \in Nat
    BY <1>1, <2>1, TotalCovers DEF BooksInv
  <2>3. /\ Pools[c] = challenges[c].prizePool /\ Pools[c] \in Nat
        /\ PlatformFees[c] = challenges[c].platformFee /\ PlatformFees[c] \in Nat
    BY <1>1 DEF Pools, PlatformFees, Inv, TypeOK, ChallengeEscrow, Uint
  <2>4. /\ totalLockedPrizePools >= challenges[c].prizePool
        /\ totalLockedPlatformFees >= challenges[c].platformFee
        /\ balances[This] >= challenges[c].prizePool + challenges[c].platformFee
        /\ balances[This] >= (totalLockedPrizePools - challenges[c].prizePool)
                               + (totalLockedPlatformFees - challenges[c].platformFee)
    BY <1>1, <2>2, <2>3, InvFacts
  <2> QED BY <2>4 DEF AccountingHolds, Liability
<1>2. Inv /\ BooksInv => RefundNeverReverts
  BY <1>1
<1> QED BY InitInv, InitBooks, NextInv, NextBooks, <1>2, PTL DEF Spec

-----------------------------------------------------------------------------
(***************************************************************************)
(* The terms of a challenge, from the form to the contract, for every      *)
(* pool, prize, deadline, policy, clock and bound: the automatic splits    *)
(* add up, the fee is ten percent rounded up, what the server lets a brand *)
(* sign is what the contract takes, and a payout that was approved is not  *)
(* refused.                                                                *)
(*                                                                         *)
(* The draft can be edited after the terms were sent to be signed, so the  *)
(* invariant speaks of the terms themselves: TermsSound.                   *)
(***************************************************************************)

\* recommendedUnits and equalUnits lose no unit to rounding.
LEMMA SplitsAddUp ==
  ASSUME NEW t \in Nat
  PROVE  /\ Recommended(t) \in [1..3 -> Nat] /\ Sum(Recommended(t)) = t
         /\ Equal(t) \in [1..3 -> Nat] /\ Sum(Equal(t)) = t
<1>1. /\ (t * 6000) \div 10000 \in Nat /\ (t * 3000) \div 10000 \in Nat
      /\ t - ((t * 6000) \div 10000) - ((t * 3000) \div 10000) \in Nat
  OBVIOUS
<1>2. /\ t \div 3 \in Nat /\ t % 3 \in Nat
      /\ (t \div 3) + (t % 3) + (t \div 3) + (t \div 3) = t
  OBVIOUS
<1> QED BY <1>1, <1>2 DEF Recommended, Equal, Sum

\* The platform fee is the least whole number of units that is ten percent of
\* the pool or more: CEIL_TO_USDC_BASE_UNITS.
THEOREM FeeIsCeiling ==
  ASSUME NEW t \in Nat
  PROVE  /\ PlatformFee(t) \in Nat
         /\ 10 * PlatformFee(t) >= t
         /\ 10 * PlatformFee(t) < t + 10
BY DEF PlatformFee

DraftOK(d) == d \in Draft /\ DOMAIN d.prizes = 1..d.count

\* normalizePrizePool gives a draft as many prizes as winners.
LEMMA NormalizedIsOK ==
  ASSUME NEW d, d \in Draft, d.count = 3 /\ d.mode = "custom" => DOMAIN d.prizes = 1..3
  PROVE  DraftOK(Normalized(d))
<1> DEFINE mode == IF d.count = 1 THEN "recommended" ELSE d.mode
           e == [d EXCEPT !.mode = mode]
<1>1. e \in Draft /\ e.count = d.count /\ e.mode = mode /\ e.prizes = d.prizes /\ e.total = d.total
  BY DEF Draft, Modes
<1>2. e.total \in Nat
  BY <1>1, TermsConstants DEF Draft
<1>3. Distribution(e) \in Prizes /\ DOMAIN Distribution(e) = 1..d.count
  <2>1. CASE d.count = 1
    <3>1. Distribution(e) = <<e.total>>
      BY <1>1, <2>1 DEF Distribution
    <3>2. <<e.total>> \in [1..1 -> Nat]
      BY <1>2
    <3> QED BY <2>1, <3>1, <3>2 DEF Prizes
  <2>2. CASE d.count = 3
    <3>1. CASE mode = "equal"
      BY <1>1, <1>2, <2>2, <3>1, SplitsAddUp DEF Distribution, Prizes
    <3>2. CASE mode = "custom"
      <4>1. Distribution(e) = d.prizes
        BY <1>1, <2>2, <3>2 DEF Distribution
      <4>2. d.mode = "custom" /\ d.prizes \in Prizes
        BY <2>2, <3>2 DEF Draft
      <4> QED BY <2>2, <4>1, <4>2
    <3>3. CASE mode = "recommended"
      BY <1>1, <1>2, <2>2, <3>3, SplitsAddUp DEF Distribution, Prizes
    <3> QED BY <2>2, <3>1, <3>2, <3>3 DEF Draft, Modes
  <2> QED BY <2>1, <2>2 DEF Draft
<1>4. Normalized(d) = [d EXCEPT !.mode = mode, !.prizes = Distribution(e)]
  BY DEF Normalized
<1> HIDE DEF mode, e
<1>5. mode \in Modes
  BY DEF mode, Modes, Draft
<1> QED BY <1>3, <1>4, <1>5 DEF DraftOK, Draft

-----------------------------------------------------------------------------
LEMMA PrizesLen ==
  ASSUME NEW p \in Prizes
  PROVE  Len(p) \in {1, 3} /\ DOMAIN p = 1..Len(p)
<1>1. PICK n \in {1, 3} : p \in [1..n -> Nat]
  BY DEF Prizes
<1>2. p \in Seq(Nat)
  BY <1>1, SeqDef
<1>3. Len(p) \in Nat /\ DOMAIN p = 1..Len(p) /\ DOMAIN p = 1..n
  BY <1>1, <1>2, LenProperties
<1> QED BY <1>3

\* The terms that the brand was asked to sign are good, and if a payout is
\* approved, the contract agrees.
TermsSound ==
  /\ call # None => /\ \A i \in DOMAIN call.prizes : call.prizes[i] > 0
                    /\ call.rev > call.sub
  /\ payout = "approved" => escrow # None /\ Releasable(block)

TermsInv == TermsTypeOK /\ TermsSound

LEMMA TermsInitInv == TermsInit => TermsInv
<1> SUFFICES ASSUME TermsInit PROVE TermsInv
  OBVIOUS
<1>1. PICK d \in NewDrafts : draft = Normalized(d)
  BY DEF TermsInit
<1>2. d \in Draft /\ DOMAIN d.prizes = 1..3
  BY TermsConstants DEF NewDrafts, Draft, Prizes
<1>3. draft \in Draft /\ DOMAIN draft.prizes = 1..draft.count
  BY <1>1, <1>2, NormalizedIsOK DEF DraftOK
<1>4. LastTime \in Nat /\ 1 <= LastTime /\ MaxEdits \in Nat /\ MaxEntries \in Nat
  BY <1>2, TermsConstants DEF Draft
<1>5. clock \in 1..LastTime /\ block \in 1..clock /\ edits \in 0..MaxEdits /\ entries \in 0..MaxEntries
  BY <1>4 DEF TermsInit
<1>6. TermsTypeOK
  BY <1>3, <1>5 DEF TermsInit, TermsTypeOK
<1>7. TermsSound
  BY DEF TermsInit, TermsSound
<1> QED BY <1>6, <1>7 DEF TermsInv

\* A save leaves a draft of the right form.
LEMMA EditInv ==
  ASSUME TermsInv, Edit
  PROVE  TermsInv'
<1> USE DEF launch
<1>1. SUFFICES ASSUME NEW d, d \in Draft, d.count = 3 /\ d.mode = "custom" => DOMAIN d.prizes = 1..3,
                      Save(d)
               PROVE  TermsInv'
  <2>0. draft \in Draft /\ DOMAIN draft.prizes = 1..draft.count
    BY DEF TermsInv, TermsTypeOK
  <2>1. CASE UpdateTotal
    BY <1>1, <2>0, <2>1 DEF UpdateTotal, Draft
  <2>2. CASE UpdateWinnerCount
    BY <1>1, <2>0, <2>2 DEF UpdateWinnerCount, Draft, Modes
  <2>3. CASE UpdateMode
    BY <1>1, <2>0, <2>3 DEF UpdateMode, Draft
  <2>4. CASE UpdateDistribution
    <3>1. PICK i \in 1..3, a \in EnteredPrizes : Save([draft EXCEPT !.prizes[i] = a])
      BY <2>4 DEF UpdateDistribution
    <3>2. draft.prizes \in [1..3 -> Nat] /\ a \in Nat
      BY <2>0, <2>4, TermsConstants DEF UpdateDistribution, Draft, Prizes
    <3> DEFINE e == [draft EXCEPT !.prizes[i] = a]
    <3>3. e.prizes \in [1..3 -> Nat] /\ e = [draft EXCEPT !.prizes = e.prizes]
      BY <2>0, <3>2 DEF Draft
    <3>4. e \in Draft /\ DOMAIN e.prizes = 1..3
      BY <2>0, <3>3 DEF Draft, Prizes
    <3> QED BY <1>1, <3>1, <3>4
  <2>5. CASE UpdateDates
    BY <1>1, <2>0, <2>5 DEF UpdateDates, Draft
  <2> QED BY <2>1, <2>2, <2>3, <2>4, <2>5 DEF Edit
<1>2. draft' \in Draft /\ DOMAIN draft'.prizes = 1..draft'.count
  BY <1>1, NormalizedIsOK DEF Save, DraftOK
<1>3. edits' \in 0..MaxEdits
  BY <1>1, TermsConstants DEF TermsInv, TermsTypeOK, Save
<1>4. UNCHANGED <<clock, block, call, reverted, escrow, launch, entries, selected, payout>>
  BY <1>1 DEF Save, clocks, chain, campaign
<1>5. TermsTypeOK'
  BY <1>2, <1>3, <1>4 DEF TermsInv, TermsTypeOK
<1>6. TermsSound'
  BY <1>4 DEF TermsInv, TermsSound, Releasable
<1> QED BY <1>5, <1>6 DEF TermsInv

\* What launch readiness lets through is sound.
LEMMA AskInv ==
  ASSUME TermsInv, AskFunding
  PROVE  TermsInv'
<1> USE DEF launch
<1>1. draft \in Draft /\ call = None /\ escrow = None
  BY DEF TermsInv, TermsTypeOK, AskFunding
<1>2. PlatformFee(draft.total) \in Nat
  BY <1>1, FeeIsCeiling, TermsConstants DEF Draft
<1>3. /\ call' = Intent(draft) /\ Intent(draft) \in Offer
      /\ \A i \in DOMAIN Intent(draft).prizes : Intent(draft).prizes[i] > 0
      /\ Intent(draft).rev > Intent(draft).sub
  BY <1>1, <1>2 DEF AskFunding, LaunchReady, PrizesReady, DatesReady, Intent, Offer, Draft
<1>4. UNCHANGED <<clock, block, draft, edits, reverted, escrow, launch, entries, selected, payout>>
  BY DEF AskFunding, clocks, campaign
<1>5. TermsTypeOK'
  BY <1>1, <1>3, <1>4 DEF TermsInv, TermsTypeOK
<1>6. TermsSound'
  BY <1>1, <1>3, <1>4 DEF TermsInv, TermsSound
<1> QED BY <1>5, <1>6 DEF TermsInv

LEMMA TermsNextInv ==
  ASSUME TermsInv, [TermsNext]_termsVars
  PROVE  TermsInv'
<1> USE DEF TermsInv, launch
<1>1. CASE UNCHANGED termsVars
  BY <1>1 DEF termsVars, TermsTypeOK, TermsSound, Releasable
<1>2. CASE ClockTick
  <2>1. TermsTypeOK'
    BY <1>2, TermsConstants DEF ClockTick, TermsTypeOK, chain, campaign
  <2>2. TermsSound'
    BY <1>2 DEF ClockTick, TermsSound, Releasable, chain, campaign
  <2> QED BY <2>1, <2>2
<1>3. CASE Mine
  <2>1. TermsTypeOK'
    BY <1>3 DEF Mine, TermsTypeOK, chain, campaign
  <2>2. UNCHANGED <<call, escrow, payout, selected>> /\ block \in Int /\ block' \in Int /\ block' > block
    BY <1>3 DEF Mine, TermsTypeOK, chain, campaign
  <2>3. payout = "approved" => escrow \in Offer
    BY DEF TermsSound, TermsTypeOK
  <2>4. payout = "approved" => escrow.rev \in Int
    BY <2>3, TermsConstants DEF Offer
  <2>5. TermsSound'
    BY <2>2, <2>4 DEF TermsSound, Releasable
  <2> QED BY <2>1, <2>5
<1>4. CASE Edit
  BY <1>4, EditInv
<1>5. CASE AskFunding
  BY <1>5, AskInv
<1>6. CASE Fund
  BY <1>6 DEF Fund, TermsTypeOK, TermsSound, Releasable, clocks, campaign
<1>7. CASE Verify \/ Restore \/ Promote \/ Publish
  BY <1>7 DEF Verify, Restore, EventSeen, Promote, Publish, TermsTypeOK, TermsSound, Releasable, clocks, chain, campaign
<1>8. CASE Submit
  <2>1. entries' \in 0..MaxEntries
    BY <1>8, TermsConstants DEF Submit, TermsTypeOK
  <2> QED BY <1>8, <2>1 DEF Submit, TermsTypeOK, TermsSound, Releasable, clocks, chain
<1>9. CASE SelectWinners
  <2>1. UNCHANGED <<clock, block, draft, edits, call, reverted, escrow, launch, entries, payout>>
        /\ selected' = draft.count /\ selected = 0
    BY <1>9 DEF SelectWinners, clocks, chain
  <2>2. TermsTypeOK'
    BY <2>1 DEF TermsTypeOK, Draft
  <2>3. payout # "approved"
    <3> SUFFICES ASSUME payout = "approved" PROVE FALSE
      OBVIOUS
    <3>1. escrow.prizes \in Prizes /\ Len(escrow.prizes) = 0
      BY <2>1 DEF TermsSound, Releasable, TermsTypeOK, Offer
    <3> QED BY <3>1, PrizesLen
  <2> QED BY <2>1, <2>2, <2>3 DEF TermsSound
<1>10. CASE ApprovePayout
  <2>1. UNCHANGED <<clock, block, draft, edits, call, reverted, escrow, launch, entries, selected>>
        /\ payout' = "approved" /\ escrow = Intent(draft)
        /\ block >= escrow.rev /\ selected = Len(escrow.prizes)
    BY <1>10 DEF ApprovePayout, PayoutReadiness, SimulationSucceeds, Matches, clocks, chain
  <2>2. escrow # None
    <3>1. draft \in Draft /\ PlatformFee(draft.total) \in Nat
      BY FeeIsCeiling, TermsConstants DEF TermsTypeOK, Draft
    <3>2. Intent(draft) \in Offer
      BY <3>1 DEF Intent, Offer, Draft
    <3> QED BY <2>1, <3>2, NoneIsNoOffer
  <2> QED BY <2>1, <2>2 DEF TermsTypeOK, TermsSound, Releasable
<1>11. CASE Release \/ Confirm
  BY <1>11 DEF Release, Confirm, TermsTypeOK, TermsSound, Releasable, clocks, chain
<1> QED BY <1>1, <1>2, <1>3, <1>4, <1>5, <1>6, <1>7, <1>8, <1>9, <1>10, <1>11 DEF TermsNext

THEOREM TermsInvHolds == TermsSpec => []TermsInv
BY TermsInitInv, TermsNextInv, PTL DEF TermsSpec

\* The state has its type.
THEOREM TermsTypeCorrect == TermsSpec => []TermsTypeOK
BY TermsInvHolds, PTL DEF TermsInv

\* What the server lets a brand sign, the contract takes until submissions
\* close: createProductFundingChallenge against fundChallenge.
THEOREM OfferIsAccepted == TermsSpec => []FundingIsAccepted
<1>1. TermsInv => FundingIsAccepted
  <2> SUFFICES ASSUME TermsInv, call # None, block < call.sub PROVE FundableTerms(call, block)
    BY DEF FundingIsAccepted
  <2>1. call \in Offer
    BY DEF TermsInv, TermsTypeOK
  <2>2. Len(call.prizes) \in {1, 3}
    BY <2>1, PrizesLen DEF Offer
  <2>3. block \in Int /\ call.sub \in Int
    BY <2>1, TermsConstants DEF TermsInv, TermsTypeOK, Offer
  <2> QED BY <2>2, <2>3 DEF TermsInv, TermsSound, FundableTerms
<1> QED BY <1>1, TermsInvHolds, PTL

\* A payout that the server approved is not refused by the contract for its
\* time or its number of winners.
NotReverted == payout # "reverted"

THEOREM PayoutNeverReverts == TermsSpec => []NotReverted
<1>1. TermsInit => NotReverted
  BY DEF TermsInit, NotReverted
<1>2. TermsInv /\ NotReverted /\ [TermsNext]_termsVars => NotReverted'
  BY DEF NotReverted, TermsInv, TermsSound, TermsNext, termsVars, ClockTick, Mine, Edit, UpdateTotal, UpdateWinnerCount, UpdateMode,
         UpdateDistribution, UpdateDates, Save, AskFunding, Fund, Verify, Restore, Promote, Publish,
         Submit, SelectWinners, ApprovePayout, Release, Confirm, campaign
<1> QED BY <1>1, <1>2, TermsInvHolds, PTL DEF TermsSpec

-----------------------------------------------------------------------------
\* The contract's record of a challenge has these terms.
Records(c, terms) ==
  /\ challenges[c].status # "NONE"
  /\ challenges[c].prizePool = Sum(terms.prizes) /\ challenges[c].platformFee = terms.fee
  /\ challenges[c].submissionDeadline = terms.sub /\ challenges[c].reviewDeadline = terms.rev
  /\ challenges[c].winnerCount = Len(terms.prizes) /\ prizeAmounts[c] = terms.prizes

\* Escrow and Terms each have what fundChallenge and releasePayout look at.  They
\* are the same contract: it takes no terms but those that FundableTerms holds
\* of, records them as Matches compares them, and pays them out only at the time
\* and to the number of winners that Releasable asks for.
THEOREM OneContract ==
  ASSUME TypeOK, NEW terms \in Offer, NEW caller, NEW c \in ChallengeIds
  PROVE  /\ FundChallenge(caller, c, terms.prizes, terms.fee, terms.sub, terms.rev) =>
              FundableTerms(terms, now) /\ Records(c, terms)'
         /\ \A winners : Records(c, terms) /\ ReleasePayout(caller, c, winners) =>
              now >= terms.rev /\ Len(winners) = Len(terms.prizes)
<1>1. terms.prizes \in Prizes
  BY DEF Offer
<1>2. Len(terms.prizes) \in {1, 3} /\ DOMAIN terms.prizes = 1..Len(terms.prizes)
  BY <1>1, PrizesLen
<1>3. ASSUME FundChallenge(caller, c, terms.prizes, terms.fee, terms.sub, terms.rev)
      PROVE  FundableTerms(terms, now) /\ Records(c, terms)'
  <2>1. FundableTerms(terms, now)
    BY <1>2, <1>3 DEF FundChallenge, FundableTerms
  <2>2. PrizeTotal(terms.prizes) = Sum(terms.prizes)
    BY DEF PrizeTotal, Sum
  <2>3. SafeWinnerCount(Len(terms.prizes)) = Len(terms.prizes)
    BY <1>2 DEF SafeWinnerCount
  <2>4. prizeAmounts'[c] = terms.prizes /\ challenges'[c] =
          [sponsor |-> caller, prizePool |-> PrizeTotal(terms.prizes),
           platformFee |-> terms.fee, submissionDeadline |-> terms.sub,
           reviewDeadline |-> terms.rev, winnerCount |-> SafeWinnerCount(Len(terms.prizes)),
           status |-> "FUNDED"]
    BY <1>3 DEF FundChallenge, TypeOK
  <2> QED BY <2>1, <2>2, <2>3, <2>4 DEF Records
<1>4. ASSUME NEW winners, Records(c, terms), ReleasePayout(caller, c, winners)
      PROVE  now >= terms.rev /\ Len(winners) = Len(terms.prizes)
  BY <1>4 DEF Records, ReleasePayout
<1> QED BY <1>3, <1>4
=============================================================================
