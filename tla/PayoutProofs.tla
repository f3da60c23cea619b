---------------------------- MODULE PayoutProofs ----------------------------
(***************************************************************************)
(* Theorems about winner finalization and payout for any number of         *)
(* overlapping requests and of winner lists, whatever steps fail, and      *)
(* about the pages that show them.                                         *)
(*                                                                         *)
(* The safety properties are not inductive: between two of its steps a     *)
(* request holds values it read earlier, and what it does next depends on  *)
(* them.  The strengthening, Sound, says what those values are worth at    *)
(* each step; it survives the steps of other requests because these only   *)
(* ever add to what is known (Progress).                                   *)
(***************************************************************************)
EXTENDS Settlement, TLAPS

CircleChallenge ==
  [state : {"CREATED", "OFFERED", "SENT", "MINED", "CONFIRMED", "FAILED", "DENIED"},
   winners : Selections]
Payouts == [hash : Keys, winners : Selections]

\* The steps on the way from a finalized attempt to Circle.
Approving == {"reserve", "markReserved", "openSession", "createChallenge"}

\* What the local variables of a request are worth, step by step.
Sound(q) ==
  /\ q.pc \in {"lockWinners", "readAttempt"} \cup Approving => q.winners \in Selections
  /\ q.pc \in {"readAttempt"} \cup Approving => reviewOver
  /\ q.pc \in Approving => attempt.finalized
  /\ q.pc \in {"markReserved", "openSession"} => attempt.key = ScopeKey
  /\ q.pc = "createChallenge" => q.key = ScopeKey
  /\ q.pc = "recordTransaction" => q.verdict # "PAYOUT_CONFIRMED"
  /\ q.pc = "persistEvidence" \/ (q.pc = "recordVerdict" /\ q.verdict = "PAYOUT_CONFIRMED")
       => escrow = "PAID" /\ payout = [hash |-> q.hash, winners |-> q.winners]
  /\ q.pc = "completeSettlement" => evidence # None

OneKey ==
  /\ attempt.key \in {None, ScopeKey}
  /\ DOMAIN circle \subseteq {ScopeKey}

PaidHasPayout == escrow = "PAID" => payout \in Payouts

Inv ==
  /\ TypeOK
  /\ OneKey
  /\ PaidHasPayout
  /\ ApprovalFollowsFinalization
  /\ ConfirmedIsPaid
  /\ EvidenceIsThePayout
  /\ \A r \in Requests : Sound(requests[r])

\* What a step may do to the attempt.
AttemptStep ==
  /\ attempt' \in AttemptRecord
  /\ attempt'.key \in {None, ScopeKey}
  /\ attempt.finalized => attempt'.finalized
  /\ attempt.key # None => attempt'.key = attempt.key
  /\ attempt'.state = "PAYOUT_CONFIRMED" => escrow = "PAID" /\ attempt'.hash = payout.hash

\* What a step may do to everything a request may rely on.
Progress ==
  /\ attempt.finalized => attempt'.finalized
  /\ attempt.key # None => attempt'.key = attempt.key
  /\ reviewOver => reviewOver'
  /\ escrow = "PAID" => UNCHANGED <<escrow, payout>>
  /\ evidence # None => evidence' # None

\* What a step may do to the requests: it moves r, to where r is sound.
Moves(r) ==
  /\ requests' \in [Requests -> RequestLocals]
  /\ \A s \in Requests \ {r} : requests'[s] = requests[s]
  /\ Sound(requests[r])'

-----------------------------------------------------------------------------
\* A request that does not move itself keeps what it relies on.
LEMMA SoundStays ==
  ASSUME Inv, Progress, NEW s \in Requests, requests'[s] = requests[s]
  PROVE  Sound(requests[s])'
<1>1. ScopeKey # None
  BY PayoutConstants DEF PayoutConstants
<1>2. Sound(requests[s])
  BY DEF Inv
<1> QED BY <1>1, <1>2 DEF Progress, Sound

\* Nothing changes without a step.
LEMMA AttemptKept ==
  ASSUME Inv, UNCHANGED attempt
  PROVE  AttemptStep
BY DEF Inv, TypeOK, OneKey, ConfirmedIsPaid, AttemptStep

\* The invariant holds at the start.
LEMMA InitInv == Init => Inv
<1> SUFFICES ASSUME Init PROVE Inv
  OBVIOUS
<1>1. NoAttempt \in AttemptRecord /\ NoAttempt.key = None /\ NoAttempt.state = "ABSENT"
  BY DEF NoAttempt, AttemptRecord, States
<1>2. Idle \in RequestLocals /\ Idle.pc = "idle"
  BY DEF Idle, RequestLocals, States, Steps, ApprovalSteps
<1>3. Sound(Idle)
  BY <1>2 DEF Sound, Approving
<1>4. DOMAIN circle = {}
  BY DEF Init
<1>5. TypeOK
  BY <1>1, <1>2, <1>4 DEF Init, TypeOK
<1>6. \A r \in Requests : requests[r] = Idle
  BY DEF Init
<1> QED BY <1>1, <1>3, <1>4, <1>5, <1>6 DEF Init, Inv, OneKey, PaidHasPayout,
      ApprovalFollowsFinalization, ConfirmedIsPaid, EvidenceIsThePayout

-----------------------------------------------------------------------------
\* A step of a request that leaves Circle and the evidence alone.
LEMMA RequestStep ==
  ASSUME Inv, NEW r \in Requests, Moves(r), AttemptStep,
         DOMAIN circle' = DOMAIN circle,
         \A k \in DOMAIN circle : circle'[k] \in CircleChallenge,
         cachedFunded' \in BOOLEAN, UNCHANGED <<outside, evidence, settled>>
  PROVE  Inv'
<1>1. Progress
  BY DEF AttemptStep, Progress, outside
<1>2. \A s \in Requests : Sound(requests[s])'
  <2> SUFFICES ASSUME NEW s \in Requests PROVE Sound(requests[s])'
    OBVIOUS
  <2>1. CASE s = r
    BY <2>1 DEF Moves
  <2>2. CASE s # r
    BY <1>1, <2>2, SoundStays DEF Moves
  <2> QED BY <2>1, <2>2
<1>3. TypeOK'
  BY DEF Inv, TypeOK, Moves, AttemptStep, outside, CircleChallenge
<1>4. OneKey' /\ PaidHasPayout' /\ EvidenceIsThePayout'
  BY DEF Inv, OneKey, PaidHasPayout, EvidenceIsThePayout, AttemptStep, outside
<1>5. ApprovalFollowsFinalization' /\ ConfirmedIsPaid'
  BY DEF Inv, ApprovalFollowsFinalization, ConfirmedIsPaid, AttemptStep, outside
<1> QED BY <1>2, <1>3, <1>4, <1>5 DEF Inv

\* A step of a request that leaves Circle alone as well.
LEMMA QuietStep ==
  ASSUME Inv, NEW r \in Requests, Moves(r), AttemptStep,
         UNCHANGED <<circle, outside, cachedFunded, evidence, settled>>
  PROVE  Inv'
<1>1. /\ DOMAIN circle' = DOMAIN circle
      /\ \A k \in DOMAIN circle : circle'[k] \in CircleChallenge
      /\ cachedFunded' \in BOOLEAN
  BY DEF Inv, TypeOK, CircleChallenge
<1> QED BY <1>1, RequestStep

-----------------------------------------------------------------------------
\* Where a request goes: steps at which it relies on nothing are always sound.
FreshSteps == {"idle", "recordFinalized", "markFailed", "recordRejection",
               "recordApproval", "recordRecovery", "askChallenge", "askTransaction",
               "resolveFinalized", "readReceipt"}

\* A request that ends relies on nothing.
LEMMA FinishMoves ==
  ASSUME Inv, NEW r \in Requests, Finish(r)
  PROVE  Moves(r)
<1>1. Idle \in RequestLocals /\ Idle.pc = "idle"
  BY DEF Idle, RequestLocals, States, Steps, ApprovalSteps
<1>2. requests \in [Requests -> RequestLocals]
  BY DEF Inv, TypeOK
<1> QED BY <1>1, <1>2 DEF Finish, Moves, Sound, Approving

\* One that goes on with nothing of what it read relies on nothing either.
LEMMA GoAfreshMoves ==
  ASSUME Inv, NEW r \in Requests, NEW step \in FreshSteps, GoAfresh(r, step)
  PROVE  Moves(r)
<1>1. [Idle EXCEPT !.pc = step] \in RequestLocals /\ [Idle EXCEPT !.pc = step].pc = step
  BY DEF Idle, RequestLocals, States, Steps, ApprovalSteps, FreshSteps
<1>2. requests \in [Requests -> RequestLocals]
  BY DEF Inv, TypeOK
<1> QED BY <1>1, <1>2 DEF GoAfresh, FreshSteps, Moves, Sound, Approving

\* An error leaves nothing to rely on, whether it is caught or not.
LEMMA ThrowMoves ==
  ASSUME Inv, NEW r \in Requests, Throw(r)
  PROVE  Moves(r)
BY FinishMoves, GoAfreshMoves DEF Throw, FreshSteps

\* One that goes on with its locals, to a step that does not rely on them.
LEMMA GoMoves ==
  ASSUME Inv, NEW r \in Requests, NEW step \in FreshSteps, Go(r, step)
  PROVE  Moves(r)
<1>1. [requests[r] EXCEPT !.pc = step] \in RequestLocals
  BY DEF Inv, TypeOK, RequestLocals, FreshSteps, Steps, ApprovalSteps
<1>2. requests \in [Requests -> RequestLocals]
  BY DEF Inv, TypeOK
<1>3. requests'[r].pc = step
  BY <1>2 DEF Go, RequestLocals
<1> QED BY <1>1, <1>2, <1>3 DEF Go, FreshSteps, Moves, Sound, Approving

-----------------------------------------------------------------------------
\* The lock keeps the finalization, and gives the scope's key if there is none.
LEMMA AcquireLockStep ==
  ASSUME Inv, NEW r \in Requests, AcquireLock(r)
  PROVE  AttemptStep /\ attempt'.key = ScopeKey
<1>1. attempt \in AttemptRecord /\ requests[r].winners \in Selections \cup {None}
  BY DEF Inv, TypeOK, RequestLocals
<1>2. IdempotencyKey(r) = ScopeKey
  BY DEF Inv, OneKey, IdempotencyKey
<1>3. attempt' \in AttemptRecord
  BY <1>1, <1>2 DEF AcquireLock, AttemptRecord, States, Keys
<1> QED BY <1>1, <1>2, <1>3 DEF Inv, OneKey, AcquireLock, AttemptStep, AttemptRecord

\* A record of the same finalization and key, that does not say PAYOUT_CONFIRMED
\* or says it of what the chain has paid.
LEMMA PatchStep ==
  ASSUME Inv, NEW new \in AttemptRecord, Patch(new),
         attempt.finalized => new.finalized, new.key = attempt.key,
         new.state = "PAYOUT_CONFIRMED" => escrow = "PAID" /\ new.hash = payout.hash
  PROVE  AttemptStep
BY DEF Inv, TypeOK, OneKey, ConfirmedIsPaid, Patch, AttemptStep

-----------------------------------------------------------------------------
\* The steps of finalizeWinnerSelection keep the invariant.
LEMMA FinalizeInv ==
  ASSUME Inv, NEW r \in Requests,
         \/ \E winners \in Selections : StartFinalize(r, winners)
         \/ LockWinners(r) \/ RecordFinalized(r)
  PROVE  Inv'
<1>1. ASSUME NEW winners \in Selections, StartFinalize(r, winners)
      PROVE  Inv'
  <2>1. Moves(r)
    <3> DEFINE new == [Idle EXCEPT !.pc = "lockWinners", !.winners = winners]
    <3>1. new \in RequestLocals /\ new.pc = "lockWinners" /\ new.winners \in Selections
      BY DEF Idle, RequestLocals, States, Steps, ApprovalSteps
    <3>2. requests' = [requests EXCEPT ![r] = new] /\ requests \in [Requests -> RequestLocals]
      BY <1>1 DEF StartFinalize, Inv, TypeOK
    <3> HIDE DEF new
    <3> QED BY <3>1, <3>2 DEF Moves, Sound, Approving
  <2>2. AttemptStep
    BY <1>1, AttemptKept DEF StartFinalize
  <2>3. /\ DOMAIN circle' = DOMAIN circle
        /\ \A k \in DOMAIN circle : circle'[k] \in CircleChallenge
        /\ cachedFunded' \in BOOLEAN
    BY <1>1 DEF StartFinalize, ReadFunded, Inv, TypeOK, CircleChallenge
  <2> QED BY <1>1, <2>1, <2>2, <2>3, RequestStep DEF StartFinalize
<1>2. CASE LockWinners(r)
  <2>1. CASE AcquireLock(r) /\ GoAfresh(r, "recordFinalized")
    BY <1>2, <2>1, AcquireLockStep, GoAfreshMoves, QuietStep DEF LockWinners, FreshSteps
  <2>2. CASE Finish(r) /\ UNCHANGED attempt
    BY <1>2, <2>2, FinishMoves, AttemptKept, QuietStep DEF LockWinners
  <2> QED BY <1>2, <2>1, <2>2 DEF LockWinners
<1>3. CASE RecordFinalized(r)
  <2> DEFINE new == [attempt EXCEPT !.state = "READY_FOR_FINAL_SELECTION", !.finalized = TRUE]
  <2>1. /\ new \in AttemptRecord /\ new.finalized /\ new.key = attempt.key
        /\ new.state # "PAYOUT_CONFIRMED"
    BY DEF Inv, TypeOK, AttemptRecord, States
  <2>2. Patch(new) /\ Finish(r)
    BY <1>3 DEF RecordFinalized
  <2> HIDE DEF new
  <2> QED BY <1>3, <2>1, <2>2, PatchStep, FinishMoves, QuietStep DEF RecordFinalized
<1> QED BY <1>1, <1>2, <1>3

\* createWinnerPayoutApproval begins with a selection, once the review is over.
LEMMA StartApprovalInv ==
  ASSUME Inv, NEW r \in Requests, NEW winners \in Selections, NEW mode \in ApprovalModes,
         StartApproval(r, winners, mode)
  PROVE  Inv'
<1>1. Moves(r)
  <2>1. requests \in [Requests -> RequestLocals]
    BY DEF Inv, TypeOK
  <2>2. CASE PayoutReady
    <3> DEFINE new == [Idle EXCEPT !.pc = "readAttempt", !.winners = winners, !.mode = mode]
    <3>1. new \in RequestLocals /\ new.pc = "readAttempt" /\ new.winners \in Selections
      BY PayoutConstants DEF PayoutConstants, Idle, RequestLocals, States, Steps, ApprovalSteps
    <3>2. requests' = [requests EXCEPT ![r] = new] /\ reviewOver'
      BY <2>2 DEF StartApproval, PayoutReady, outside
    <3> HIDE DEF new
    <3> QED BY <2>1, <3>1, <3>2 DEF Moves, Sound, Approving
  <2>3. CASE ~PayoutReady
    BY <2>3, GoAfreshMoves DEF StartApproval, GoAfresh, FreshSteps
  <2> QED BY <2>2, <2>3
<1>2. AttemptStep
  BY AttemptKept DEF StartApproval
<1>3. /\ DOMAIN circle' = DOMAIN circle
      /\ \A k \in DOMAIN circle : circle'[k] \in CircleChallenge
      /\ cachedFunded' \in BOOLEAN
  BY DEF StartApproval, ReadFunded, Inv, TypeOK, CircleChallenge
<1> QED BY <1>1, <1>2, <1>3, RequestStep DEF StartApproval

\* Offering a challenge changes its state at most.
LEMMA OfferKeeps ==
  ASSUME Inv, NEW k, Offer(k)
  PROVE  /\ DOMAIN circle' = DOMAIN circle
         /\ \A j \in DOMAIN circle : circle'[j] \in CircleChallenge
<1>1. \A j \in DOMAIN circle : circle[j] \in CircleChallenge
  BY DEF Inv, TypeOK, CircleChallenge
<1> QED BY <1>1 DEF Offer, CircleChallenge

\* Only a request whose winners were finalized goes on to reserve.
LEMMA ReadAttemptInv ==
  ASSUME Inv, NEW r \in Requests, ReadAttempt(r)
  PROVE  Inv'
<1>1. AttemptStep
  BY AttemptKept DEF ReadAttempt
<1>2. CASE Throw(r) /\ UNCHANGED circle
  BY <1>1, <1>2, ThrowMoves, QuietStep DEF ReadAttempt
<1>3. CASE Finish(r) /\ Offer(attempt.approval)
  BY <1>1, <1>3, FinishMoves, OfferKeeps, RequestStep DEF ReadAttempt, Inv, TypeOK
<1>4. CASE MatchesFinalized(r) /\ Finish(r) /\ UNCHANGED circle
  BY <1>1, <1>4, FinishMoves, QuietStep DEF ReadAttempt
<1>5. CASE MatchesFinalized(r) /\ Go(r, "reserve") /\ UNCHANGED circle
  <2>1. /\ requests \in [Requests -> RequestLocals]
        /\ requests[r].winners \in Selections /\ reviewOver
    BY DEF ReadAttempt, At, Inv, TypeOK, Sound
  <2>2. Moves(r)
    <3>1. [requests[r] EXCEPT !.pc = "reserve"] \in RequestLocals
      BY <2>1 DEF RequestLocals, Steps, ApprovalSteps
    <3>2. requests'[r].pc = "reserve" /\ requests'[r].winners = requests[r].winners
      BY <1>5, <2>1 DEF Go, RequestLocals
    <3>3. attempt'.finalized /\ reviewOver'
      BY <1>5, <2>1 DEF ReadAttempt, MatchesFinalized, outside
    <3> QED BY <1>5, <2>1, <3>1, <3>2, <3>3 DEF Go, Moves, Sound, Approving
  <2> QED BY <1>1, <1>5, <2>2, QuietStep DEF ReadAttempt
<1> QED BY <1>2, <1>3, <1>4, <1>5 DEF ReadAttempt

\* The reservation gives the attempt the scope's key.
LEMMA ReserveInv ==
  ASSUME Inv, NEW r \in Requests, Reserve(r)
  PROVE  Inv'
<1>1. CASE Finish(r) /\ UNCHANGED attempt
  BY <1>1, FinishMoves, AttemptKept, QuietStep DEF Reserve
<1>2. CASE /\ AcquireLock(r)
           /\ requests' = [requests EXCEPT ![r].pc = "markReserved", ![r].token = r]
  <2>1. AttemptStep /\ attempt'.key = ScopeKey
    BY <1>2, AcquireLockStep
  <2>2. /\ requests \in [Requests -> RequestLocals]
        /\ requests[r].winners \in Selections /\ reviewOver /\ attempt.finalized
    BY DEF Reserve, At, Inv, TypeOK, Sound, Approving
  <2>3. Moves(r)
    <3> DEFINE q == requests[r]
    <3>0. q \in RequestLocals /\ "markReserved" \in Steps
      BY <2>2 DEF Steps, ApprovalSteps
    <3>1. [q EXCEPT !.pc = "markReserved", !.token = r] \in RequestLocals
      <4> HIDE DEF q
      <4> QED BY <3>0 DEF RequestLocals
    <3>2. requests'[r].pc = "markReserved" /\ requests'[r].winners = requests[r].winners
      BY <1>2, <2>2 DEF RequestLocals
    <3>3. attempt'.finalized /\ reviewOver'
      BY <2>1, <2>2 DEF Reserve, outside, AttemptStep
    <3> QED BY <1>2, <2>1, <2>2, <3>1, <3>2, <3>3 DEF Moves, Sound, Approving
  <2> QED BY <2>1, <2>3, QuietStep DEF Reserve
<1> QED BY <1>1, <1>2 DEF Reserve

\* The owner of the reservation goes on with the attempt's key.
LEMMA MarkReservedInv ==
  ASSUME Inv, NEW r \in Requests, MarkReserved(r)
  PROVE  Inv'
<1>1. CASE Throw(r) /\ UNCHANGED attempt
  BY <1>1, ThrowMoves, AttemptKept, QuietStep DEF MarkReserved
<1>2. CASE /\ attempt' = [attempt EXCEPT !.state = "APPROVAL_CREATION_IN_PROGRESS"]
           /\ Go(r, "openSession")
  <2>1. /\ requests \in [Requests -> RequestLocals] /\ attempt \in AttemptRecord
        /\ requests[r].winners \in Selections /\ reviewOver /\ attempt.finalized
        /\ attempt.key = ScopeKey
    BY DEF MarkReserved, At, Inv, TypeOK, Sound, Approving
  <2>2. /\ attempt' \in AttemptRecord /\ attempt'.key = ScopeKey /\ attempt'.finalized
        /\ attempt'.state # "PAYOUT_CONFIRMED"
    BY <1>2, <2>1 DEF AttemptRecord, States
  <2>3. AttemptStep
    BY <2>1, <2>2 DEF AttemptStep
  <2>4. Moves(r)
    <3>1. [requests[r] EXCEPT !.pc = "openSession"] \in RequestLocals
      BY <2>1 DEF RequestLocals, Steps, ApprovalSteps
    <3>2. requests'[r].pc = "openSession" /\ requests'[r].winners = requests[r].winners
      BY <1>2, <2>1 DEF Go, RequestLocals
    <3>3. reviewOver'
      BY <2>1 DEF MarkReserved, outside
    <3> QED BY <1>2, <2>1, <2>2, <3>1, <3>2, <3>3 DEF Go, Moves, Sound, Approving
  <2> QED BY <2>3, <2>4, QuietStep DEF MarkReserved
<1> QED BY <1>1, <1>2 DEF MarkReserved

\* What is read again has the scope's key.
LEMMA OpenSessionInv ==
  ASSUME Inv, NEW r \in Requests, OpenSession(r)
  PROVE  Inv'
<1>1. /\ requests \in [Requests -> RequestLocals] /\ attempt \in AttemptRecord
      /\ requests[r].winners \in Selections /\ reviewOver /\ attempt.finalized
      /\ attempt.key = ScopeKey
  BY DEF OpenSession, At, Inv, TypeOK, Sound, Approving
<1>2. PICK step \in {"createChallenge", "recordApproval"} :
        requests' = [requests EXCEPT ![r] =
          [@ EXCEPT !.pc = step, !.token = attempt.owner, !.key = attempt.key,
                    !.approval = attempt.approval]]
  BY DEF OpenSession
<1>3. Moves(r)
  <2> DEFINE q == requests[r]
             new == [q EXCEPT !.pc = step, !.token = attempt.owner,
                              !.key = attempt.key, !.approval = attempt.approval]
  <2>0. /\ q \in RequestLocals /\ step \in Steps /\ attempt.owner \in Requests \cup {None}
        /\ attempt.key \in Keys \cup {None} /\ attempt.approval \in Keys \cup {None}
    BY <1>1 DEF Steps, ApprovalSteps, AttemptRecord
  <2>1. new \in RequestLocals
    <3> HIDE DEF q
    <3> QED BY <2>0 DEF RequestLocals
  <2>2. new.pc = step /\ new.key = ScopeKey /\ new.winners = requests[r].winners
    BY <1>1 DEF RequestLocals
  <2>3. requests' = [requests EXCEPT ![r] = new]
    BY <1>2
  <2>4. reviewOver' /\ attempt'.finalized
    BY <1>1 DEF OpenSession, outside
  <2> HIDE DEF new
  <2> QED BY <1>1, <2>1, <2>2, <2>3, <2>4 DEF Moves, Sound, Approving
<1> QED BY <1>3, AttemptKept, QuietStep DEF OpenSession

-----------------------------------------------------------------------------
\* The one step that adds to Circle's challenges: it does so with the key of
\* the scope only, for winners that were selected.
LEMMA CreateChallengeInv ==
  ASSUME Inv, NEW r \in Requests, CreateChallenge(r)
  PROVE  Inv'
<1>1. /\ requests \in [Requests -> RequestLocals]
      /\ requests[r].winners \in Selections /\ reviewOver /\ attempt.finalized
      /\ requests[r].key = ScopeKey
  BY DEF CreateChallenge, At, Inv, TypeOK, Sound, Approving
<1>2. /\ DOMAIN circle' \subseteq {ScopeKey}
      /\ \A k \in DOMAIN circle' : circle'[k] \in CircleChallenge
  <2>1. /\ DOMAIN circle \subseteq {ScopeKey}
        /\ \A k \in DOMAIN circle : circle[k] \in CircleChallenge
    BY DEF Inv, TypeOK, OneKey, CircleChallenge
  <2>2. [state |-> "CREATED", winners |-> requests[r].winners] \in CircleChallenge
    BY <1>1 DEF CircleChallenge
  <2>3. circle' \in {circle, CircleWith(ScopeKey, requests[r].winners)}
    BY <1>1 DEF CreateChallenge
  <2> QED BY <2>1, <2>2, <2>3 DEF CircleWith
<1>3. Moves(r)
  <2>1. CASE Go(r, "recordRejection")
    BY <2>1, GoMoves DEF FreshSteps
  <2>2. CASE requests' = [requests EXCEPT ![r] =
               [@ EXCEPT !.pc = "recordApproval", !.approval = requests[r].key,
                         !.key = None, !.winners = None]]
    <3> DEFINE q == requests[r]
               new == [q EXCEPT !.pc = "recordApproval", !.approval = q.key,
                                !.key = None, !.winners = None]
    <3>0. q \in RequestLocals /\ "recordApproval" \in Steps /\ q.key \in Keys
      BY <1>1 DEF Steps, ApprovalSteps, Keys
    <3>1. new \in RequestLocals /\ new.pc = "recordApproval"
      <4> HIDE DEF q
      <4> QED BY <3>0 DEF RequestLocals
    <3>2. requests' = [requests EXCEPT ![r] = new]
      BY <2>2
    <3> HIDE DEF new
    <3> QED BY <1>1, <3>1, <3>2 DEF Moves, Sound, Approving
  <2> QED BY <2>1, <2>2 DEF CreateChallenge
<1>4. Progress
  BY DEF CreateChallenge, Progress, outside
<1>5. \A s \in Requests : Sound(requests[s])'
  BY <1>3, <1>4, SoundStays DEF Moves
<1>6. TypeOK'
  <2>1. DOMAIN circle' \subseteq Keys
    BY <1>2 DEF Keys
  <2> QED BY <1>2, <1>3, <2>1 DEF Inv, TypeOK, Moves, CreateChallenge, outside, CircleChallenge
<1>7. ApprovalFollowsFinalization'
  BY <1>1 DEF CreateChallenge, outside, ApprovalFollowsFinalization
<1>8. OneKey' /\ PaidHasPayout' /\ ConfirmedIsPaid' /\ EvidenceIsThePayout'
  BY <1>2 DEF Inv, CreateChallenge, outside, OneKey, PaidHasPayout, ConfirmedIsPaid,
              EvidenceIsThePayout
<1> QED BY <1>5, <1>6, <1>7, <1>8 DEF Inv

-----------------------------------------------------------------------------
\* A step that only marks the attempt, and not as PAYOUT_CONFIRMED, keeps the
\* finalization and the key.
LEMMA Marks ==
  ASSUME Inv, NEW state \in States, state # "PAYOUT_CONFIRMED",
         attempt' \in {attempt, [attempt EXCEPT !.state = state]}
  PROVE  AttemptStep
<1>1. attempt \in AttemptRecord /\ attempt.key \in {None, ScopeKey}
  BY DEF Inv, TypeOK, OneKey
<1>2. CASE attempt' = attempt
  BY <1>2, AttemptKept
<1>3. CASE attempt' = [attempt EXCEPT !.state = state]
  <2>1. /\ attempt' \in AttemptRecord /\ attempt'.finalized = attempt.finalized
        /\ attempt'.key = attempt.key /\ attempt'.state # "PAYOUT_CONFIRMED"
    BY <1>1, <1>3 DEF AttemptRecord
  <2> QED BY <1>1, <2>1 DEF AttemptStep
<1> QED BY <1>2, <1>3

\* The same of a step that stores the approval's id.
LEMMA Approves ==
  ASSUME Inv, NEW state \in States, state # "PAYOUT_CONFIRMED", NEW r \in Requests,
         attempt' = [attempt EXCEPT !.state = state, !.approval = requests[r].approval]
  PROVE  AttemptStep
<1>1. /\ attempt \in AttemptRecord /\ attempt.key \in {None, ScopeKey}
      /\ requests[r].approval \in Keys \cup {None}
  BY DEF Inv, TypeOK, OneKey, RequestLocals
<1>2. /\ attempt' \in AttemptRecord /\ attempt'.finalized = attempt.finalized
      /\ attempt'.key = attempt.key /\ attempt'.state # "PAYOUT_CONFIRMED"
  BY <1>1 DEF AttemptRecord
<1> QED BY <1>1, <1>2 DEF AttemptStep

\* A rejected creation is recorded by the owner, and says nothing of a payout.
LEMMA RecordRejectionInv ==
  ASSUME Inv, NEW r \in Requests, RecordRejection(r)
  PROVE  Inv'
<1>1. "FINALIZATION_FAILED" \in States
  BY DEF States
<1>2. AttemptStep
  BY <1>1, Marks DEF RecordRejection
<1> QED BY <1>2, ThrowMoves, QuietStep DEF RecordRejection

\* The approval's id is stored and the challenge offered.
LEMMA RecordApprovalInv ==
  ASSUME Inv, NEW r \in Requests, RecordApproval(r)
  PROVE  Inv'
<1>1. "ACTION_REQUIRED" \in States
  BY DEF States
<1>2. AttemptStep
  BY <1>1, Approves, AttemptKept DEF RecordApproval
<1>3. CASE Finish(r) /\ Offer(requests[r].approval)
  BY <1>2, <1>3, FinishMoves, OfferKeeps, RequestStep DEF RecordApproval, Inv, TypeOK
<1>4. CASE Go(r, "recordRecovery") /\ UNCHANGED circle
  BY <1>2, <1>4, GoMoves, QuietStep DEF RecordApproval, FreshSteps
<1> QED BY <1>3, <1>4 DEF RecordApproval

\* The second try at storing it.
LEMMA RecordRecoveryInv ==
  ASSUME Inv, NEW r \in Requests, RecordRecovery(r)
  PROVE  Inv'
<1>1. "APPROVAL_CREATED_RECONCILIATION_REQUIRED" \in States
  BY DEF States
<1>2. AttemptStep
  BY <1>1, Approves, AttemptKept DEF RecordRecovery
<1> QED BY <1>2, ThrowMoves, QuietStep DEF RecordRecovery

\* The catch block marks the attempt as failed.
LEMMA MarkFailedInv ==
  ASSUME Inv, NEW r \in Requests, MarkFailed(r)
  PROVE  Inv'
<1>1. "FINALIZATION_FAILED" \in States
  BY DEF States
<1>2. AttemptStep
  BY <1>1, Marks DEF MarkFailed, Patch
<1> QED BY <1>2, FinishMoves, QuietStep DEF MarkFailed

-----------------------------------------------------------------------------
\* The steps that ask Circle for the payout's status.
LEMMA StartStatusInv ==
  ASSUME Inv, NEW r \in Requests, StartStatus(r)
  PROVE  Inv'
<1>1. requests \in [Requests -> RequestLocals] /\ attempt \in AttemptRecord
  BY DEF Inv, TypeOK
<1>2. PICK step \in {"askChallenge", "askTransaction"}, approval \in Keys \cup {None},
           tx \in Keys \cup {None} :
        requests' = [requests EXCEPT ![r] =
          [Idle EXCEPT !.pc = step, !.approval = approval, !.tx = tx]]
  BY <1>1 DEF StartStatus, AttemptRecord
<1>3. Moves(r)
  <2> DEFINE new == [Idle EXCEPT !.pc = step, !.approval = approval, !.tx = tx]
  <2>1. new \in RequestLocals /\ new.pc = step
    BY DEF Idle, RequestLocals, Steps, States
  <2>2. requests' = [requests EXCEPT ![r] = new]
    BY <1>2
  <2> HIDE DEF new
  <2> QED BY <1>1, <2>1, <2>2 DEF Moves, Sound, Approving
<1> QED BY <1>3, AttemptKept, QuietStep DEF StartStatus

\* The challenge's state is asked for; a denied one ends the attempt.
LEMMA AskChallengeInv ==
  ASSUME Inv, NEW r \in Requests, AskChallenge(r)
  PROVE  Inv'
<1> DEFINE k == requests[r].approval
<1>1. /\ requests \in [Requests -> RequestLocals] /\ attempt \in AttemptRecord
      /\ k \in Keys \cup {None}
  BY DEF Inv, TypeOK, RequestLocals
<1>2. CASE Finish(r) /\ UNCHANGED attempt
  BY <1>2, FinishMoves, AttemptKept, QuietStep DEF AskChallenge
<1>3. CASE /\ Patch([attempt EXCEPT !.state = "FINALIZATION_FAILED", !.tx = None])
           /\ Finish(r)
  <2> DEFINE new == [attempt EXCEPT !.state = "FINALIZATION_FAILED", !.tx = None]
  <2>1. /\ new \in AttemptRecord /\ new.finalized = attempt.finalized
        /\ new.key = attempt.key /\ new.state # "PAYOUT_CONFIRMED"
    BY <1>1 DEF AttemptRecord, States
  <2>2. Patch(new)
    BY <1>3
  <2> HIDE DEF new
  <2> QED BY <1>3, <2>1, <2>2, PatchStep, FinishMoves, QuietStep DEF AskChallenge
<1>4. CASE /\ Patch([attempt EXCEPT !.tx = k])
           /\ requests' = [requests EXCEPT ![r] = [Idle EXCEPT !.pc = "askTransaction", !.tx = k]]
  <2>1. AttemptStep
    <3> DEFINE new == [attempt EXCEPT !.tx = k]
    <3>1. /\ new \in AttemptRecord /\ new.finalized = attempt.finalized
          /\ new.key = attempt.key /\ new.state = attempt.state /\ new.hash = attempt.hash
      BY <1>1 DEF AttemptRecord
    <3>2. Patch(new)
      BY <1>4
    <3> HIDE DEF new
    <3> QED BY <3>1, <3>2, PatchStep DEF Inv, ConfirmedIsPaid
  <2>2. Moves(r)
    <3> DEFINE new == [Idle EXCEPT !.pc = "askTransaction", !.tx = k]
    <3>1. new \in RequestLocals /\ new.pc = "askTransaction"
      BY <1>1 DEF Idle, RequestLocals, Steps, States
    <3>2. requests' = [requests EXCEPT ![r] = new]
      BY <1>4
    <3> HIDE DEF new
    <3> QED BY <1>1, <3>1, <3>2 DEF Moves, Sound, Approving
  <2> QED BY <2>1, <2>2, QuietStep DEF AskChallenge
<1> QED BY <1>2, <1>3, <1>4 DEF AskChallenge

\* What Circle says of a transaction is never PAYOUT_CONFIRMED.
LEMMA AskTransactionInv ==
  ASSUME Inv, NEW r \in Requests, AskTransaction(r)
  PROVE  Inv'
<1>1. requests \in [Requests -> RequestLocals] /\ requests[r].tx \in Keys \cup {None}
  BY DEF Inv, TypeOK, RequestLocals
<1>2. PICK hash \in Hashes \cup {None}, verdict \in States \ {"PAYOUT_CONFIRMED"} :
        requests' = [requests EXCEPT ![r] =
          [@ EXCEPT !.pc = "recordTransaction", !.hash = hash, !.verdict = verdict]]
  <2> DEFINE state == circle[requests[r].tx].state
             verdict == CASE state = "FAILED" -> "FINALIZATION_FAILED"
                          [] state = "CONFIRMED" -> "TRANSACTION_SUBMITTED"
                          [] OTHER -> "FINALIZATION_IN_PROGRESS"
  <2>1. verdict \in States \ {"PAYOUT_CONFIRMED"}
    BY DEF States
  <2>2. PICK hash \in {None, requests[r].tx} :
          requests' = [requests EXCEPT ![r] =
            [@ EXCEPT !.pc = "recordTransaction", !.hash = hash, !.verdict = verdict]]
    BY DEF AskTransaction
  <2>3. hash \in Hashes \cup {None}
    BY <1>1 DEF Hashes
  <2> HIDE DEF verdict
  <2> QED BY <2>1, <2>2, <2>3
<1>3. Moves(r)
  <2> DEFINE q == requests[r]
             new == [q EXCEPT !.pc = "recordTransaction", !.hash = hash, !.verdict = verdict]
  <2>1. q \in RequestLocals /\ "recordTransaction" \in Steps
    BY <1>1 DEF Steps
  <2>2. new \in RequestLocals /\ new.pc = "recordTransaction" /\ new.verdict = verdict
    <3> HIDE DEF q
    <3> QED BY <2>1 DEF RequestLocals
  <2>3. requests' = [requests EXCEPT ![r] = new]
    BY <1>2
  <2> HIDE DEF new
  <2> QED BY <1>1, <2>2, <2>3 DEF Moves, Sound, Approving
<1> QED BY <1>3, AttemptKept, QuietStep DEF AskTransaction

\* Nor is what is recorded of it.
LEMMA RecordTransactionInv ==
  ASSUME Inv, NEW r \in Requests, RecordTransaction(r)
  PROVE  Inv'
<1>1. /\ requests \in [Requests -> RequestLocals] /\ attempt \in AttemptRecord
      /\ requests[r] \in RequestLocals
      /\ requests[r].verdict # "PAYOUT_CONFIRMED"
  BY DEF RecordTransaction, At, Inv, TypeOK, Sound
<1>2. AttemptStep
  <2> DEFINE new == [attempt EXCEPT !.state = requests[r].verdict, !.tx = requests[r].tx,
                                    !.hash = requests[r].hash]
  <2>1. /\ new \in AttemptRecord /\ new.finalized = attempt.finalized
        /\ new.key = attempt.key /\ new.state # "PAYOUT_CONFIRMED"
    BY <1>1 DEF AttemptRecord, RequestLocals
  <2>2. Patch(new)
    BY DEF RecordTransaction
  <2> HIDE DEF new
  <2> QED BY <2>1, <2>2, PatchStep
<1>3. Moves(r)
  <2>1. CASE requests[r].hash = None
    BY <2>1, FinishMoves DEF RecordTransaction, Finish
  <2>2. CASE requests[r].hash # None
    <3> DEFINE new == [Idle EXCEPT !.pc = "resolveFinalized", !.hash = requests[r].hash]
    <3>1. new \in RequestLocals /\ new.pc = "resolveFinalized"
      BY <1>1 DEF Idle, RequestLocals, Steps, States
    <3>2. requests' = [requests EXCEPT ![r] = new]
      BY <2>2 DEF RecordTransaction
    <3> HIDE DEF new
    <3> QED BY <1>1, <3>1, <3>2 DEF Moves, Sound, Approving
  <2> QED BY <2>1, <2>2
<1> QED BY <1>2, <1>3, QuietStep DEF RecordTransaction

-----------------------------------------------------------------------------
\* A reconciliation starts with what the attempt says, and relies on none of it.
LEMMA ResolveMoves ==
  ASSUME Inv, NEW r \in Requests, NEW hash \in Hashes \cup {None}, Resolve(r, hash)
  PROVE  Moves(r)
<1>1. requests \in [Requests -> RequestLocals] /\ attempt \in AttemptRecord
  BY DEF Inv, TypeOK
<1> DEFINE new == [Idle EXCEPT !.pc = "readReceipt", !.winners = attempt.winners,
                     !.approval = attempt.approval, !.tx = attempt.tx,
                     !.hash = HashToCheck(hash)]
<1>2. /\ attempt.winners \in Selections \cup {None} /\ attempt.approval \in Keys \cup {None}
      /\ attempt.tx \in Keys \cup {None} /\ HashToCheck(hash) \in Hashes \cup {None}
  BY <1>1 DEF AttemptRecord, HashToCheck
<1>3. new \in RequestLocals /\ new.pc = "readReceipt"
  BY <1>2 DEF Idle, RequestLocals, Steps, States
<1>4. requests' = [requests EXCEPT ![r] = new]
  BY DEF Resolve
<1> HIDE DEF new
<1> QED BY <1>1, <1>3, <1>4 DEF Moves, Sound, Approving

\* A reconciliation asked for by a client, with or without a hash.
LEMMA StartReconcileInv ==
  ASSUME Inv, NEW r \in Requests, NEW hash \in ClientHashes, StartReconcile(r, hash)
  PROVE  Inv'
<1>1. hash \in Hashes \cup {None}
  BY PayoutConstants DEF PayoutConstants, Hashes, Keys
<1> QED BY <1>1, ResolveMoves, AttemptKept, QuietStep DEF StartReconcile

\* A reconciliation that follows a status request.
LEMMA ResolveFinalizedInv ==
  ASSUME Inv, NEW r \in Requests, ResolveFinalized(r)
  PROVE  Inv'
<1>1. requests[r].hash \in Hashes \cup {None}
  BY DEF Inv, TypeOK, RequestLocals
<1>2. Moves(r)
  BY <1>1, ResolveMoves, FinishMoves DEF ResolveFinalized
<1> QED BY <1>2, AttemptKept, QuietStep DEF ResolveFinalized

\* The verdict PAYOUT_CONFIRMED stands for what the receipt said, and the chain
\* does not take a payout back.
LEMMA ReadReceiptInv ==
  ASSUME Inv, NEW r \in Requests, ReadReceipt(r)
  PROVE  Inv'
<1>1. CASE Finish(r)
  BY <1>1, FinishMoves, AttemptKept, QuietStep DEF ReadReceipt
<1>2. ASSUME NEW verdict \in {"PAYOUT_CONFIRMED", "RECONCILIATION_REQUIRED"},
             verdict = "PAYOUT_CONFIRMED" => Verified(r),
             requests' = [requests EXCEPT ![r].pc = "recordVerdict", ![r].verdict = verdict]
      PROVE  Inv'
  <2> DEFINE q == requests[r]
             new == [q EXCEPT !.pc = "recordVerdict", !.verdict = verdict]
  <2>1. /\ requests \in [Requests -> RequestLocals] /\ q \in RequestLocals
        /\ "recordVerdict" \in Steps /\ verdict \in States
    BY <1>2 DEF Inv, TypeOK, Steps, States
  <2>2. /\ new \in RequestLocals /\ new.pc = "recordVerdict" /\ new.verdict = verdict
        /\ new.hash = q.hash /\ new.winners = q.winners
    <3> HIDE DEF q
    <3> QED BY <2>1 DEF RequestLocals
  <2>3. requests' = [requests EXCEPT ![r] = new]
    BY <1>2, <2>1
  <2>4. verdict = "PAYOUT_CONFIRMED" =>
          escrow' = "PAID" /\ payout' = [hash |-> new.hash, winners |-> new.winners]
    <3> SUFFICES ASSUME verdict = "PAYOUT_CONFIRMED"
                 PROVE  escrow' = "PAID" /\ payout' = [hash |-> new.hash, winners |-> new.winners]
      OBVIOUS
    <3>1. escrow = "PAID" /\ payout.hash = q.hash /\ payout.winners = q.winners
      BY <1>2 DEF Verified
    <3>2. payout \in Payouts
      BY <3>1 DEF Inv, PaidHasPayout
    <3>3. escrow' = "PAID" /\ payout' = payout
      BY <3>1 DEF ReadReceipt, outside
    <3> HIDE DEF new, q
    <3> QED BY <2>2, <3>1, <3>2, <3>3 DEF Payouts
  <2>5. Moves(r)
    <3> HIDE DEF new, q
    <3> QED BY <2>1, <2>2, <2>3, <2>4 DEF Moves, Sound, Approving
  <2> QED BY <2>5, AttemptKept, QuietStep DEF ReadReceipt
<1>3. CASE requests' = [requests EXCEPT ![r].pc = "recordVerdict",
             ![r].verdict = IF Verified(r) THEN "PAYOUT_CONFIRMED" ELSE "RECONCILIATION_REQUIRED"]
  <2>1. CASE Verified(r)
    BY <1>2, <1>3, <2>1
  <2>2. CASE ~Verified(r)
    BY <1>2, <1>3, <2>2
  <2> QED BY <2>1, <2>2
<1> QED BY <1>1, <1>3 DEF ReadReceipt

\* The verdict that is recorded was true when the receipt was read, and still is.
LEMMA RecordVerdictInv ==
  ASSUME Inv, NEW r \in Requests, RecordVerdict(r)
  PROVE  Inv'
<1> DEFINE q == requests[r]
<1>1. /\ requests \in [Requests -> RequestLocals] /\ attempt \in AttemptRecord
      /\ q \in RequestLocals
      /\ q.verdict = "PAYOUT_CONFIRMED" =>
           escrow = "PAID" /\ payout = [hash |-> q.hash, winners |-> q.winners]
  BY DEF RecordVerdict, At, Inv, TypeOK, Sound
<1>2. AttemptStep
  <2> DEFINE new == [attempt EXCEPT !.state = q.verdict, !.hash = q.hash,
                                    !.approval = q.approval, !.tx = q.tx]
  <2>1. /\ new \in AttemptRecord /\ new.finalized = attempt.finalized
        /\ new.key = attempt.key /\ new.state = q.verdict /\ new.hash = q.hash
    <3> HIDE DEF q
    <3> QED BY <1>1 DEF AttemptRecord, RequestLocals
  <2>2. Patch(new)
    BY DEF RecordVerdict
  <2>3. new.state = "PAYOUT_CONFIRMED" => escrow = "PAID" /\ new.hash = payout.hash
    BY <1>1, <2>1
  <2> HIDE DEF new
  <2> QED BY <2>1, <2>2, <2>3, PatchStep
<1>3. Moves(r)
  <2>1. CASE q.verdict # "PAYOUT_CONFIRMED"
    BY <2>1, FinishMoves DEF RecordVerdict, Finish
  <2>2. CASE q.verdict = "PAYOUT_CONFIRMED"
    <3> DEFINE new == [Idle EXCEPT !.pc = "persistEvidence", !.winners = q.winners,
                                   !.hash = q.hash]
    <3>1. /\ new \in RequestLocals /\ new.pc = "persistEvidence"
          /\ new.hash = q.hash /\ new.winners = q.winners
      <4> HIDE DEF q
      <4> QED BY <1>1 DEF Idle, RequestLocals, Steps, States
    <3>2. requests' = [requests EXCEPT ![r] = new]
      BY <2>2 DEF RecordVerdict
    <3>3. escrow' = "PAID" /\ payout' = [hash |-> new.hash, winners |-> new.winners]
      BY <1>1, <2>2, <3>1 DEF RecordVerdict, outside
    <3> HIDE DEF new, q
    <3> QED BY <1>1, <3>1, <3>2, <3>3 DEF Moves, Sound, Approving
  <2> QED BY <2>1, <2>2
<1> QED BY <1>2, <1>3, QuietStep DEF RecordVerdict

\* What the chain paid is what is recorded, and a record stays one.
LEMMA PersistEvidenceInv ==
  ASSUME Inv, NEW r \in Requests, PersistEvidence(r)
  PROVE  Inv'
<1>1. CASE Finish(r) /\ UNCHANGED evidence
  BY <1>1, FinishMoves, AttemptKept, QuietStep DEF PersistEvidence
<1>2. CASE /\ evidence' = [hash |-> requests[r].hash, winners |-> requests[r].winners]
           /\ GoAfresh(r, "completeSettlement")
  <2>1. escrow = "PAID" /\ payout = [hash |-> requests[r].hash, winners |-> requests[r].winners]
    BY DEF PersistEvidence, At, Inv, Sound
  <2>2. payout \in Payouts /\ None \notin Payouts
    BY <2>1, PayoutConstants DEF Inv, PaidHasPayout, PayoutConstants, Payouts, Keys
  <2>3. evidence' = payout' /\ evidence' # None /\ escrow' = "PAID" /\ payout' \in Payouts
    BY <1>2, <2>1, <2>2 DEF PersistEvidence, outside
  <2>4. Moves(r)
    <3> DEFINE new == [Idle EXCEPT !.pc = "completeSettlement"]
    <3>1. new \in RequestLocals /\ new.pc = "completeSettlement"
      BY DEF Idle, RequestLocals, Steps, States
    <3>2. requests' = [requests EXCEPT ![r] = new] /\ requests \in [Requests -> RequestLocals]
      BY <1>2 DEF GoAfresh, Inv, TypeOK
    <3> HIDE DEF new
    <3> QED BY <2>3, <3>1, <3>2 DEF Moves, Sound, Approving
  <2>5. Progress
    BY <2>3 DEF PersistEvidence, Progress, outside
  <2>6. \A s \in Requests : Sound(requests[s])'
    BY <2>4, <2>5, SoundStays DEF Moves
  <2>7. TypeOK'
    <3>1. evidence' \in [hash : Hashes, winners : Selections]
      BY <2>3 DEF Payouts, Hashes
    <3> QED BY <2>4, <3>1 DEF Inv, TypeOK, Moves, PersistEvidence, outside
  <2>8. OneKey' /\ PaidHasPayout' /\ ConfirmedIsPaid' /\ ApprovalFollowsFinalization'
    BY DEF Inv, PersistEvidence, outside, OneKey, PaidHasPayout, ConfirmedIsPaid,
           ApprovalFollowsFinalization
  <2>9. EvidenceIsThePayout'
    BY <2>3 DEF EvidenceIsThePayout
  <2> QED BY <2>6, <2>7, <2>8, <2>9 DEF Inv
<1> QED BY <1>1, <1>2 DEF PersistEvidence

\* The lifecycle event follows the evidence.
LEMMA CompleteSettlementInv ==
  ASSUME Inv, NEW r \in Requests, CompleteSettlement(r)
  PROVE  Inv'
<1>1. evidence # None
  BY DEF CompleteSettlement, At, Inv, Sound
<1>2. Moves(r)
  BY FinishMoves DEF CompleteSettlement
<1>3. Progress
  BY DEF CompleteSettlement, Progress, outside
<1>4. \A s \in Requests : Sound(requests[s])'
  BY <1>2, <1>3, SoundStays DEF Moves
<1>5. TypeOK'
  BY <1>2 DEF Inv, TypeOK, Moves, CompleteSettlement, outside
<1>6. /\ OneKey' /\ PaidHasPayout' /\ ConfirmedIsPaid' /\ ApprovalFollowsFinalization'
      /\ EvidenceIsThePayout'
  BY <1>1 DEF Inv, CompleteSettlement, outside, OneKey, PaidHasPayout, ConfirmedIsPaid,
         ApprovalFollowsFinalization, EvidenceIsThePayout
<1> QED BY <1>4, <1>5, <1>6 DEF Inv

\* A request that is cut off leaves everything as it is.
LEMMA AbortInv ==
  ASSUME Inv, NEW r \in Requests, Abort(r)
  PROVE  Inv'
BY FinishMoves, ThrowMoves, AttemptKept, QuietStep DEF Abort

-----------------------------------------------------------------------------
\* The environment leaves the requests and the attempt alone.
LEMMA EnvironmentInv ==
  ASSUME Inv, UNCHANGED <<attempt, requests, evidence, settled>>, Progress,
         DOMAIN circle' = DOMAIN circle,
         \A k \in DOMAIN circle : circle'[k] \in CircleChallenge,
         cachedFunded' \in BOOLEAN, reviewOver' \in BOOLEAN,
         escrow' \in {"FUNDED", "PAID", "REFUNDED"},
         payout' \in Payouts \cup {None}, escrow' = "PAID" => payout' \in Payouts
  PROVE  Inv'
<1>1. \A s \in Requests : Sound(requests[s])'
  BY SoundStays
<1>2. TypeOK'
  BY DEF Inv, TypeOK, CircleChallenge, Payouts
<1>3. OneKey' /\ PaidHasPayout' /\ ApprovalFollowsFinalization'
  BY DEF Inv, OneKey, PaidHasPayout, ApprovalFollowsFinalization, Progress
<1>4. ConfirmedIsPaid' /\ EvidenceIsThePayout'
  BY DEF Inv, ConfirmedIsPaid, EvidenceIsThePayout, Progress
<1> QED BY <1>1, <1>2, <1>3, <1>4 DEF Inv

\* Circle's user, the chain and the clock.
LEMMA OutsideInv ==
  ASSUME Inv,
         \/ \E k \in DOMAIN circle :
              \/ \E state \in {"SENT", "DENIED"} : Decide(k, state)
              \/ Mine(k) \/ Report(k)
         \/ Refund \/ EndReview \/ CacheExpires
  PROVE  Inv'
<1>1. /\ \A k \in DOMAIN circle : circle[k] \in CircleChallenge
      /\ DOMAIN circle \subseteq Keys
      /\ cachedFunded \in BOOLEAN /\ reviewOver \in BOOLEAN
      /\ escrow \in {"FUNDED", "PAID", "REFUNDED"} /\ payout \in Payouts \cup {None}
      /\ escrow = "PAID" => payout \in Payouts
  BY DEF Inv, TypeOK, CircleChallenge, Payouts, PaidHasPayout
<1>2. ASSUME NEW k \in DOMAIN circle, NEW state \in {"SENT", "DENIED"}, Decide(k, state)
      PROVE  Inv'
  <2>1. /\ DOMAIN circle' = DOMAIN circle
        /\ \A j \in DOMAIN circle : circle'[j] \in CircleChallenge
    BY <1>1, <1>2 DEF Decide, CircleChallenge
  <2> QED BY <1>1, <1>2, <2>1, EnvironmentInv DEF Decide, outside, Progress
<1>3. ASSUME NEW k \in DOMAIN circle, Mine(k)
      PROVE  Inv'
  <2>1. /\ DOMAIN circle' = DOMAIN circle
        /\ \A j \in DOMAIN circle : circle'[j] \in CircleChallenge
    BY <1>1, <1>3 DEF Mine, CircleChallenge
  <2>2. payout' \in Payouts
    BY <1>1, <1>3 DEF Mine, CircleChallenge, Payouts
  <2> QED BY <1>1, <1>3, <2>1, <2>2, EnvironmentInv DEF Mine, Progress
<1>4. ASSUME NEW k \in DOMAIN circle, Report(k)
      PROVE  Inv'
  <2>1. /\ DOMAIN circle' = DOMAIN circle
        /\ \A j \in DOMAIN circle : circle'[j] \in CircleChallenge
    BY <1>1, <1>4 DEF Report, CircleChallenge
  <2> QED BY <1>1, <1>4, <2>1, EnvironmentInv DEF Report, outside, Progress
<1>5. CASE Refund
  BY <1>1, <1>5, EnvironmentInv DEF Refund, Progress
<1>6. CASE EndReview
  BY <1>1, <1>6, EnvironmentInv DEF EndReview, Progress
<1>7. CASE CacheExpires
  BY <1>1, <1>7, EnvironmentInv DEF CacheExpires, outside, Progress
<1> QED BY <1>2, <1>3, <1>4, <1>5, <1>6, <1>7

-----------------------------------------------------------------------------
\* Each step of a request under way keeps the invariant.
LEMMA ContinueInv ==
  ASSUME Inv, NEW r \in Requests, Continue(r)
  PROVE  Inv'
BY FinalizeInv, ReadAttemptInv, ReserveInv, MarkReservedInv, OpenSessionInv,
   CreateChallengeInv, RecordRejectionInv, RecordApprovalInv, RecordRecoveryInv,
   MarkFailedInv, AskChallengeInv, AskTransactionInv, RecordTransactionInv,
   ResolveFinalizedInv, ReadReceiptInv, RecordVerdictInv, PersistEvidenceInv,
   CompleteSettlementInv DEF Continue

\* Every step keeps the invariant.
LEMMA NextInv == Inv /\ [Next]_vars => Inv'
<1> SUFFICES ASSUME Inv, [Next]_vars PROVE Inv'
  OBVIOUS
<1>1. ASSUME NEW r \in Requests, Continue(r) \/ Abort(r) \/ StartStatus(r)
      PROVE  Inv'
  BY <1>1, ContinueInv, AbortInv, StartStatusInv
<1>2. ASSUME NEW r \in Requests, NEW winners \in Selections,
             \/ StartFinalize(r, winners)
             \/ \E mode \in ApprovalModes : StartApproval(r, winners, mode)
      PROVE  Inv'
  BY <1>2, FinalizeInv, StartApprovalInv
<1>3. ASSUME NEW r \in Requests, NEW hash \in ClientHashes, StartReconcile(r, hash)
      PROVE  Inv'
  BY <1>3, StartReconcileInv
<1>4. CASE \/ \E k \in DOMAIN circle :
                \/ \E state \in {"SENT", "DENIED"} : Decide(k, state)
                \/ Mine(k) \/ Report(k)
           \/ Refund \/ EndReview \/ CacheExpires
  BY <1>4, OutsideInv
<1>5. CASE UNCHANGED vars
  <2>1. Progress
    BY <1>5 DEF vars, outside, Progress
  <2> QED BY <1>5, <2>1, EnvironmentInv
       DEF vars, outside, Inv, TypeOK, CircleChallenge, Payouts, PaidHasPayout
<1> QED BY <1>1, <1>2, <1>3, <1>4, <1>5 DEF Next

\* The strengthened invariant holds of every behaviour.
THEOREM InvHolds == Spec => []Inv
BY InitInv, NextInv, PTL DEF Spec

\* Every variable keeps its type.
THEOREM TypeCorrect == Spec => []TypeOK
<1>1. Inv => TypeOK
  BY DEF Inv
<1> QED BY <1>1, InvHolds, PTL

\* However many requests overlap, fail and are repeated, Circle is asked for one
\* approval of a challenge's payout.
THEOREM OneApproval == Spec => []AtMostOneApproval
<1>1. Inv => AtMostOneApproval
  BY DEF Inv, OneKey, AtMostOneApproval
<1> QED BY <1>1, InvHolds, PTL

\* That approval exists only for finalized winners, after the review deadline.
THEOREM ApprovalIsNotEarly == Spec => []ApprovalFollowsFinalization
<1>1. Inv => ApprovalFollowsFinalization
  BY DEF Inv
<1> QED BY <1>1, InvHolds, PTL

\* PAYOUT_CONFIRMED is recorded only of the transaction that paid the challenge.
THEOREM ConfirmationIsTrue == Spec => []ConfirmedIsPaid
<1>1. Inv => ConfirmedIsPaid
  BY DEF Inv
<1> QED BY <1>1, InvHolds, PTL

\* The settlement evidence is the payout the contract made.
THEOREM EvidenceIsTrue == Spec => []EvidenceIsThePayout
<1>1. Inv => EvidenceIsThePayout
  BY DEF Inv
<1> QED BY <1>1, InvHolds, PTL

-----------------------------------------------------------------------------
\* What each step does to the finalization and the key, seen alone.
LEMMA KeepsFinalization ==
  ASSUME Inv, [Next]_vars
  PROVE  /\ attempt.finalized => attempt'.finalized
         /\ attempt.key # None => attempt'.key = attempt.key
<1>0. attempt \in AttemptRecord
  BY DEF Inv, TypeOK
<1>1. CASE UNCHANGED attempt
  BY <1>1
<1>2. ASSUME NEW r \in Requests, AcquireLock(r)
      PROVE  /\ attempt.finalized => attempt'.finalized
             /\ attempt.key # None => attempt'.key = attempt.key
  BY <1>2, AcquireLockStep DEF AttemptStep
<1>3. ASSUME NEW r \in Requests,
             \/ MarkReserved(r) \/ RecordRejection(r) \/ RecordApproval(r)
             \/ RecordRecovery(r) \/ RecordFinalized(r) \/ MarkFailed(r)
      PROVE  /\ attempt.finalized => attempt'.finalized
             /\ attempt.key # None => attempt'.key = attempt.key
  BY <1>0, <1>3 DEF MarkReserved, RecordRejection, RecordApproval, RecordRecovery,
                    RecordFinalized, MarkFailed, Patch, AttemptRecord
<1>4. ASSUME NEW r \in Requests,
             AskChallenge(r) \/ RecordTransaction(r) \/ RecordVerdict(r)
      PROVE  /\ attempt.finalized => attempt'.finalized
             /\ attempt.key # None => attempt'.key = attempt.key
  BY <1>0, <1>4 DEF AskChallenge, RecordTransaction, RecordVerdict, Patch, AttemptRecord
<1>5. ASSUME NEW r \in Requests, LockWinners(r) \/ Reserve(r)
      PROVE  AcquireLock(r) \/ UNCHANGED attempt
  BY <1>5 DEF LockWinners, Reserve
<1>6. ASSUME NEW r \in Requests,
             \/ ReadAttempt(r) \/ OpenSession(r) \/ CreateChallenge(r)
             \/ AskTransaction(r) \/ ResolveFinalized(r) \/ ReadReceipt(r)
             \/ PersistEvidence(r) \/ CompleteSettlement(r)
      PROVE  UNCHANGED attempt
  BY <1>6 DEF ReadAttempt, OpenSession, CreateChallenge, AskTransaction, ResolveFinalized,
              ReadReceipt, PersistEvidence, CompleteSettlement
<1>7. ASSUME NEW r \in Requests,
             \/ Abort(r) \/ StartStatus(r)
             \/ \E winners \in Selections :
                  \/ StartFinalize(r, winners)
                  \/ \E mode \in ApprovalModes : StartApproval(r, winners, mode)
             \/ \E hash \in ClientHashes : StartReconcile(r, hash)
      PROVE  UNCHANGED attempt
  BY <1>7 DEF Abort, StartStatus, StartFinalize, StartApproval, StartReconcile
<1>8. CASE \/ \E k \in DOMAIN circle :
                \/ \E state \in {"SENT", "DENIED"} : Decide(k, state)
                \/ Mine(k) \/ Report(k)
           \/ Refund \/ EndReview \/ CacheExpires
  BY <1>1, <1>8 DEF Decide, Mine, Report, Refund, EndReview, CacheExpires
<1>9. CASE UNCHANGED vars
  BY <1>1, <1>9 DEF vars
<1> QED BY <1>1, <1>2, <1>3, <1>4, <1>5, <1>6, <1>7, <1>8, <1>9 DEF Next, Continue

\* No request undoes a finalization or changes the key Circle knows.
THEOREM FinalizationStays == Spec => FinalizedForGood
<1>1. Inv /\ [Next]_vars =>
        [/\ attempt.finalized => attempt'.finalized
         /\ attempt.key # None => attempt'.key = attempt.key]_vars
  BY KeepsFinalization
<1> QED BY <1>1, InvHolds, PTL DEF Spec, FinalizedForGood

-----------------------------------------------------------------------------
\* When requests are handled one at a time, what one has read is what the
\* record still says when it writes.
OneAtATime == \A r, s \in Requests : r = s

Current(q) ==
  /\ q.pc \in {"lockWinners", "recordFinalized"} => ~attempt.finalized
  /\ q.pc = "recordFinalized" => attempt.winners \in Selections
  /\ q.pc \in Approving => attempt.winners = q.winners
  /\ q.pc \in {"recordApproval", "recordRecovery"} => q.approval = ScopeKey
  /\ q.pc \in {"readReceipt", "recordVerdict"} => q.approval = attempt.approval

AloneInv ==
  /\ RecordMatchesApproval
  /\ attempt.finalized => attempt.winners \in Selections
  /\ attempt.approval \in {None, ScopeKey}
  /\ escrow = "PAID" =>
       /\ payout.winners = attempt.winners
       /\ ScopeKey \in DOMAIN circle /\ circle[ScopeKey].state \in {"MINED", "CONFIRMED"}
  /\ \A r \in Requests : Current(requests[r])

\* The steps at which nothing is asked of the record.
LooseSteps == {"idle", "readAttempt", "markFailed", "recordRejection", "askChallenge",
               "askTransaction", "recordTransaction", "resolveFinalized", "persistEvidence",
               "completeSettlement"}

LEMMA LooseCurrent ==
  ASSUME NEW r \in Requests, requests'[r].pc \in LooseSteps
  PROVE  Current(requests[r])'
BY DEF LooseSteps, Current, Approving

\* Where a request is after each of the usual ways to go on.
LEMMA Destinations ==
  ASSUME Inv, NEW r \in Requests
  PROVE  /\ requests \in [Requests -> RequestLocals] /\ requests[r] \in RequestLocals
         /\ Finish(r) => requests'[r] = Idle /\ requests'[r].pc = "idle"
         /\ \A step \in Steps : GoAfresh(r, step) => requests'[r].pc = step
         /\ \A step \in Steps : Go(r, step) =>
              /\ requests'[r].pc = step /\ requests'[r].winners = requests[r].winners
              /\ requests'[r].approval = requests[r].approval /\ requests'[r].mode = requests[r].mode
         /\ Throw(r) => requests'[r].pc \in {"idle", "markFailed"}
<1>1. requests \in [Requests -> RequestLocals] /\ requests[r] \in RequestLocals
  BY DEF Inv, TypeOK
<1>2. Finish(r) => requests'[r] = Idle /\ requests'[r].pc = "idle"
  BY <1>1 DEF Finish, Idle
<1>3. \A step \in Steps : GoAfresh(r, step) => requests'[r].pc = step
  BY <1>1 DEF GoAfresh, Idle
<1>4. \A step \in Steps : Go(r, step) =>
        /\ requests'[r].pc = step /\ requests'[r].winners = requests[r].winners
        /\ requests'[r].approval = requests[r].approval /\ requests'[r].mode = requests[r].mode
  BY <1>1 DEF Go, RequestLocals
<1>5. Throw(r) => requests'[r].pc \in {"idle", "markFailed"}
  BY <1>2, <1>3 DEF Throw, Steps
<1> QED BY <1>1, <1>2, <1>3, <1>4, <1>5

\* A step that keeps the winners, the approval and what is outside.
LEMMA AloneKept ==
  ASSUME AloneInv, OneAtATime, NEW r \in Requests, Current(requests[r])',
         attempt'.winners = attempt.winners, attempt'.approval = attempt.approval,
         attempt'.finalized => attempt.winners \in Selections,
         UNCHANGED <<circle, escrow, payout>>
  PROVE  AloneInv'
<1>1. \A s \in Requests : Current(requests[s])'
  BY DEF OneAtATime
<1>2. RecordMatchesApproval'
  BY DEF AloneInv, RecordMatchesApproval
<1> QED BY <1>1, <1>2 DEF AloneInv

\* One that leaves the record alone as well, to a step that asks nothing of it.
LEMMA AloneIdle ==
  ASSUME AloneInv, OneAtATime, NEW r \in Requests, requests'[r].pc \in LooseSteps,
         UNCHANGED <<attempt, circle, escrow, payout>>
  PROVE  AloneInv'
BY LooseCurrent, AloneKept DEF AloneInv

\* An approval that is offered is the record's.
LEMMA AloneOffered ==
  ASSUME Inv, AloneInv, OneAtATime, NEW r \in Requests, requests'[r].pc \in LooseSteps,
         Offer(ScopeKey), attempt'.winners = attempt.winners, attempt'.approval = ScopeKey,
         attempt'.finalized = attempt.finalized, UNCHANGED <<escrow, payout>>
  PROVE  AloneInv'
<1>1. \A k \in DOMAIN circle : k = ScopeKey /\ circle[k] \in CircleChallenge
  BY DEF Inv, TypeOK, OneKey, CircleChallenge
<1>2. /\ DOMAIN circle' = DOMAIN circle
      /\ \A k \in DOMAIN circle :
           /\ circle'[k].winners = circle[k].winners
           /\ circle'[k].state = IF circle[k].state = "CREATED" THEN "OFFERED" ELSE circle[k].state
  BY <1>1 DEF Offer, CircleChallenge
<1>3. RecordMatchesApproval'
  BY <1>1, <1>2 DEF AloneInv, RecordMatchesApproval
<1>4. \A s \in Requests : Current(requests[s])'
  BY LooseCurrent DEF OneAtATime
<1> QED BY <1>2, <1>3, <1>4 DEF AloneInv

-----------------------------------------------------------------------------
\* The steps of a finalization.
LEMMA FinalizeAlone ==
  ASSUME Inv, AloneInv, OneAtATime, NEW r \in Requests,
         \/ \E winners \in Selections : StartFinalize(r, winners)
         \/ LockWinners(r) \/ RecordFinalized(r)
  PROVE  AloneInv'
<1>0. /\ requests[r] \in RequestLocals /\ attempt \in AttemptRecord
      /\ requests \in [Requests -> RequestLocals] /\ Current(requests[r]) /\ Sound(requests[r])
  BY DEF Inv, TypeOK, AloneInv
<1>1. ASSUME NEW winners \in Selections, StartFinalize(r, winners) PROVE AloneInv'
  <2>1. requests'[r].pc = "lockWinners" /\ ~attempt.finalized
    BY <1>0, <1>1 DEF StartFinalize, NotFinalized, Idle
  <2>2. UNCHANGED <<attempt, circle, escrow, payout>>
    BY <1>1 DEF StartFinalize, outside
  <2>3. Current(requests[r])'
    BY <2>1, <2>2 DEF Current, Approving
  <2> QED BY <2>1, <2>2, <2>3, AloneKept
<1>2. CASE LockWinners(r)
  <2>1. UNCHANGED <<circle, escrow, payout>>
    BY <1>2 DEF LockWinners, outside
  <2>2. CASE Finish(r) /\ UNCHANGED attempt
    BY <2>1, <2>2, Destinations, AloneIdle DEF LooseSteps
  <2>3. CASE AcquireLock(r) /\ GoAfresh(r, "recordFinalized")
    <3>1. ~attempt.finalized /\ requests[r].winners \in Selections
      BY <1>0, <1>2 DEF LockWinners, At, Current, Sound
    <3>2. /\ ~attempt'.finalized /\ attempt'.winners \in Selections
          /\ attempt'.approval = attempt.approval
      BY <1>0, <2>3, <3>1 DEF AcquireLock, AttemptRecord
    <3>3. requests'[r].pc = "recordFinalized"
      BY <2>3, Destinations DEF Steps
    <3>4. Current(requests[r])'
      BY <3>2, <3>3 DEF Current, Approving
    <3>5. \A s \in Requests : Current(requests[s])'
      BY <3>4 DEF OneAtATime
    <3>6. DOMAIN circle = {}
      BY <3>1 DEF Inv, ApprovalFollowsFinalization
    <3>7. escrow' # "PAID"
      BY <2>1, <3>6 DEF AloneInv
    <3> QED BY <2>1, <3>2, <3>5, <3>6, <3>7 DEF AloneInv, RecordMatchesApproval
  <2> QED BY <1>2, <2>2, <2>3 DEF LockWinners
<1>3. CASE RecordFinalized(r)
  <2>1. attempt.winners \in Selections
    BY <1>0, <1>3 DEF RecordFinalized, At, Current
  <2>2. attempt'.winners = attempt.winners /\ attempt'.approval = attempt.approval
    BY <1>0, <1>3 DEF RecordFinalized, Patch, AttemptRecord
  <2>3. UNCHANGED <<circle, escrow, payout>> /\ requests'[r].pc \in LooseSteps
    BY <1>3, Destinations DEF RecordFinalized, outside, LooseSteps
  <2> QED BY <2>1, <2>2, <2>3, LooseCurrent, AloneKept
<1> QED BY <1>1, <1>2, <1>3

\* The steps towards an approval, up to Circle.
LEMMA ReserveAlone ==
  ASSUME Inv, AloneInv, OneAtATime, NEW r \in Requests,
         ReadAttempt(r) \/ Reserve(r) \/ MarkReserved(r) \/ OpenSession(r)
  PROVE  AloneInv'
<1>0. /\ requests[r] \in RequestLocals /\ attempt \in AttemptRecord
      /\ requests \in [Requests -> RequestLocals] /\ Current(requests[r]) /\ Sound(requests[r])
  BY DEF Inv, TypeOK, AloneInv
<1>1. CASE ReadAttempt(r)
  <2>1. UNCHANGED <<attempt, escrow, payout>>
    BY <1>1 DEF ReadAttempt, outside
  <2>2. CASE (Throw(r) \/ Finish(r)) /\ UNCHANGED circle
    BY <2>1, <2>2, Destinations, AloneIdle DEF LooseSteps
  <2>3. CASE attempt.approval # None /\ Finish(r) /\ Offer(attempt.approval)
    <3>1. attempt.approval = ScopeKey /\ requests'[r].pc \in LooseSteps
      BY <2>3, Destinations DEF AloneInv, LooseSteps
    <3> QED BY <2>1, <2>3, <3>1, AloneOffered
  <2>4. CASE MatchesFinalized(r) /\ Go(r, "reserve") /\ UNCHANGED circle
    <3>1. requests'[r].pc = "reserve" /\ requests'[r].winners = attempt.winners
      BY <2>4, Destinations DEF Steps, ApprovalSteps, MatchesFinalized
    <3>2. Current(requests[r])'
      BY <2>1, <3>1 DEF Current, Approving
    <3> QED BY <2>1, <2>4, <3>2, AloneKept DEF AloneInv
  <2> QED BY <1>1, <2>2, <2>3, <2>4 DEF ReadAttempt
<1>2. CASE Reserve(r)
  <2>1. UNCHANGED <<circle, escrow, payout>> /\ requests[r].winners = attempt.winners
    BY <1>0, <1>2 DEF Reserve, outside, At, Current, Approving
  <2>2. CASE Finish(r) /\ UNCHANGED attempt
    BY <2>1, <2>2, Destinations, AloneIdle DEF LooseSteps
  <2>3. CASE /\ AcquireLock(r)
             /\ requests' = [requests EXCEPT ![r].pc = "markReserved", ![r].token = r]
    <3>1. /\ attempt'.winners = attempt.winners /\ attempt'.approval = attempt.approval
          /\ attempt'.finalized = attempt.finalized
      BY <1>0, <2>1, <2>3 DEF AcquireLock, AttemptRecord
    <3>2. requests'[r].pc = "markReserved" /\ requests'[r].winners = requests[r].winners
      BY <1>0, <2>3 DEF RequestLocals
    <3>3. Current(requests[r])'
      BY <2>1, <3>1, <3>2 DEF Current, Approving
    <3> QED BY <2>1, <3>1, <3>3, AloneKept DEF AloneInv
  <2> QED BY <1>2, <2>2, <2>3 DEF Reserve
<1>3. CASE MarkReserved(r)
  <2>1. UNCHANGED <<circle, escrow, payout>> /\ requests[r].winners = attempt.winners
    BY <1>0, <1>3 DEF MarkReserved, outside, At, Current, Approving
  <2>2. CASE Throw(r) /\ UNCHANGED attempt
    BY <2>1, <2>2, Destinations, AloneIdle DEF LooseSteps
  <2>3. CASE /\ attempt' = [attempt EXCEPT !.state = "APPROVAL_CREATION_IN_PROGRESS"]
             /\ Go(r, "openSession")
    <3>1. /\ attempt'.winners = attempt.winners /\ attempt'.approval = attempt.approval
          /\ attempt'.finalized = attempt.finalized
      BY <1>0, <2>3 DEF AttemptRecord
    <3>2. requests'[r].pc = "openSession" /\ requests'[r].winners = requests[r].winners
      BY <2>3, Destinations DEF Steps, ApprovalSteps
    <3>3. Current(requests[r])'
      BY <2>1, <3>1, <3>2 DEF Current, Approving
    <3> QED BY <2>1, <3>1, <3>3, AloneKept DEF AloneInv
  <2> QED BY <1>3, <2>2, <2>3 DEF MarkReserved
<1>4. CASE OpenSession(r)
  <2>1. UNCHANGED <<attempt, circle, escrow, payout>> /\ requests[r].winners = attempt.winners
    BY <1>0, <1>4 DEF OpenSession, outside, At, Current, Approving
  <2>2. /\ requests'[r].pc = IF attempt.approval = None THEN "createChallenge" ELSE "recordApproval"
        /\ requests'[r].approval = attempt.approval /\ requests'[r].winners = requests[r].winners
    BY <1>0, <1>4 DEF OpenSession, RequestLocals
  <2>3. Current(requests[r])'
    BY <2>1, <2>2 DEF Current, Approving, AloneInv
  <2> QED BY <2>1, <2>3, AloneKept DEF AloneInv
<1> QED BY <1>1, <1>2, <1>3, <1>4

\* Circle makes the challenge for the winners the record names.
LEMMA CreateChallengeAlone ==
  ASSUME Inv, AloneInv, OneAtATime, NEW r \in Requests, CreateChallenge(r)
  PROVE  AloneInv'
<1>0. /\ requests[r] \in RequestLocals /\ requests \in [Requests -> RequestLocals]
      /\ requests[r].key = ScopeKey /\ requests[r].winners = attempt.winners
      /\ UNCHANGED <<attempt, escrow, payout>>
  BY DEF Inv, TypeOK, AloneInv, Sound, Current, Approving, CreateChallenge, At, outside
<1>1. \/ requests'[r].pc = "recordApproval" /\ requests'[r].approval = ScopeKey
      \/ requests'[r].pc = "recordRejection"
  <2>1. CASE requests' = [requests EXCEPT ![r] =
               [@ EXCEPT !.pc = "recordApproval", !.approval = requests[r].key,
                         !.key = None, !.winners = None]]
    BY <1>0, <2>1 DEF RequestLocals
  <2>2. CASE Go(r, "recordRejection")
    BY <2>2, Destinations DEF Steps, ApprovalSteps
  <2> QED BY <2>1, <2>2 DEF CreateChallenge
<1>2. Current(requests[r])'
  BY <1>1 DEF Current, Approving
<1>3. circle' = circle \/ circle' = CircleWith(ScopeKey, attempt.winners)
  BY <1>0 DEF CreateChallenge
<1>4. CASE circle' = circle
  BY <1>0, <1>2, <1>4, AloneKept DEF AloneInv
<1>5. CASE circle' # circle
  <2>1. ScopeKey \notin DOMAIN circle
    BY <1>3, <1>5 DEF CircleWith
  <2>2. DOMAIN circle = {}
    BY <2>1 DEF Inv, OneKey
  <2>3. DOMAIN circle' = {ScopeKey} /\ circle'[ScopeKey] = [state |-> "CREATED", winners |-> attempt.winners]
    BY <1>3, <1>5, <2>2 DEF CircleWith
  <2>4. RecordMatchesApproval'
    BY <1>0, <2>3 DEF RecordMatchesApproval
  <2>5. escrow' # "PAID"
    BY <1>0, <2>2 DEF AloneInv
  <2>6. \A s \in Requests : Current(requests[s])'
    BY <1>2 DEF OneAtATime
  <2> QED BY <1>0, <2>4, <2>5, <2>6 DEF AloneInv
<1> QED BY <1>4, <1>5

\* The approval's id may be stored in the record at any time.
LEMMA AloneStored ==
  ASSUME Inv, AloneInv, OneAtATime, NEW r \in Requests, requests'[r].pc \in LooseSteps,
         attempt'.winners = attempt.winners, attempt'.approval \in {attempt.approval, ScopeKey},
         attempt'.finalized = attempt.finalized, UNCHANGED <<circle, escrow, payout>>
  PROVE  AloneInv'
<1>1. \A k \in DOMAIN circle : k = ScopeKey
  BY DEF Inv, OneKey
<1>2. RecordMatchesApproval'
  BY <1>1 DEF AloneInv, RecordMatchesApproval
<1>3. \A s \in Requests : Current(requests[s])'
  BY LooseCurrent DEF OneAtATime
<1> QED BY <1>2, <1>3 DEF AloneInv

\* The steps that record what became of an approval.
LEMMA RecordAlone ==
  ASSUME Inv, AloneInv, OneAtATime, NEW r \in Requests,
         RecordRejection(r) \/ RecordApproval(r) \/ RecordRecovery(r) \/ MarkFailed(r)
  PROVE  AloneInv'
<1>0. /\ requests[r] \in RequestLocals /\ attempt \in AttemptRecord
      /\ Current(requests[r])
  BY DEF Inv, TypeOK, AloneInv
<1>1. CASE RecordRejection(r)
  <2>1. UNCHANGED <<circle, escrow, payout>> /\ requests'[r].pc \in LooseSteps
    BY <1>1, Destinations DEF RecordRejection, outside, LooseSteps
  <2>2. /\ attempt'.winners = attempt.winners /\ attempt'.approval = attempt.approval
        /\ attempt'.finalized = attempt.finalized
    BY <1>0, <1>1 DEF RecordRejection, AttemptRecord
  <2> QED BY <2>1, <2>2, LooseCurrent, AloneKept DEF AloneInv
<1>2. CASE RecordApproval(r)
  <2>1. UNCHANGED <<escrow, payout>> /\ requests[r].approval = ScopeKey
    BY <1>0, <1>2 DEF RecordApproval, outside, At, Current
  <2>2. CASE /\ attempt' = [attempt EXCEPT !.state = "ACTION_REQUIRED",
                                           !.approval = requests[r].approval]
             /\ Finish(r) /\ Offer(requests[r].approval)
    <3>1. /\ attempt'.winners = attempt.winners /\ attempt'.approval = ScopeKey
          /\ attempt'.finalized = attempt.finalized
      BY <1>0, <2>1, <2>2 DEF AttemptRecord
    <3>2. requests'[r].pc \in LooseSteps /\ Offer(ScopeKey)
      BY <2>1, <2>2, Destinations DEF LooseSteps
    <3> QED BY <2>1, <3>1, <3>2, AloneOffered
  <2>3. CASE Go(r, "recordRecovery") /\ UNCHANGED <<attempt, circle>>
    <3>1. requests'[r].pc = "recordRecovery" /\ requests'[r].approval = ScopeKey
      BY <2>1, <2>3, Destinations DEF Steps, ApprovalSteps
    <3>2. Current(requests[r])'
      BY <3>1 DEF Current, Approving
    <3> QED BY <2>1, <2>3, <3>2, AloneKept DEF AloneInv
  <2> QED BY <1>2, <2>2, <2>3 DEF RecordApproval
<1>3. CASE RecordRecovery(r)
  <2>1. /\ UNCHANGED <<circle, escrow, payout>> /\ requests'[r].pc \in LooseSteps
        /\ requests[r].approval = ScopeKey
    BY <1>0, <1>3, Destinations DEF RecordRecovery, outside, At, Current, LooseSteps
  <2>2. /\ attempt'.winners = attempt.winners /\ attempt'.approval \in {attempt.approval, ScopeKey}
        /\ attempt'.finalized = attempt.finalized
    BY <1>0, <1>3, <2>1 DEF RecordRecovery, AttemptRecord
  <2> QED BY <2>1, <2>2, AloneStored
<1>4. CASE MarkFailed(r)
  <2>1. UNCHANGED <<circle, escrow, payout>> /\ requests'[r].pc \in LooseSteps
    BY <1>4, Destinations DEF MarkFailed, outside, LooseSteps
  <2>2. /\ attempt'.winners = attempt.winners /\ attempt'.approval = attempt.approval
        /\ attempt'.finalized = attempt.finalized
    BY <1>0, <1>4 DEF MarkFailed, Patch, AttemptRecord
  <2> QED BY <2>1, <2>2, LooseCurrent, AloneKept DEF AloneInv
<1> QED BY <1>1, <1>2, <1>3, <1>4

\* The steps that ask Circle, and leave the winners and the approval alone.
LEMMA StatusAlone ==
  ASSUME Inv, AloneInv, OneAtATime, NEW r \in Requests,
         StartStatus(r) \/ AskChallenge(r) \/ AskTransaction(r) \/ RecordTransaction(r)
  PROVE  AloneInv'
<1>0. requests \in [Requests -> RequestLocals] /\ attempt \in AttemptRecord
  BY DEF Inv, TypeOK
<1>1. UNCHANGED <<circle, escrow, payout>>
  BY DEF StartStatus, AskChallenge, AskTransaction, RecordTransaction, outside
<1>2. requests'[r].pc \in LooseSteps
  <2>1. CASE StartStatus(r)
    BY <1>0, <2>1 DEF StartStatus, Idle, LooseSteps
  <2>2. CASE AskChallenge(r)
    BY <1>0, <2>2, Destinations DEF AskChallenge, Idle, LooseSteps
  <2>3. CASE AskTransaction(r)
    <3>1. PICK hash \in {None, requests[r].tx} :
            requests' = [requests EXCEPT ![r] =
              [@ EXCEPT !.pc = "recordTransaction", !.hash = hash,
                      !.verdict = CASE circle[requests[r].tx].state = "FAILED" -> "FINALIZATION_FAILED"
                                    [] circle[requests[r].tx].state = "CONFIRMED" -> "TRANSACTION_SUBMITTED"
                                    [] OTHER -> "FINALIZATION_IN_PROGRESS"]]
      BY <2>3 DEF AskTransaction
    <3>2. PICK verdict : requests' = [requests EXCEPT ![r] =
              [@ EXCEPT !.pc = "recordTransaction", !.hash = hash, !.verdict = verdict]]
      BY <3>1
    <3> QED BY <1>0, <3>2 DEF RequestLocals, LooseSteps
  <2>4. CASE RecordTransaction(r)
    BY <1>0, <2>4 DEF RecordTransaction, Idle, LooseSteps
  <2> QED BY <2>1, <2>2, <2>3, <2>4
<1>3. /\ attempt'.winners = attempt.winners /\ attempt'.approval = attempt.approval
      /\ attempt'.finalized = attempt.finalized
  BY <1>0 DEF StartStatus, AskChallenge, AskTransaction, RecordTransaction, Patch, AttemptRecord
<1> QED BY <1>1, <1>2, <1>3, LooseCurrent, AloneKept DEF AloneInv

\* A request that asks for an approval relies on nothing yet, and one that is
\* cut off leaves nothing behind that it did not have.
LEMMA StartApprovalAlone ==
  ASSUME Inv, AloneInv, OneAtATime, NEW r \in Requests, NEW winners, NEW mode,
         StartApproval(r, winners, mode)
  PROVE  AloneInv'
<1>1. requests \in [Requests -> RequestLocals]
  BY DEF Inv, TypeOK
<1>2. requests'[r].pc \in {"readAttempt", "markFailed"}
  BY <1>1 DEF StartApproval, Idle
<1> QED BY <1>2, AloneIdle DEF StartApproval, outside, LooseSteps

LEMMA AbortAlone ==
  ASSUME Inv, AloneInv, OneAtATime, NEW r \in Requests, Abort(r)
  PROVE  AloneInv'
<1>1. requests'[r].pc \in {"idle", "markFailed"}
  BY Destinations DEF Abort
<1> QED BY <1>1, AloneIdle DEF Abort, outside, LooseSteps

\* What a reconciliation has read of the approval is what it writes back.
LEMMA ResolveAlone ==
  ASSUME Inv, NEW r \in Requests, NEW hash, Resolve(r, hash), UNCHANGED attempt
  PROVE  Current(requests[r])'
<1>1. requests \in [Requests -> RequestLocals]
  BY DEF Inv, TypeOK
<1>2. requests'[r].pc = "readReceipt" /\ requests'[r].approval = attempt.approval
  BY <1>1 DEF Resolve, Idle
<1> QED BY <1>2 DEF Current, Approving

\* The steps of a reconciliation.
LEMMA ReconcileAlone ==
  ASSUME Inv, AloneInv, OneAtATime, NEW r \in Requests,
         \/ \E hash \in ClientHashes : StartReconcile(r, hash)
         \/ ResolveFinalized(r) \/ ReadReceipt(r) \/ RecordVerdict(r)
         \/ PersistEvidence(r) \/ CompleteSettlement(r)
  PROVE  AloneInv'
<1>0. /\ requests \in [Requests -> RequestLocals] /\ requests[r] \in RequestLocals
      /\ attempt \in AttemptRecord /\ Current(requests[r])
  BY DEF Inv, TypeOK, AloneInv
<1>1. UNCHANGED <<circle, escrow, payout>>
  BY DEF StartReconcile, ResolveFinalized, ReadReceipt, RecordVerdict, PersistEvidence,
         CompleteSettlement, outside
<1>2. ASSUME Finish(r), UNCHANGED attempt PROVE AloneInv'
  BY <1>1, <1>2, Destinations, AloneIdle DEF LooseSteps
<1>3. ASSUME NEW hash \in ClientHashes, StartReconcile(r, hash) PROVE AloneInv'
  BY <1>1, <1>3, ResolveAlone, AloneKept DEF StartReconcile, AloneInv
<1>4. CASE ResolveFinalized(r)
  BY <1>1, <1>2, <1>4, ResolveAlone, AloneKept DEF ResolveFinalized, AloneInv
<1>5. CASE ReadReceipt(r)
  <2>1. CASE Finish(r)
    BY <1>2, <1>5, <2>1 DEF ReadReceipt
  <2>2. CASE ~Finish(r)
    <3>1. requests'[r].pc = "recordVerdict" /\ requests'[r].approval = requests[r].approval
      BY <1>0, <1>5, <2>2 DEF ReadReceipt, RequestLocals
    <3>2. requests[r].approval = attempt.approval /\ UNCHANGED attempt
      BY <1>0, <1>5 DEF ReadReceipt, At, Current
    <3>3. Current(requests[r])'
      BY <3>1, <3>2 DEF Current, Approving
    <3> QED BY <1>1, <3>2, <3>3, AloneKept DEF AloneInv
  <2> QED BY <2>1, <2>2
<1>6. CASE RecordVerdict(r)
  <2>1. requests[r].approval = attempt.approval
    BY <1>0, <1>6 DEF RecordVerdict, At, Current
  <2>2. /\ attempt'.winners = attempt.winners /\ attempt'.approval = attempt.approval
        /\ attempt'.finalized = attempt.finalized
    BY <1>0, <1>6, <2>1 DEF RecordVerdict, Patch, AttemptRecord
  <2>3. requests'[r].pc \in LooseSteps
    BY <1>0, <1>6 DEF RecordVerdict, Idle, LooseSteps
  <2> QED BY <1>1, <2>2, <2>3, LooseCurrent, AloneKept DEF AloneInv
<1>7. CASE PersistEvidence(r) \/ CompleteSettlement(r)
  <2>1. Finish(r) \/ GoAfresh(r, "completeSettlement")
    BY <1>7 DEF PersistEvidence, CompleteSettlement
  <2>2. requests'[r].pc \in LooseSteps /\ UNCHANGED attempt
    BY <1>7, <2>1, Destinations DEF PersistEvidence, CompleteSettlement, LooseSteps, Steps
  <2> QED BY <1>1, <2>2, AloneIdle
<1> QED BY <1>3, <1>4, <1>5, <1>6, <1>7

\* A payout on chain pays the winners the record names, since its approval was
\* made for them.
LEMMA OutsideAlone ==
  ASSUME Inv, AloneInv,
         \/ \E k \in DOMAIN circle :
              (\E state \in {"SENT", "DENIED"} : Decide(k, state)) \/ Mine(k) \/ Report(k)
         \/ Refund \/ EndReview \/ CacheExpires
  PROVE  AloneInv'
<1>0. /\ \A k \in DOMAIN circle : k = ScopeKey /\ circle[k] \in CircleChallenge
      /\ escrow \in {"FUNDED", "PAID", "REFUNDED"}
  BY DEF Inv, TypeOK, OneKey, CircleChallenge
<1>1. UNCHANGED <<attempt, requests>>
  BY DEF Decide, Mine, Report, Refund, EndReview, CacheExpires
<1>2. \A r \in Requests : Current(requests[r])'
  BY <1>1 DEF AloneInv, Current
<1>3. ASSUME NEW k \in DOMAIN circle, NEW state \in {"SENT", "DENIED"}, Decide(k, state)
      PROVE  AloneInv'
  <2>1. /\ DOMAIN circle' = DOMAIN circle /\ k = ScopeKey
        /\ circle'[k].winners = circle[k].winners /\ circle[k].state = "OFFERED"
    BY <1>0, <1>3 DEF Decide, CircleChallenge
  <2>2. UNCHANGED <<escrow, payout>> /\ escrow # "PAID"
    BY <1>0, <1>3, <2>1 DEF AloneInv, Decide, outside
  <2>3. RecordMatchesApproval'
    BY <1>0, <1>1, <2>1 DEF AloneInv, RecordMatchesApproval
  <2> QED BY <1>1, <1>2, <2>2, <2>3 DEF AloneInv
<1>4. ASSUME NEW k \in DOMAIN circle, Mine(k)
      PROVE  AloneInv'
  <2>1. /\ DOMAIN circle' = DOMAIN circle /\ k = ScopeKey
        /\ circle'[k].winners = circle[k].winners /\ circle[k].state = "SENT"
        /\ circle'[k].state = "MINED"
    BY <1>0, <1>4 DEF Mine, CircleChallenge
  <2>2. RecordMatchesApproval'
    BY <1>0, <1>1, <2>1 DEF AloneInv, RecordMatchesApproval
  <2>3. payout'.winners = circle[k].winners
    BY <1>4 DEF Mine
  <2>4. payout'.winners = attempt'.winners
    BY <1>1, <2>3 DEF AloneInv, RecordMatchesApproval
  <2> QED BY <1>1, <1>2, <2>1, <2>2, <2>4 DEF AloneInv
<1>5. ASSUME NEW k \in DOMAIN circle, Report(k)
      PROVE  AloneInv'
  <2>1. /\ DOMAIN circle' = DOMAIN circle /\ k = ScopeKey
        /\ circle'[k].winners = circle[k].winners /\ circle[k].state \in {"MINED", "SENT"}
        /\ circle[k].state = "MINED" => circle'[k].state = "CONFIRMED"
    BY <1>0, <1>5 DEF Report, CircleChallenge
  <2>2. UNCHANGED <<escrow, payout>>
    BY <1>5 DEF Report, outside
  <2>3. RecordMatchesApproval'
    BY <1>0, <1>1, <2>1 DEF AloneInv, RecordMatchesApproval
  <2> QED BY <1>1, <1>2, <2>1, <2>2, <2>3 DEF AloneInv
<1>6. CASE Refund \/ EndReview \/ CacheExpires
  <2>1. UNCHANGED <<circle, payout>> /\ (escrow' = "PAID" => escrow = "PAID")
    BY <1>6 DEF Refund, EndReview, CacheExpires, outside
  <2>2. RecordMatchesApproval'
    BY <1>1, <2>1 DEF AloneInv, RecordMatchesApproval
  <2> QED BY <1>1, <1>2, <2>1, <2>2 DEF AloneInv
<1> QED BY <1>3, <1>4, <1>5, <1>6

\* The invariant of requests that are handled one at a time.
LEMMA AloneNext ==
  ASSUME OneAtATime
  PROVE  Inv /\ AloneInv /\ [Next]_vars => AloneInv'
<1> SUFFICES ASSUME Inv, AloneInv, [Next]_vars PROVE AloneInv'
  OBVIOUS
<1>1. ASSUME NEW r \in Requests, Continue(r) PROVE AloneInv'
  BY <1>1, FinalizeAlone, ReserveAlone, CreateChallengeAlone, RecordAlone, StatusAlone,
     ReconcileAlone DEF Continue
<1>2. ASSUME NEW r \in Requests, Abort(r) PROVE AloneInv'
  BY <1>2, AbortAlone
<1>3. ASSUME NEW r \in Requests, NEW winners \in Selections, NEW mode \in ApprovalModes,
             StartApproval(r, winners, mode)
      PROVE  AloneInv'
  BY <1>3, StartApprovalAlone
<1>4. ASSUME NEW r \in Requests,
             \/ StartStatus(r)
             \/ \E winners \in Selections : StartFinalize(r, winners)
             \/ \E hash \in ClientHashes : StartReconcile(r, hash)
      PROVE  AloneInv'
  BY <1>4, StatusAlone, FinalizeAlone, ReconcileAlone
<1>5. CASE UNCHANGED vars
  <2>1. UNCHANGED <<attempt, requests, circle, escrow, payout>>
    BY <1>5 DEF vars
  <2>2. \A r \in Requests : Current(requests[r])'
    BY <2>1 DEF AloneInv, Current
  <2> QED BY <2>1, <2>2 DEF AloneInv, RecordMatchesApproval
<1> QED BY <1>1, <1>2, <1>3, <1>4, <1>5, OutsideAlone DEF Next

LEMMA AloneInit == Init => AloneInv
<1> SUFFICES ASSUME Init PROVE AloneInv
  OBVIOUS
<1>1. /\ attempt.finalized = FALSE /\ attempt.approval = None /\ DOMAIN circle = {}
      /\ escrow = "FUNDED"
  BY DEF Init, NoAttempt
<1>2. \A r \in Requests : Current(requests[r])
  BY DEF Init, Idle, Current, Approving
<1> QED BY <1>1, <1>2 DEF AloneInv, RecordMatchesApproval

\* Handled one at a time, requests never let the winners of the record and of
\* Circle's approval part, nor lose the id of an approval that was handed out.
THEOREM RecordMatches ==
  ASSUME OneAtATime
  PROVE  Spec => []RecordMatchesApproval
<1>1. Inv /\ AloneInv /\ [Next]_vars => AloneInv'
  BY AloneNext
<1>2. AloneInv => RecordMatchesApproval
  BY DEF AloneInv
<1> QED BY <1>1, <1>2, AloneInit, InvHolds, PTL DEF Spec

-----------------------------------------------------------------------------
(***************************************************************************)
(* What the pages show (Settlement), for any number of creators, of        *)
(* setbacks and of requests, however they overlap.                         *)
(*                                                                         *)
(* What a page shows was read earlier, and the record it was read from may *)
(* be overwritten by a request that read it before.  What lasts is the     *)
(* payout: a page is true because its record was borne out when it was     *)
(* read, and the contract's part of it is for good.                        *)
(***************************************************************************)

\* The record has winners from its first lock on.
Named == attempt.finalized \/ attempt.state # "ABSENT" => attempt.winners # None

Basis == Inv /\ Named

\* The hash of the payout; None while there is none.
PaidBy == IF escrow = "PAID" THEN payout.hash ELSE None

\* What no step takes back, with whatever it overlaps.
Lasts ==
  /\ attempt.finalized => attempt'.finalized
  /\ PaidBy # None => PaidBy' = PaidBy
  /\ evidence # None => evidence' # None

\* What the brand's page p has on it was true when it was read: a is the record, e
\* the hash of the payout.
Pages ==
  [known : Views, locked : BOOLEAN, record : Records \cup {None},
   pending : {None, "finalize", "approval", "status", "reconcile"},
   request : Requests \cup {None}, window : Keys \cup {None}, stale : BOOLEAN]

Asking == {"approval", "status", "reconcile"}

Shows(p, a, e) ==
  /\ p \in Pages
  /\ p.known.finalized => p.known.winners \in Selections /\ a.finalized
  /\ p.known.state = "PAYOUT_CONFIRMED" => e # None /\ p.known.hash = e
  /\ p.record # None =>
       /\ p.known.finalized
       /\ p.record.state = "PAYOUT_CONFIRMED" => e # None /\ p.record.hash = e
  /\ p.pending \in Asking => p.known.finalized
  /\ p.request # None => p.pending # None
  /\ p.window # None => p.pending = "approval" /\ p.request = None

PageInv == Shows(page, attempt, PaidBy)

\* What creators are shown.
Standings ==
  [status : {"Submitted", "Winner", "Reward Paid"}, place : Nat,
   reward : {"None", "Paid", "Settlement Failed", "Processing", "Pending Settlement"}]

\* What a creator was shown of a payment rests on the payout.
Honest(s) ==
  /\ "Paid" = s.reward \/ s.status = "Reward Paid" => PaidBy # None
  /\ "Paid" = s.reward => evidence # None

HonestInv ==
  /\ told \in [Readers -> Standings]
  /\ setbacks \in 0..MaxSetbacks
  /\ \A c \in Readers : Honest(told[c])

PublicInv == Basis /\ PageInv /\ HonestInv

-----------------------------------------------------------------------------
\* What each step does to the winners and to what the chain bears out.
LEMMA NamedStep ==
  ASSUME Basis, [Next]_vars
  PROVE  Named'
<1>0. attempt \in AttemptRecord /\ None \notin Selections /\ Inv
  BY PayoutConstants DEF PayoutConstants, Basis, Inv, TypeOK
<1>1. CASE UNCHANGED attempt
  BY <1>1 DEF Basis, Named
<1>2. ASSUME NEW r \in Requests, LockWinners(r) \/ Reserve(r) PROVE Named'
  <2>1. requests[r].winners \in Selections
    BY <1>0, <1>2 DEF LockWinners, Reserve, At, Inv, Sound, Approving
  <2>2. AcquireLock(r) \/ UNCHANGED attempt
    BY <1>2 DEF LockWinners, Reserve
  <2>3. CASE AcquireLock(r)
    BY <1>0, <2>1, <2>3 DEF AcquireLock, Named, AttemptRecord
  <2> QED BY <1>1, <2>2, <2>3
<1>3. ASSUME attempt'.winners = attempt.winners,
             attempt'.finalized \/ attempt'.state # "ABSENT" => attempt.state # "ABSENT"
      PROVE  Named'
  BY <1>3 DEF Basis, Named
<1>4. ASSUME NEW new, attempt' = new, new.winners = attempt.winners, attempt.state # "ABSENT"
      PROVE  Named'
  BY <1>3, <1>4
<1>5. ASSUME NEW new, Patch(new), new.winners = attempt.winners PROVE Named'
  BY <1>1, <1>4, <1>5 DEF Patch
<1>6. ASSUME NEW r \in Requests, RecordFinalized(r) \/ MarkFailed(r) PROVE Named'
  BY <1>0, <1>5, <1>6 DEF RecordFinalized, MarkFailed, AttemptRecord
<1>7. ASSUME NEW r \in Requests,
             MarkReserved(r) \/ RecordRejection(r) \/ RecordApproval(r) \/ RecordRecovery(r)
      PROVE  Named'
  BY <1>0, <1>1, <1>4, <1>7 DEF MarkReserved, RecordRejection, RecordApproval, RecordRecovery,
     IsOwner, AttemptRecord
<1>8. ASSUME NEW r \in Requests, AskChallenge(r) \/ RecordTransaction(r) \/ RecordVerdict(r)
      PROVE  Named'
  BY <1>0, <1>1, <1>5, <1>8 DEF AskChallenge, RecordTransaction, RecordVerdict, AttemptRecord
<1>9. ASSUME NEW r \in Requests,
             \/ ReadAttempt(r) \/ OpenSession(r) \/ CreateChallenge(r)
             \/ AskTransaction(r) \/ ResolveFinalized(r) \/ ReadReceipt(r)
             \/ PersistEvidence(r) \/ CompleteSettlement(r) \/ Abort(r) \/ StartStatus(r)
             \/ \E winners \in Selections :
                  \/ StartFinalize(r, winners)
                  \/ \E mode \in ApprovalModes : StartApproval(r, winners, mode)
             \/ \E hash \in ClientHashes : StartReconcile(r, hash)
      PROVE  UNCHANGED attempt
  BY <1>9 DEF ReadAttempt, OpenSession, CreateChallenge, AskTransaction, ResolveFinalized,
              ReadReceipt, PersistEvidence, CompleteSettlement, Abort, StartStatus,
              StartFinalize, StartApproval, StartReconcile
<1>10. CASE \/ \E k \in DOMAIN circle :
                 \/ \E state \in {"SENT", "DENIED"} : Decide(k, state)
                 \/ Mine(k) \/ Report(k)
            \/ Refund \/ EndReview \/ CacheExpires
  BY <1>1, <1>10 DEF Decide, Mine, Report, Refund, EndReview, CacheExpires
<1>11. CASE UNCHANGED vars
  BY <1>1, <1>11 DEF vars
<1> QED BY <1>1, <1>2, <1>6, <1>7, <1>8, <1>9, <1>10, <1>11 DEF Next, Continue

LEMMA LastsStep ==
  ASSUME Inv, [Next]_vars
  PROVE  Lasts
<1>1. attempt.finalized => attempt'.finalized
  BY KeepsFinalization
<1>2. ASSUME UNCHANGED <<escrow, payout, evidence>> PROVE Lasts
  BY <1>1, <1>2 DEF Lasts, PaidBy
<1>3. ASSUME NEW r \in Requests, PersistEvidence(r) PROVE Lasts
  <2>1. UNCHANGED <<escrow, payout>>
    BY <1>3 DEF PersistEvidence, outside
  <2>2. requests[r] \in RequestLocals
    BY DEF Inv, TypeOK
  <2>3. CASE evidence' = [hash |-> requests[r].hash, winners |-> requests[r].winners]
    <3>1. evidence' = payout /\ payout \in Payouts
      BY <1>3, <2>3 DEF PersistEvidence, At, Inv, Sound, PaidHasPayout
    <3>2. None \notin Payouts
      BY PayoutConstants DEF PayoutConstants, Payouts, Keys
    <3> QED BY <1>1, <2>1, <3>1, <3>2 DEF Lasts, PaidBy
  <2> QED BY <1>2, <1>3, <2>1, <2>3 DEF PersistEvidence
<1>4. ASSUME NEW r \in Requests, Continue(r), ~PersistEvidence(r)
      PROVE  UNCHANGED <<escrow, payout, evidence>>
  BY <1>4 DEF Continue, LockWinners, RecordFinalized, ReadAttempt, Reserve, MarkReserved,
     OpenSession, CreateChallenge, RecordRejection, RecordApproval, RecordRecovery, MarkFailed,
     AskChallenge, AskTransaction, RecordTransaction, ResolveFinalized, ReadReceipt,
     RecordVerdict, CompleteSettlement, outside
<1>5. ASSUME NEW r \in Requests,
             \/ Abort(r) \/ StartStatus(r)
             \/ \E winners \in Selections :
                  \/ StartFinalize(r, winners)
                  \/ \E mode \in ApprovalModes : StartApproval(r, winners, mode)
             \/ \E hash \in ClientHashes : StartReconcile(r, hash)
      PROVE  UNCHANGED <<escrow, payout, evidence>>
  BY <1>5 DEF Abort, StartStatus, StartFinalize, StartApproval, StartReconcile, outside
<1>6. CASE \E k \in DOMAIN circle :
             (\E state \in {"SENT", "DENIED"} : Decide(k, state)) \/ Mine(k) \/ Report(k)
  <2>1. evidence' = evidence
    BY <1>6 DEF Decide, Mine, Report
  <2>2. escrow = "PAID" => UNCHANGED <<escrow, payout>>
    BY <1>6 DEF Decide, Mine, Report, outside
  <2> QED BY <1>1, <2>1, <2>2 DEF Lasts, PaidBy
<1>7. CASE Refund \/ EndReview \/ CacheExpires
  BY <1>1, <1>7 DEF Refund, EndReview, CacheExpires, outside, Lasts, PaidBy
<1>8. CASE UNCHANGED vars
  BY <1>2, <1>8 DEF vars
<1> QED BY <1>2, <1>3, <1>4, <1>5, <1>6, <1>7, <1>8 DEF Next

\* A step of the pages alone; the flag may be cached.
LEMMA InvKept ==
  ASSUME Inv, cachedFunded' \in BOOLEAN,
         UNCHANGED <<attempt, requests, circle, outside, evidence, settled>>
  PROVE  Inv'
<1>1. TypeOK'
  BY DEF Inv, TypeOK, outside
<1>2. \A r \in Requests : Sound(requests[r])'
  BY DEF Inv, Sound, outside
<1> QED BY <1>1, <1>2 DEF Inv, OneKey, PaidHasPayout, ApprovalFollowsFinalization,
      ConfirmedIsPaid, EvidenceIsThePayout, outside

\* A decision in a window that shows no challenge of the payout changes nothing.
LEMMA InvUndecided ==
  ASSUME Inv, NEW k, NEW state, Decide(k, state), k \notin DOMAIN circle
  PROVE  Inv'
<1>1. DOMAIN circle' = DOMAIN circle /\ \A j \in DOMAIN circle : circle'[j] = circle[j]
  BY DEF Decide
<1>2. UNCHANGED <<attempt, requests, escrow, payout, reviewOver, cachedFunded, evidence, settled>>
  BY DEF Decide, outside
<1>3. TypeOK'
  BY <1>1, <1>2 DEF Inv, TypeOK
<1>4. \A r \in Requests : Sound(requests[r])'
  BY <1>2 DEF Inv, Sound
<1> QED BY <1>1, <1>2, <1>3, <1>4 DEF Inv, OneKey, PaidHasPayout,
      ApprovalFollowsFinalization, ConfirmedIsPaid, EvidenceIsThePayout

\* Whatever the page sends and the environment does is a step of the service.
LEMMA PublicStep ==
  ASSUME Basis, PageInv, [SettlementNext]_settlementVars
  PROVE  Basis' /\ Lasts
<1>0. Inv /\ cachedFunded \in BOOLEAN
  BY DEF Basis, Inv, TypeOK
<1>1. ASSUME [Next]_vars PROVE Basis' /\ Lasts
  BY <1>0, <1>1, NextInv, NamedStep, LastsStep DEF Basis
<1>2. ASSUME Inv', UNCHANGED <<attempt, outside, evidence>> PROVE Basis' /\ Lasts
  BY <1>2 DEF Basis, Named, Lasts, PaidBy, outside
<1>3. CASE AnswerAtOnce
  <2>1. cachedFunded' \in BOOLEAN
    BY <1>0, <1>3, Zenon DEF AnswerAtOnce
  <2> QED BY <1>0, <1>2, <1>3, <2>1, InvKept DEF AnswerAtOnce
<1>4. ASSUME NEW r \in Requests, Send(r) PROVE Next
  <2>1. CASE \E winners \in Selections : StartFinalize(r, winners)
    BY <2>1 DEF Next
  <2>2. CASE Unsent("approval") /\ StartApproval(r, page.known.winners, "create-approval")
    <3>1. page.known.winners \in Selections
      BY <2>2 DEF Unsent, PageInv, Shows, Asking
    <3>2. "create-approval" \in ApprovalModes
      BY SettlementConstants DEF SettlementConstants
    <3> QED BY <2>2, <3>1, <3>2 DEF Next
  <2>3. CASE StartStatus(r)
    BY <2>3 DEF Next
  <2>4. CASE StartReconcile(r, None)
    BY <2>4, SettlementConstants DEF SettlementConstants, Next
  <2> QED BY <1>4, <2>1, <2>2, <2>3, <2>4 DEF Send
<1>5. ASSUME NEW r \in Requests, Serve(r) \/ Break(r) PROVE Next
  BY <1>5 DEF Serve, Break, Next
<1>6. CASE Approve \/ Deny
  <2>1. PICK state \in {"SENT", "DENIED"} : Decide(page.window, state)
    BY <1>6 DEF Approve, Deny
  <2>2. CASE page.window \in DOMAIN circle
    BY <1>1, <2>1, <2>2 DEF Next
  <2>3. CASE page.window \notin DOMAIN circle
    BY <1>0, <1>2, <2>1, <2>3, InvUndecided DEF Decide
  <2> QED BY <2>2, <2>3
<1>7. CASE Environment
  BY <1>1, <1>7 DEF Environment, Next
<1>8. SettlementNext =>
        UNCHANGED vars \/ AnswerAtOnce \/ Approve \/ Deny \/ Environment
        \/ \E r \in Requests : Send(r) \/ Serve(r) \/ Break(r)
  BY DEF SettlementNext, Click, OpenTab, LeaveTab, LeaveEarly, Reload, ReloadAgain, Refreshed,
     RefreshedInVain, LoseAnswer, CloseWindow, Look, LookInVain
<1> QED BY <1>1, <1>3, <1>4, <1>5, <1>6, <1>7, <1>8 DEF settlementVars

-----------------------------------------------------------------------------
\* The brand's page.  What it shows outlives any change of the record.
LEMMA ShowsStays ==
  ASSUME NEW p, NEW a, NEW b, NEW e, NEW f, Shows(p, a, e),
         a.finalized => b.finalized, e # None => f = e
  PROVE  Shows(p, b, f)
BY DEF Shows

\* A page that is rendered anew shows what was read.
LEMMA RenderedShows ==
  ASSUME NEW a \in AttemptRecord, NEW b, NEW e, a.finalized => b.finalized,
         a.finalized => a.winners \in Selections,
         a.state = "PAYOUT_CONFIRMED" => e # None /\ a.hash = e
  PROVE  Shows(Rendered(a), b, e)
<1>1. View(a) \in Views
  BY DEF View, Views, AttemptRecord
<1>2. Rendered(a) \in Pages
  BY <1>1 DEF Rendered, Pages, AttemptRecord
<1>3. None \notin Asking
  BY SettlementConstants DEF SettlementConstants, Asking
<1> QED BY <1>2, <1>3 DEF Shows, Rendered, View

\* A refusal leaves the page as it was, with nothing pending.
LEMMA RefusedShows ==
  ASSUME NEW p, NEW a, NEW e, Shows(p, a, e), p.window = None
  PROVE  Shows(Refused(p), a, e)
<1>1. /\ Refused(p) \in Pages /\ Refused(p).known = p.known /\ Refused(p).record = p.record
      /\ Refused(p).pending = None /\ Refused(p).request = None /\ Refused(p).window = None
  BY DEF Refused, Shows, Pages
<1>2. None \notin Asking
  BY SettlementConstants DEF SettlementConstants, Asking
<1> QED BY <1>1, <1>2 DEF Shows

\* An answer puts on the page what the server knew when it answered.
LEMMA AnsweredShows ==
  ASSUME NEW p, NEW a \in AttemptRecord, NEW e, Shows(p, a, e), p.window = None,
         p.pending # None, a.state = "PAYOUT_CONFIRMED" => e # None /\ a.hash = e
  PROVE  Shows(Answered(p, a), a, e)
<1>0. /\ p \in Pages /\ p.pending \in {"finalize"} \cup Asking /\ None \notin Asking
      /\ a.state \in States /\ a.approval \in Keys \cup {None} /\ a.hash \in Hashes \cup {None}
  BY SettlementConstants DEF SettlementConstants, Shows, Pages, Asking, AttemptRecord
<1>1. CASE p.pending = "finalize"
  <2> DEFINE new == [Refused(p) EXCEPT !.locked = TRUE, !.stale = TRUE]
  <2>1. /\ new \in Pages /\ new.known = p.known /\ new.record = p.record
        /\ new.pending = None /\ new.request = None /\ new.window = None
    BY <1>0 DEF Refused, Pages
  <2>2. Answered(p, a) = new
    BY <1>1, Zenon DEF Answered
  <2> HIDE DEF new
  <2> QED BY <1>0, <2>1, <2>2 DEF Shows
<1>2. CASE p.pending = "approval"
  <2> DEFINE offered == [state |-> "ACTION_REQUIRED", approval |-> a.approval, hash |-> None]
             new == [p EXCEPT !.request = None, !.window = a.approval, !.record = offered]
  <2>1. offered \in Records /\ offered.state # "PAYOUT_CONFIRMED"
    BY <1>0 DEF Records, States
  <2>2. /\ new \in Pages /\ new.known = p.known /\ new.record = offered
        /\ new.pending = p.pending /\ new.request = None
    <3> HIDE DEF offered
    <3> QED BY <1>0, <2>1 DEF Pages
  <2>3. Answered(p, a) = new
    BY <1>2, Zenon DEF Answered
  <2>4. p.known.finalized
    BY <1>2 DEF Shows, Asking
  <2> HIDE DEF new, offered
  <2> QED BY <1>2, <2>1, <2>2, <2>3, <2>4 DEF Shows
<1>3. CASE p.pending \notin {"finalize", "approval"}
  <2> DEFINE new == [Refused(p) EXCEPT !.record = Told(a), !.stale = TRUE]
  <2>1. Told(a) \in Records /\ Told(a).state = a.state /\ Told(a).hash = a.hash
    BY <1>0 DEF Told, Records
  <2>2. /\ new \in Pages /\ new.known = p.known /\ new.record = Told(a)
        /\ new.pending = None /\ new.request = None /\ new.window = None
    BY <1>0, <2>1 DEF Refused, Pages
  <2>3. Answered(p, a) = new
    BY <1>3, Zenon DEF Answered
  <2>4. p.known.finalized
    BY <1>0, <1>3 DEF Shows, Asking
  <2> HIDE DEF new
  <2> QED BY <1>0, <2>1, <2>2, <2>3, <2>4 DEF Shows
<1> QED BY <1>1, <1>2, <1>3

\* What the record says now is true.
LEMMA RecordTrue ==
  ASSUME Inv
  PROVE  /\ attempt \in AttemptRecord
         /\ attempt.state = "PAYOUT_CONFIRMED" =>
              escrow = "PAID" /\ PaidBy # None /\ attempt.hash = PaidBy
<1>1. escrow = "PAID" => payout.hash \in Keys /\ None \notin Keys
  BY PayoutConstants DEF PayoutConstants, Inv, PaidHasPayout, Payouts, Keys
<1> QED BY <1>1 DEF Inv, TypeOK, ConfirmedIsPaid, PaidBy

LEMMA WinnersNamed ==
  ASSUME Basis
  PROVE  attempt.finalized => attempt.winners \in Selections
BY DEF Basis, Named, Inv, TypeOK, AttemptRecord

\* A button, the tab, a reload.
LEMMA BrowseKept ==
  ASSUME Basis, PageInv,
         \/ \E what \in {"finalize", "approval", "status", "reconcile"} : Click(what)
         \/ OpenTab \/ LeaveTab \/ LeaveEarly \/ Reload \/ ReloadAgain \/ Refreshed \/ RefreshedInVain
  PROVE  Shows(page', attempt, PaidBy)
<1>0. page \in Pages /\ None \notin Asking /\ Shows(page, attempt, PaidBy)
  BY SettlementConstants DEF SettlementConstants, PageInv, Shows, Asking
<1>1. ASSUME NEW what \in {"finalize", "approval", "status", "reconcile"}, Click(what)
      PROVE  Shows(page', attempt, PaidBy)
  <2>1. page' = [page EXCEPT !.pending = what] /\ page.pending = None
    BY <1>1 DEF Click, AtRest
  <2>2. /\ page' \in Pages /\ page'.known = page.known /\ page'.record = page.record
        /\ page'.pending = what /\ page'.request = page.request /\ page'.window = page.window
    BY <1>0, <2>1 DEF Pages
  <2>3. what = "finalize" \/ page.record # None
    <3>1. Offered(what)
      BY <1>1 DEF Click
    <3>2. (what = "approval" => CanInitiate) /\ (what = "status" => CanRefresh)
          /\ (what = "reconcile" => CanReconcile)
      BY <3>1, Zenon DEF Offered
    <3> QED BY <3>2 DEF CanInitiate, CanRefresh, CanReconcile, Unsettled
  <2>4. None \notin {"finalize", "approval", "status", "reconcile"}
    BY SettlementConstants DEF SettlementConstants
  <2> QED BY <1>0, <2>1, <2>2, <2>3, <2>4 DEF Shows, Asking
<1>2. CASE OpenTab
  <2>1. page' = [page EXCEPT !.record = Told(page.known)] /\ page.known.finalized
    BY <1>2 DEF OpenTab
  <2>2. /\ Told(page.known) \in Records
        /\ Told(page.known).state = page.known.state
        /\ Told(page.known).hash = page.known.hash
    BY <1>0 DEF Told, Records, Pages, Views
  <2>3. /\ page' \in Pages /\ page'.known = page.known /\ page'.record = Told(page.known)
        /\ page'.pending = page.pending /\ page'.request = page.request
        /\ page'.window = page.window
    BY <1>0, <2>1, <2>2 DEF Pages
  <2> QED BY <1>0, <2>1, <2>2, <2>3 DEF Shows
<1>3. CASE LeaveTab
  <2>1. page' = [page EXCEPT !.record = None]
    BY <1>3 DEF LeaveTab
  <2>2. /\ page' \in Pages /\ page'.known = page.known /\ page'.record = None
        /\ page'.pending = page.pending /\ page'.request = page.request
        /\ page'.window = page.window
    BY <1>0, <2>1 DEF Pages
  <2> QED BY <1>0, <2>2 DEF Shows
<1>3a. CASE LeaveEarly
  <2> DEFINE old == Refused(page)
  <2>1. Shows(old, attempt, PaidBy)
    BY <1>0, <1>3a, RefusedShows DEF LeaveEarly, Shows
  <2>2. page' = [old EXCEPT !.record = None, !.stale = TRUE]
    BY <1>3a DEF LeaveEarly
  <2> HIDE DEF old
  <2>3. /\ page' \in Pages /\ page'.known = old.known /\ page'.record = None
        /\ page'.pending = old.pending /\ page'.request = old.request
        /\ page'.window = old.window
    BY <2>1, <2>2 DEF Pages, Shows
  <2> QED BY <2>1, <2>3 DEF Shows
<1>4. Shows(Rendered(attempt), attempt, PaidBy) /\ Shows(Rendered(NoAttempt), attempt, PaidBy)
  <2>1. NoAttempt \in AttemptRecord /\ ~NoAttempt.finalized /\ NoAttempt.state # "PAYOUT_CONFIRMED"
    BY DEF NoAttempt, AttemptRecord, States
  <2> QED BY <2>1, RecordTrue, WinnersNamed, RenderedShows DEF Basis
<1>5. CASE Reload \/ ReloadAgain
  BY <1>4, <1>5 DEF Reload, ReloadAgain
<1>6. CASE Refreshed
  <2>1. page' = [page EXCEPT !.stale = FALSE, !.known = View(attempt)]
    BY <1>6 DEF Refreshed
  <2>2. /\ View(attempt) \in Views /\ View(attempt).finalized = attempt.finalized
        /\ View(attempt).winners = attempt.winners /\ View(attempt).state = attempt.state
        /\ View(attempt).hash = attempt.hash
    BY RecordTrue DEF Basis, View, Views, AttemptRecord
  <2>3. /\ page' \in Pages /\ page'.known = View(attempt) /\ page'.record = page.record
        /\ page'.pending = page.pending /\ page'.request = page.request
        /\ page'.window = page.window
    BY <1>0, <2>1, <2>2 DEF Pages
  <2> QED BY <1>0, <2>2, <2>3, RecordTrue, WinnersNamed DEF Shows, Basis
<1>7. CASE RefreshedInVain
  <2>1. Rendered(NoAttempt) \in Pages /\ page.locked \in BOOLEAN
    BY <1>0, <1>4 DEF Shows, Pages
  <2>2. PICK locked \in BOOLEAN : page' = [Rendered(NoAttempt) EXCEPT !.locked = locked]
    BY <1>7, <2>1 DEF RefreshedInVain
  <2> DEFINE old == Rendered(NoAttempt)
  <2>3. /\ page' \in Pages /\ page'.known = old.known /\ page'.record = old.record
        /\ page'.pending = old.pending /\ page'.request = old.request
        /\ page'.window = old.window
    <3>1. old \in Pages /\ page' = [old EXCEPT !.locked = locked]
      BY <2>1, <2>2
    <3> HIDE DEF old
    <3> QED BY <3>1 DEF Pages
  <2> QED BY <1>4, <2>3 DEF Shows
<1> QED BY <1>1, <1>2, <1>3, <1>3a, <1>5, <1>6, <1>7

\* A request, its answer, and Circle's window.
LEMMA AskKept ==
  ASSUME Basis, Basis', Lasts, PageInv,
         \/ \E r \in Requests : Send(r) \/ Serve(r) \/ Break(r)
         \/ AnswerAtOnce \/ LoseAnswer \/ Approve \/ Deny \/ CloseWindow
  PROVE  PageInv'
<1>0. /\ page \in Pages /\ None \notin Asking /\ None # "finalize" /\ None \notin Requests
      /\ Shows(page, attempt, PaidBy)
  BY SettlementConstants, PayoutConstants
     DEF SettlementConstants, PayoutConstants, PageInv, Shows, Asking
<1>1. Shows(page, attempt', PaidBy')
  BY <1>0, ShowsStays DEF Lasts
<1>2. /\ attempt' \in AttemptRecord
      /\ attempt'.state = "PAYOUT_CONFIRMED" => PaidBy' # None /\ attempt'.hash = PaidBy'
  <2>1. /\ attempt' \in AttemptRecord
        /\ attempt'.state = "PAYOUT_CONFIRMED" => escrow' = "PAID" /\ attempt'.hash = payout'.hash
        /\ escrow' = "PAID" => payout'.hash \in Keys
    BY DEF Basis, Inv, TypeOK, ConfirmedIsPaid, PaidHasPayout, Payouts
  <2>2. None \notin Keys
    BY PayoutConstants DEF PayoutConstants, Keys
  <2> QED BY <2>1, <2>2 DEF PaidBy
<1>3. ASSUME page' = page PROVE PageInv'
  BY <1>1, <1>3 DEF PageInv
<1>4. ASSUME page.window = None, page' = Refused(page) PROVE PageInv'
  BY <1>1, <1>4, RefusedShows DEF PageInv
<1>5. ASSUME page.window = None, page.pending # None, page' = Answered(page, attempt')
      PROVE  PageInv'
  BY <1>1, <1>2, <1>5, AnsweredShows DEF PageInv
<1>6. page.request # None => page.window = None /\ page.pending # None
  BY <1>0 DEF Shows
<1>7. ASSUME NEW r \in Requests, Send(r) PROVE PageInv'
  <2>1. page' = [page EXCEPT !.request = r] /\ page.window = None /\ page.pending # None
    BY <1>0, <1>7 DEF Send, Unsent, Asking
  <2>2. /\ page' \in Pages /\ page'.known = page.known /\ page'.record = page.record
        /\ page'.pending = page.pending /\ page'.window = page.window
    BY <1>0, <2>1 DEF Pages
  <2> QED BY <1>1, <2>1, <2>2 DEF PageInv, Shows
<1>8. ASSUME NEW r \in Requests, Serve(r) \/ Break(r) PROVE PageInv'
  <2>1. \/ page' = page
        \/ page.request = r /\ page' \in {Answered(page, attempt'), Refused(page)}
    BY <1>8 DEF Serve, Break
  <2> QED BY <1>0, <1>3, <1>4, <1>5, <1>6, <2>1
<1>9. CASE AnswerAtOnce
  <2>1. page.window = None /\ page.pending # None
    BY <1>0, <1>9 DEF AnswerAtOnce, ArrivesLate, Unsent, Asking
  <2>2. page' \in {Answered(page, attempt), Refused(page)} /\ attempt' = attempt
    BY <1>9 DEF AnswerAtOnce, ArrivesLate
  <2> QED BY <1>4, <1>5, <2>1, <2>2
<1>10. CASE LoseAnswer
  BY <1>4, <1>6, <1>10 DEF LoseAnswer
<1>11. CASE Approve \/ Deny \/ CloseWindow
  <2>1. page.request = None /\ page.known.finalized
    BY <1>0, <1>11 DEF Approve, Deny, CloseWindow, Shows, Asking
  <2>2. PICK next \in {None, "status"} :
          page' = [page EXCEPT !.window = None, !.pending = next]
    BY <1>11 DEF Approve, Deny, CloseWindow
  <2>3. /\ page' \in Pages /\ page'.known = page.known /\ page'.record = page.record
        /\ page'.request = page.request /\ page'.window = None
    BY <1>0, <2>2 DEF Pages
  <2> QED BY <1>1, <2>1, <2>3 DEF PageInv, Shows
<1> QED BY <1>7, <1>8, <1>9, <1>10, <1>11

\* Every step keeps the page true.
LEMMA PageStep ==
  ASSUME Basis, Basis', Lasts, PageInv, [SettlementNext]_settlementVars
  PROVE  PageInv'
<1>1. CASE UNCHANGED page
  BY <1>1, ShowsStays DEF PageInv, Lasts
<1>2. ASSUME Shows(page', attempt, PaidBy) PROVE PageInv'
  BY <1>2, ShowsStays DEF PageInv, Lasts
<1>3. CASE (\E c \in Readers : Look(c) \/ LookInVain(c)) \/ Environment
  BY <1>1, <1>3 DEF Look, LookInVain, Environment, shown
<1> QED BY <1>1, <1>2, <1>3, BrowseKept, AskKept DEF SettlementNext, settlementVars

-----------------------------------------------------------------------------
\* The creators' pages.  A place in a winner list names its creator.
LEMMA PlaceNames ==
  ASSUME NEW a \in AttemptRecord, NEW c \in Winners(a)
  PROVE  /\ Place(c, a) \in Nat \ {0}
         /\ a.winners # None /\ a.winners[Place(c, a)] = c
<1>1. a.winners # None /\ a.winners \in Selections
  BY DEF Winners, AttemptRecord
<1>2. a.winners \in Seq(Creators)
  BY <1>1, SettlementConstants DEF SettlementConstants
<1>3. DOMAIN a.winners \subseteq Nat \ {0}
  BY <1>2
<1>4. \E i \in DOMAIN a.winners : a.winners[i] = c
  BY <1>1 DEF Winners
<1>5. /\ Place(c, a) \in DOMAIN a.winners
      /\ a.winners[Place(c, a)] = c
  BY <1>4, Zenon DEF Place
<1> QED BY <1>1, <1>3, <1>5

\* What a page is told: a reward of the kinds there are, confirmed only with the
\* evidence at hand.
LEMMA StandingOf ==
  ASSUME NEW c, NEW a \in AttemptRecord, NEW e
  PROVE  /\ Standing(c, a, e) \in Standings
         /\ Standing(c, a, e).reward = "Paid" =>
              c \in Winners(a) /\ a.state = "PAYOUT_CONFIRMED" /\ e # None
         /\ Standing(c, a, e).status = "Reward Paid" <=>
              c \in Winners(a) /\ a.state = "PAYOUT_CONFIRMED"
         /\ Standing(c, a, e).place = IF c \in Winners(a) THEN Place(c, a) ELSE 0
<1> DEFINE now == Standing(c, a, e)
           reward == RewardStatus(a, e)
           status == StatusOf(a, reward)
<1>1. CASE c \notin Winners(a)
  <2>1. now = Unlisted
    BY <1>1 DEF Standing
  <2> HIDE DEF now
  <2>2. now \in Standings /\ now.reward # "Paid" /\ now.status # "Reward Paid" /\ now.place = 0
    BY <2>1 DEF Unlisted, Standings
  <2> QED BY <1>1, <2>2 DEF now
<1>2. CASE c \in Winners(a)
  <2>1. now = [status |-> status, reward |-> reward, place |-> Place(c, a)]
    BY <1>2 DEF Standing
  <2>2. Place(c, a) \in Nat \ {0}
    BY <1>2, PlaceNames
  <2>3. /\ reward \in {"Paid", "Settlement Failed", "Processing", "Pending Settlement"}
        /\ reward = "Paid" => a.state = "PAYOUT_CONFIRMED" /\ e # None
    BY DEF RewardStatus, Paid
  <2> HIDE DEF reward
  <2>4. /\ status \in {"Winner", "Reward Paid"}
        /\ (status = "Reward Paid") <=> (a.state = "PAYOUT_CONFIRMED")
    BY <2>3 DEF StatusOf
  <2> HIDE DEF status, now
  <2>5. now.status = status /\ now.reward = reward /\ now.place = Place(c, a)
    BY <2>1
  <2>6. now \in Standings
    <3>1. PICK place \in Nat, r \in {"Paid", "Settlement Failed", "Processing", "Pending Settlement"},
               s \in {"Winner", "Reward Paid"} : now = [status |-> s, reward |-> r, place |-> place]
      BY <2>1, <2>2, <2>3, <2>4
    <3> QED BY <3>1 DEF Standings
  <2> QED BY <1>2, <2>3, <2>4, <2>5, <2>6 DEF now
<1> QED BY <1>1, <1>2

LEMMA UnlistedStanding ==
  /\ Unlisted \in Standings /\ Unlisted.place = 0
  /\ Unlisted.reward # "Paid" /\ Unlisted.status # "Reward Paid"
BY DEF Unlisted, Standings

\* Every step keeps what creators were told of payments true.
LEMMA HonestStep ==
  ASSUME Basis, Lasts, HonestInv, [SettlementNext]_settlementVars
  PROVE  HonestInv'
<1>0. MaxSetbacks \in Nat
  BY SettlementConstants DEF SettlementConstants
<1>1. setbacks \in 0..MaxSetbacks /\ told \in [Readers -> Standings] /\ \A c \in Readers : Honest(told[c])
  BY DEF HonestInv
<1>2. \A s : Honest(s) => (PaidBy' # None \/ ("Paid" # s.reward /\ s.status # "Reward Paid"))
                          /\ ("Paid" = s.reward => evidence' # None)
  BY DEF Honest, Lasts
<1>3. CASE UNCHANGED told /\ (UNCHANGED setbacks \/ Setback)
  <2>1. setbacks' \in 0..MaxSetbacks
    BY <1>0, <1>1, <1>3 DEF Setback
  <2>2. \A c \in Readers : Honest(told[c])'
    BY <1>1, <1>2, <1>3 DEF Honest
  <2> QED BY <1>1, <1>3, <2>1, <2>2 DEF HonestInv
<1>4. ASSUME NEW c \in Readers, Look(c) \/ LookInVain(c) PROVE HonestInv'
  <2>1. PICK now \in {Unlisted, Standing(c, attempt, evidence), Standing(c, attempt, None)} :
          told' = [told EXCEPT ![c] = now]
    BY <1>4 DEF Look, LookInVain
  <2>2. UNCHANGED <<escrow, payout, evidence>> /\ setbacks' \in 0..MaxSetbacks
    BY <1>0, <1>1, <1>4 DEF Look, LookInVain, vars, Setback
  <2>3. now \in Standings /\ Honest(now)
    <3>1. /\ attempt \in AttemptRecord
          /\ attempt.state = "PAYOUT_CONFIRMED" => PaidBy # None
      BY RecordTrue DEF Basis
    <3> QED BY <2>1, <3>1, StandingOf, UnlistedStanding DEF Honest
  <2>4. told' \in [Readers -> Standings] /\ told'[c] = now
        /\ \A d \in Readers \ {c} : told'[d] = told[d]
    BY <1>1, <2>1, <2>3
  <2>5. ASSUME NEW d \in Readers PROVE Honest(told[d])'
    <3>1. Honest(told'[d])
      BY <1>1, <2>3, <2>4
    <3> QED BY <2>2, <3>1 DEF Honest, PaidBy
  <2> QED BY <2>2, <2>4, <2>5 DEF HonestInv
<1>5. SettlementNext =>
        \/ UNCHANGED told /\ (UNCHANGED setbacks \/ Setback)
        \/ \E c \in Readers : Look(c) \/ LookInVain(c)
  BY DEF SettlementNext, Click, OpenTab, LeaveTab, LeaveEarly, Reload, ReloadAgain, Refreshed,
     RefreshedInVain, Send, Serve, Break, AnswerAtOnce, LoseAnswer, Approve, Deny,
     CloseWindow, Environment, shown
<1> QED BY <1>3, <1>4, <1>5 DEF settlementVars

LEMMA PublicStart == SettlementInit => PublicInv
<1> SUFFICES ASSUME SettlementInit PROVE PublicInv
  OBVIOUS
<1>1. Init /\ attempt = NoAttempt
  BY DEF SettlementInit, Init
<1>2. Basis
  BY <1>1, InitInv DEF Basis, Named, NoAttempt
<1>3. PageInv
  BY <1>1, <1>2, RecordTrue, WinnersNamed, RenderedShows DEF SettlementInit, PageInv, Basis
<1>4. HonestInv
  <2>1. told = [c \in Readers |-> Unlisted] /\ setbacks = 0
    BY DEF SettlementInit
  <2>2. setbacks \in 0..MaxSetbacks
    BY <2>1, SettlementConstants DEF SettlementConstants
  <2>3. told \in [Readers -> Standings] /\ \A c \in Readers : told[c] = Unlisted
    BY <2>1, UnlistedStanding
  <2> QED BY <2>2, <2>3, UnlistedStanding DEF HonestInv, Honest
<1> QED BY <1>2, <1>3, <1>4 DEF PublicInv

\* What the pages rest on, with any number of requests under way.
THEOREM PublicInvHolds == SettlementSpec => []PublicInv
<1>1. PublicInv /\ [SettlementNext]_settlementVars => PublicInv'
  BY PublicStep, PageStep, HonestStep DEF PublicInv
<1> QED BY <1>1, PublicStart, PTL DEF SettlementSpec

\* Every variable of the pages keeps its type.
THEOREM SettlementTypeCorrect == SettlementSpec => []SettlementTypeOK
<1>1. PublicInv => SettlementTypeOK
  BY DEF PublicInv, PageInv, Shows, Pages, HonestInv, Standings, SettlementTypeOK
<1> QED BY <1>1, PublicInvHolds, PTL

\* However requests overlap, nobody reads of a payout that was not made: a paid
\* reward has the payout's own evidence, and a completed campaign the hash of
\* the transaction that paid it.
THEOREM PaymentIsRealHolds == SettlementSpec => []PaymentIsReal
<1>1. ASSUME PublicInv PROVE PaymentIsReal
  <2>1. PaidBy # None => escrow = "PAID" /\ PaidBy = payout.hash
    BY DEF PaidBy
  <2>2. evidence # None => evidence = payout
    BY <1>1 DEF PublicInv, Basis, Inv, EvidenceIsThePayout
  <2>3. /\ Completed => PaidBy # None /\ page.known.hash = PaidBy
        /\ TabCompleted => PaidBy # None /\ page.record.hash = PaidBy
    BY <1>1 DEF PublicInv, PageInv, Shows, Completed, TabCompleted
  <2>4. \A c \in Readers : Honest(told[c])
    BY <1>1 DEF PublicInv, HonestInv
  <2> QED BY <2>1, <2>2, <2>3, <2>4 DEF Honest, PaymentIsReal
<1> QED BY <1>1, PublicInvHolds, PTL

-----------------------------------------------------------------------------
(***************************************************************************)
(* What the settlement tab and the creators' pages show (Settlement), for  *)
(* any number of creators and setbacks, when the service handles one       *)
(* request at a time.                                                      *)
(*                                                                         *)
(* What a page shows was read earlier.  It stays true because the record   *)
(* only moves on (Recorded): a finalization, its winners, a confirmation   *)
(* and a payment are never taken back.  That much is not so when requests  *)
(* overlap: there a late status or verdict reverts a confirmed record      *)
(* (ConfirmedIsTerminal is refuted by TLC).                                *)
(***************************************************************************)

\* The page never asks in the mode "default", whose errors are recorded, so a
\* request that gets past its first read is about a finalization that stands
\* and a payout that is not confirmed.
Plain(q) ==
  /\ q.mode # "default" /\ q.pc # "markFailed"
  /\ q.pc \notin {"idle", "lockWinners", "recordFinalized", "readAttempt"} => attempt.finalized
  /\ q.pc \notin {"idle", "readAttempt", "persistEvidence", "completeSettlement"} =>
       attempt.state # "PAYOUT_CONFIRMED"

\* The record has winners only once a finalization of them is under way.
WinnersStay ==
  attempt.winners # None => attempt.finalized \/ attempt.state = "FINALIZATION_IN_PROGRESS"

ServerInv ==
  /\ Inv
  /\ AloneInv
  /\ \A r \in Requests : Plain(requests[r])
  /\ WinnersStay

\* What no step takes back.
Recorded ==
  /\ attempt.finalized => attempt'.finalized
  /\ attempt.winners # None => attempt'.winners = attempt.winners
  /\ attempt.state = "PAYOUT_CONFIRMED" => attempt'.state = "PAYOUT_CONFIRMED"
  /\ escrow = "PAID" => escrow' = "PAID"

Listed(s, c) ==
  /\ s.place # 0 => c \in Winners(attempt) /\ s.place = Place(c, attempt)
  /\ "Paid" = s.reward \/ s.status = "Reward Paid" =>
       s.place # 0 /\ escrow = "PAID"
  /\ s.status = "Reward Paid" => attempt.state = "PAYOUT_CONFIRMED"

ToldInv ==
  /\ told \in [Readers -> Standings]
  /\ setbacks \in Nat
  /\ \A c \in Readers : Listed(told[c], c)

SettlementInv == ServerInv /\ Basis /\ PageInv /\ ToldInv

\* A confirmed payout was approved, and the record still has the approval.
LEMMA ConfirmedIsOffered ==
  ASSUME Inv, AloneInv, attempt.state = "PAYOUT_CONFIRMED"
  PROVE  attempt.approval # None
<1>1. escrow = "PAID" /\ ScopeKey # None
  BY PayoutConstants DEF PayoutConstants, Inv, ConfirmedIsPaid
<1> QED BY <1>1 DEF AloneInv, RecordMatchesApproval

-----------------------------------------------------------------------------
\* The server.  A request that has ended relies on nothing.
LEMMA PlainIdle ==
  ASSUME NEW r \in Requests, requests'[r] = Idle
  PROVE  Plain(requests[r])'
BY SettlementConstants DEF SettlementConstants, Plain, Idle

\* Where a plain request goes: none is in the mode "default", so an error ends it.
LEMMA PlainSteps ==
  ASSUME ServerInv, NEW r \in Requests
  PROVE  /\ Finish(r) \/ Throw(r) => Plain(requests[r])'
         /\ \A step \in Steps : Go(r, step) =>
              requests'[r].pc = step /\ requests'[r].mode # "default"
<1>1. /\ requests \in [Requests -> RequestLocals] /\ requests[r] \in RequestLocals
      /\ requests[r].mode # "default"
  BY DEF ServerInv, Inv, TypeOK, Plain
<1>2. Finish(r) => Plain(requests[r])'
  BY <1>1, PlainIdle DEF Finish
<1>3. Throw(r) => Finish(r)
  BY <1>1 DEF Throw
<1>4. \A step \in Steps : Go(r, step) =>
        requests'[r].pc = step /\ requests'[r].mode # "default"
  BY <1>1 DEF Go, RequestLocals
<1> QED BY <1>2, <1>3, <1>4

\* A request that reads the record stays plain if it goes on for a finalization
\* whose payout is not confirmed.
LEMMA PlainReads ==
  ASSUME NEW r \in Requests, UNCHANGED attempt,
         requests'[r].mode # "default", requests'[r].pc # "markFailed",
         attempt.finalized \/ requests'[r].pc \in {"lockWinners", "readAttempt"},
         \/ attempt.state # "PAYOUT_CONFIRMED"
         \/ requests'[r].pc \in {"readAttempt", "persistEvidence", "completeSettlement"}
  PROVE  Plain(requests[r])'
BY DEF Plain

\* One that writes it says nothing new of the finalization.
LEMMA PlainWrites ==
  ASSUME attempt.finalized, attempt'.finalized, attempt.state # "PAYOUT_CONFIRMED",
         attempt'.winners = attempt.winners, UNCHANGED escrow
  PROVE  WinnersStay' /\ Recorded
BY DEF WinnersStay, Recorded

\* Without a write the record stays what it was.
LEMMA PlainKept ==
  ASSUME ServerInv, UNCHANGED <<attempt, escrow>>
  PROVE  WinnersStay' /\ Recorded
BY DEF ServerInv, WinnersStay, Recorded

\* The steps of a finalization: its winners are the record's first.
LEMMA FinalizePlain ==
  ASSUME ServerInv, NEW r \in Requests,
         \/ \E winners \in Selections : StartFinalize(r, winners)
         \/ LockWinners(r) \/ RecordFinalized(r)
  PROVE  Plain(requests[r])' /\ WinnersStay' /\ Recorded
<1>0. /\ requests \in [Requests -> RequestLocals] /\ requests[r] \in RequestLocals
      /\ attempt \in AttemptRecord /\ Current(requests[r]) /\ Plain(requests[r])
  BY DEF ServerInv, Inv, TypeOK, AloneInv
<1>1. ASSUME NEW winners \in Selections, StartFinalize(r, winners)
      PROVE  Plain(requests[r])' /\ WinnersStay' /\ Recorded
  <2>1. requests'[r].pc = "lockWinners" /\ requests'[r].mode = None
    BY <1>0, <1>1 DEF StartFinalize, Idle
  <2>2. attempt.state # "PAYOUT_CONFIRMED" /\ UNCHANGED <<attempt, escrow>>
    BY <1>1 DEF StartFinalize, NotFinalized, outside
  <2>3. None # "default"
    BY SettlementConstants DEF SettlementConstants
  <2> QED BY <2>1, <2>2, <2>3, PlainReads, PlainKept
<1>2. CASE LockWinners(r)
  <2>1. CASE Finish(r) /\ UNCHANGED attempt
    BY <1>2, <2>1, PlainSteps, PlainKept DEF LockWinners, outside
  <2>2. CASE AcquireLock(r) /\ GoAfresh(r, "recordFinalized")
    <3>1. ~attempt.finalized /\ attempt.state \notin LockConflict
      BY <1>0, <1>2, <2>2 DEF LockWinners, At, Current, AcquireLock
    <3>2. attempt.winners = None
      BY <3>1 DEF ServerInv, WinnersStay, LockConflict
    <3>3. attempt'.state = "FINALIZATION_IN_PROGRESS"
      BY <1>0, <2>2 DEF AcquireLock, AttemptRecord
    <3>4. requests'[r].pc = "recordFinalized" /\ requests'[r].mode = None
      BY <1>0, <2>2 DEF GoAfresh, Idle
    <3>5. Plain(requests[r])'
      BY <3>3, <3>4, SettlementConstants DEF Plain, SettlementConstants
    <3>6. WinnersStay' /\ Recorded
      BY <1>2, <3>1, <3>2, <3>3 DEF WinnersStay, Recorded, LockWinners, outside, LockConflict
    <3> QED BY <3>5, <3>6
  <2> QED BY <1>2, <2>1, <2>2 DEF LockWinners
<1>3. CASE RecordFinalized(r)
  <2>1. Plain(requests[r])' /\ UNCHANGED escrow
    BY <1>3, PlainSteps DEF RecordFinalized, outside
  <2>2. attempt.state # "PAYOUT_CONFIRMED"
    BY <1>0, <1>3 DEF RecordFinalized, At, Plain
  <2>3. attempt' = attempt \/ (attempt'.finalized /\ attempt'.winners = attempt.winners)
    BY <1>0, <1>3 DEF RecordFinalized, Patch, AttemptRecord
  <2> QED BY <2>1, <2>2, <2>3, PlainKept DEF WinnersStay, Recorded
<1> QED BY <1>1, <1>2, <1>3

\* The steps towards an approval.
LEMMA ApprovalPlain ==
  ASSUME ServerInv, NEW r \in Requests,
         \/ \E winners \in Selections : StartApproval(r, winners, "create-approval")
         \/ ReadAttempt(r) \/ Reserve(r) \/ MarkReserved(r) \/ OpenSession(r)
         \/ CreateChallenge(r)
  PROVE  Plain(requests[r])' /\ WinnersStay' /\ Recorded
<1>0. /\ requests \in [Requests -> RequestLocals] /\ requests[r] \in RequestLocals
      /\ attempt \in AttemptRecord /\ Current(requests[r]) /\ Plain(requests[r])
  BY DEF ServerInv, Inv, TypeOK, AloneInv
<1>1. UNCHANGED escrow
  BY DEF StartApproval, ReadAttempt, Reserve, MarkReserved, OpenSession, CreateChallenge, outside
<1>2. ASSUME NEW winners \in Selections, StartApproval(r, winners, "create-approval")
      PROVE  Plain(requests[r])' /\ WinnersStay' /\ Recorded
  <2>1. requests'[r].pc = "readAttempt" /\ requests'[r].mode = "create-approval"
    BY <1>0, <1>2 DEF StartApproval, Idle
  <2>2. UNCHANGED attempt
    BY <1>2 DEF StartApproval
  <2> QED BY <1>1, <2>1, <2>2, PlainReads, PlainKept
<1>3. CASE ReadAttempt(r)
  <2>1. UNCHANGED attempt
    BY <1>3 DEF ReadAttempt
  <2>2. CASE Throw(r) \/ Finish(r)
    BY <1>1, <2>1, <2>2, PlainSteps, PlainKept
  <2>3. CASE /\ MatchesFinalized(r) /\ attempt.approval = None
             /\ Go(r, "reserve")
    <3>1. requests'[r].pc = "reserve" /\ requests'[r].mode # "default" /\ attempt.finalized
      BY <2>3, PlainSteps DEF Steps, ApprovalSteps, MatchesFinalized
    <3>2. attempt.state # "PAYOUT_CONFIRMED"
      BY <2>3, ConfirmedIsOffered DEF ServerInv
    <3> QED BY <1>1, <2>1, <3>1, <3>2, PlainReads, PlainKept
  <2> QED BY <1>3, <2>2, <2>3 DEF ReadAttempt
<1>4. CASE Reserve(r)
  <2>0. requests[r].winners = attempt.winners /\ attempt.finalized
        /\ attempt.state # "PAYOUT_CONFIRMED" /\ requests[r].mode # "default"
    BY <1>0, <1>4 DEF Reserve, At, Current, Approving, Plain
  <2>1. CASE Finish(r) /\ UNCHANGED attempt
    BY <1>1, <2>1, PlainSteps, PlainKept
  <2>2. CASE /\ AcquireLock(r)
             /\ requests' = [requests EXCEPT ![r].pc = "markReserved", ![r].token = r]
    <3>1. /\ attempt'.winners = attempt.winners /\ attempt'.finalized
          /\ attempt'.state = "FINALIZATION_IN_PROGRESS"
      BY <1>0, <2>0, <2>2 DEF AcquireLock, AttemptRecord
    <3>2. requests'[r].pc = "markReserved" /\ requests'[r].mode # "default"
      BY <1>0, <2>0, <2>2 DEF RequestLocals
    <3>3. Plain(requests[r])'
      BY <3>1, <3>2 DEF Plain
    <3> QED BY <1>1, <2>0, <3>1, <3>3, PlainWrites
  <2> QED BY <1>4, <2>1, <2>2 DEF Reserve
<1>5. CASE MarkReserved(r)
  <2>0. attempt.finalized /\ attempt.state # "PAYOUT_CONFIRMED"
    BY <1>0, <1>5 DEF MarkReserved, At, Plain
  <2>1. CASE Throw(r) /\ UNCHANGED attempt
    BY <1>1, <2>1, PlainSteps, PlainKept
  <2>2. CASE /\ attempt' = [attempt EXCEPT !.state = "APPROVAL_CREATION_IN_PROGRESS"]
             /\ Go(r, "openSession")
    <3>1. /\ attempt'.winners = attempt.winners /\ attempt'.finalized
          /\ attempt'.state # "PAYOUT_CONFIRMED"
      BY <1>0, <2>0, <2>2 DEF AttemptRecord
    <3>2. requests'[r].pc = "openSession" /\ requests'[r].mode # "default"
      BY <2>2, PlainSteps DEF Steps, ApprovalSteps
    <3>3. Plain(requests[r])'
      BY <3>1, <3>2 DEF Plain
    <3> QED BY <1>1, <2>0, <3>1, <3>3, PlainWrites
  <2> QED BY <1>5, <2>1, <2>2 DEF MarkReserved
<1>6. CASE OpenSession(r)
  <2>0. /\ attempt.finalized /\ attempt.state # "PAYOUT_CONFIRMED" /\ UNCHANGED attempt
        /\ requests[r].mode # "default"
    BY <1>0, <1>6 DEF OpenSession, At, Plain
  <2>1. /\ requests'[r].mode # "default"
        /\ requests'[r].pc = IF attempt.approval = None THEN "createChallenge" ELSE "recordApproval"
    BY <1>0, <1>6, <2>0 DEF OpenSession, RequestLocals
  <2> QED BY <1>1, <2>0, <2>1, PlainReads, PlainKept
<1>7. CASE CreateChallenge(r)
  <2>0. /\ attempt.finalized /\ attempt.state # "PAYOUT_CONFIRMED" /\ UNCHANGED attempt
        /\ requests[r].mode # "default"
    BY <1>0, <1>7 DEF CreateChallenge, At, Plain
  <2>1. requests'[r].mode # "default" /\ requests'[r].pc \in {"recordApproval", "recordRejection"}
    <3>1. CASE requests' = [requests EXCEPT ![r] =
                 [@ EXCEPT !.pc = "recordApproval", !.approval = requests[r].key,
                           !.key = None, !.winners = None]]
      BY <1>0, <2>0, <3>1 DEF RequestLocals
    <3>2. CASE Go(r, "recordRejection")
      BY <3>2, PlainSteps DEF Steps, ApprovalSteps
    <3> QED BY <1>7, <3>1, <3>2 DEF CreateChallenge
  <2> QED BY <1>1, <2>0, <2>1, PlainReads, PlainKept
<1> QED BY <1>2, <1>3, <1>4, <1>5, <1>6, <1>7

\* A confirmed record has the hash of the payout.
LEMMA ConfirmedHasHash ==
  ASSUME Inv, attempt.state = "PAYOUT_CONFIRMED"
  PROVE  attempt.hash # None
<1>1. payout \in Payouts /\ attempt.hash = payout.hash
  BY DEF Inv, ConfirmedIsPaid, PaidHasPayout
<1> QED BY <1>1, PayoutConstants DEF PayoutConstants, Payouts, Keys

\* The steps that record what became of an approval.
LEMMA RecordPlain ==
  ASSUME ServerInv, NEW r \in Requests,
         RecordRejection(r) \/ RecordApproval(r) \/ RecordRecovery(r) \/ MarkFailed(r)
  PROVE  Plain(requests[r])' /\ WinnersStay' /\ Recorded
<1>0. attempt \in AttemptRecord /\ Plain(requests[r])
  BY DEF ServerInv, Inv, TypeOK
<1>1. /\ attempt.finalized /\ attempt.state # "PAYOUT_CONFIRMED" /\ UNCHANGED escrow
      /\ ~MarkFailed(r)
  BY <1>0 DEF Plain, At, RecordRejection, RecordApproval, RecordRecovery, MarkFailed, outside
<1>2. attempt'.finalized /\ attempt'.winners = attempt.winners
  BY <1>0, <1>1 DEF RecordRejection, RecordApproval, RecordRecovery, AttemptRecord
<1>3. CASE Finish(r) \/ Throw(r)
  BY <1>1, <1>2, <1>3, PlainSteps, PlainWrites
<1>4. CASE Go(r, "recordRecovery") /\ UNCHANGED attempt
  BY <1>1, <1>2, <1>4, PlainSteps, PlainReads, PlainWrites DEF Steps, ApprovalSteps
<1> QED BY <1>1, <1>3, <1>4 DEF RecordRejection, RecordApproval, RecordRecovery

\* The steps that ask Circle.
LEMMA StatusPlain ==
  ASSUME ServerInv, NEW r \in Requests,
         StartStatus(r) \/ AskChallenge(r) \/ AskTransaction(r) \/ RecordTransaction(r)
  PROVE  Plain(requests[r])' /\ WinnersStay' /\ Recorded
<1>0. /\ requests \in [Requests -> RequestLocals] /\ requests[r] \in RequestLocals
      /\ attempt \in AttemptRecord /\ Plain(requests[r]) /\ Sound(requests[r])
  BY DEF ServerInv, Inv, TypeOK
<1>1. /\ attempt.finalized /\ attempt.state # "PAYOUT_CONFIRMED" /\ UNCHANGED escrow
  BY <1>0 DEF Plain, At, StartStatus, NotConfirmed, AskChallenge, AskTransaction,
     RecordTransaction, outside
<1>5. ASSUME AskChallenge(r)
      PROVE  \/ UNCHANGED attempt /\ Finish(r)
             \/ Patch([attempt EXCEPT !.state = "FINALIZATION_FAILED", !.tx = None]) /\ Finish(r)
             \/ /\ Patch([attempt EXCEPT !.tx = requests[r].approval])
                /\ requests' = [requests EXCEPT ![r] =
                     [Idle EXCEPT !.pc = "askTransaction", !.tx = requests[r].approval]]
  BY <1>5, Zenon DEF AskChallenge
<1>2. attempt'.finalized /\ attempt'.winners = attempt.winners
  BY <1>0, <1>1 DEF StartStatus, AskChallenge, AskTransaction, RecordTransaction, Patch,
     AttemptRecord
<1>3. attempt'.state # "PAYOUT_CONFIRMED"
  <2>1. CASE StartStatus(r) \/ AskTransaction(r)
    BY <1>1, <2>1 DEF StartStatus, AskTransaction
  <2>2. CASE AskChallenge(r)
    BY <1>0, <1>1, <1>5, <2>2 DEF Patch, AttemptRecord
  <2>3. CASE RecordTransaction(r)
    <3>1. requests[r].verdict # "PAYOUT_CONFIRMED"
      BY <1>0, <2>3 DEF RecordTransaction, At, Sound
    <3> QED BY <1>0, <1>1, <2>3, <3>1 DEF RecordTransaction, Patch, AttemptRecord
  <2> QED BY <2>1, <2>2, <2>3
<1>4. requests'[r].mode # "default" /\ requests'[r].pc # "markFailed"
  <2>1. None # "default"
    BY SettlementConstants DEF SettlementConstants
  <2>2. CASE StartStatus(r)
    BY <1>0, <2>1, <2>2 DEF StartStatus, Idle
  <2>3. CASE AskChallenge(r)
    <3>1. CASE Finish(r)
      BY <1>0, <2>1, <3>1 DEF Finish, Idle
    <3>2. CASE requests' = [requests EXCEPT ![r] =
                 [Idle EXCEPT !.pc = "askTransaction", !.tx = requests[r].approval]]
      BY <1>0, <2>1, <3>2 DEF Idle
    <3> QED BY <1>5, <2>3, <3>1, <3>2
  <2>4. CASE AskTransaction(r)
    <3>1. PICK hash, verdict : requests' = [requests EXCEPT ![r] =
              [@ EXCEPT !.pc = "recordTransaction", !.hash = hash, !.verdict = verdict]]
      BY <2>4, Zenon DEF AskTransaction
    <3> QED BY <1>0, <3>1 DEF RequestLocals, Plain
  <2>5. CASE RecordTransaction(r)
    BY <1>0, <2>1, <2>5 DEF RecordTransaction, Idle
  <2> QED BY <2>2, <2>3, <2>4, <2>5
<1> QED BY <1>1, <1>2, <1>3, <1>4, PlainWrites DEF Plain

\* The steps of a reconciliation: only a verdict confirms, and nothing after it
\* writes to the record.
LEMMA ReconcilePlain ==
  ASSUME ServerInv, NEW r \in Requests,
         \/ \E hash \in ClientHashes : StartReconcile(r, hash)
         \/ ResolveFinalized(r) \/ ReadReceipt(r) \/ RecordVerdict(r)
         \/ PersistEvidence(r) \/ CompleteSettlement(r) \/ Abort(r)
  PROVE  Plain(requests[r])' /\ WinnersStay' /\ Recorded
<1>0. /\ requests \in [Requests -> RequestLocals] /\ requests[r] \in RequestLocals
      /\ attempt \in AttemptRecord /\ Plain(requests[r]) /\ None # "default"
  BY SettlementConstants DEF SettlementConstants, ServerInv, Inv, TypeOK
<1>1. UNCHANGED escrow
  BY DEF StartReconcile, ResolveFinalized, ReadReceipt, RecordVerdict, PersistEvidence,
     CompleteSettlement, Abort, outside
<1>2. ASSUME Finish(r) \/ Throw(r), UNCHANGED attempt
      PROVE  Plain(requests[r])' /\ WinnersStay' /\ Recorded
  BY <1>1, <1>2, PlainSteps, PlainKept
<1>3. ASSUME NEW hash, Reconcilable(hash), Resolve(r, hash), UNCHANGED attempt
      PROVE  Plain(requests[r])' /\ WinnersStay' /\ Recorded
  <2>1. requests'[r].pc = "readReceipt" /\ requests'[r].mode = None
    BY <1>0, <1>3 DEF Resolve, Idle
  <2>2. attempt.finalized /\ attempt.state # "PAYOUT_CONFIRMED"
    BY <1>3, ConfirmedHasHash DEF Reconcilable, ServerInv
  <2> QED BY <1>0, <1>1, <1>3, <2>1, <2>2, PlainReads, PlainKept
<1>4. CASE (\E hash \in ClientHashes : StartReconcile(r, hash)) \/ ResolveFinalized(r)
  BY <1>2, <1>3, <1>4 DEF StartReconcile, ResolveFinalized
<1>5. CASE ReadReceipt(r)
  <2>1. CASE Finish(r)
    BY <1>2, <1>5, <2>1 DEF ReadReceipt
  <2>2. CASE ~Finish(r)
    <3>1. requests'[r].pc = "recordVerdict" /\ requests'[r].mode = requests[r].mode
      BY <1>0, <1>5, <2>2 DEF ReadReceipt, RequestLocals
    <3>2. /\ attempt.finalized /\ attempt.state # "PAYOUT_CONFIRMED" /\ UNCHANGED attempt
          /\ requests[r].mode # "default"
      BY <1>0, <1>5 DEF ReadReceipt, At, Plain
    <3> QED BY <1>1, <3>1, <3>2, PlainReads, PlainKept
  <2> QED BY <2>1, <2>2
<1>6. CASE RecordVerdict(r)
  <2>1. attempt.finalized /\ attempt.state # "PAYOUT_CONFIRMED"
    BY <1>0, <1>6 DEF RecordVerdict, At, Plain
  <2>2. attempt'.finalized /\ attempt'.winners = attempt.winners
    BY <1>0, <1>6, <2>1 DEF RecordVerdict, Patch, AttemptRecord
  <2>3. requests'[r].mode = None /\ requests'[r].pc \in {"idle", "persistEvidence"}
    BY <1>0, <1>6 DEF RecordVerdict, Idle
  <2> QED BY <1>0, <1>1, <2>1, <2>2, <2>3, PlainWrites DEF Plain
<1>7. CASE PersistEvidence(r) \/ CompleteSettlement(r)
  <2>1. UNCHANGED attempt
    BY <1>7 DEF PersistEvidence, CompleteSettlement
  <2>2. CASE Finish(r)
    BY <1>2, <2>1, <2>2
  <2>3. CASE GoAfresh(r, "completeSettlement") /\ PersistEvidence(r)
    <3>1. requests'[r].pc = "completeSettlement" /\ requests'[r].mode = None
      BY <1>0, <2>3 DEF GoAfresh, Idle
    <3>2. attempt.finalized
      BY <1>0, <2>3 DEF PersistEvidence, At, Plain
    <3> QED BY <1>0, <1>1, <2>1, <3>1, <3>2, PlainReads, PlainKept
  <2> QED BY <1>7, <2>2, <2>3 DEF PersistEvidence, CompleteSettlement
<1>8. CASE Abort(r)
  BY <1>2, <1>8 DEF Abort
<1> QED BY <1>4, <1>5, <1>6, <1>7, <1>8

-----------------------------------------------------------------------------
\* A step that moves one request and leaves the rest of the invariant alone.
LEMMA ServerMoves ==
  ASSUME OneAtATime, Inv', AloneInv', NEW r \in Requests, Plain(requests[r])',
         WinnersStay'
  PROVE  ServerInv'
BY DEF OneAtATime, ServerInv

\* A step of the environment.
LEMMA OutsideKept ==
  ASSUME ServerInv, Inv', AloneInv', UNCHANGED <<attempt, requests>>,
         escrow = "PAID" => escrow' = "PAID"
  PROVE  ServerInv' /\ Recorded
<1>1. \A r \in Requests : Plain(requests[r])'
  BY DEF ServerInv, Plain
<1> QED BY <1>1 DEF ServerInv, WinnersStay, Recorded

\* A step of the pages alone; the flag may be cached.
LEMMA ServerKept ==
  ASSUME ServerInv, cachedFunded' \in BOOLEAN,
         UNCHANGED <<attempt, requests, circle, outside, evidence, settled>>
  PROVE  ServerInv' /\ Recorded
<1>1. Inv'
  BY InvKept DEF ServerInv
<1>2. AloneInv'
  BY DEF ServerInv, AloneInv, RecordMatchesApproval, Current, outside
<1> QED BY <1>1, <1>2, OutsideKept DEF outside

\* A decision in a window that shows no challenge of the payout changes nothing.
LEMMA DecideKept ==
  ASSUME ServerInv, NEW k, NEW state \in {"SENT", "DENIED"}, Decide(k, state)
  PROVE  ServerInv' /\ Recorded
<1>1. CASE k \in DOMAIN circle
  <2>1. Inv' /\ AloneInv'
    BY <1>1, OutsideInv, OutsideAlone DEF ServerInv
  <2> QED BY <2>1, OutsideKept DEF Decide, outside
<1>2. CASE k \notin DOMAIN circle
  <2>1. DOMAIN circle' = DOMAIN circle /\ \A j \in DOMAIN circle : circle'[j] = circle[j]
    BY <1>2 DEF Decide
  <2>2. UNCHANGED <<attempt, requests, escrow, payout, reviewOver, cachedFunded, evidence, settled>>
    BY DEF Decide, outside
  <2>3. Inv'
    BY <1>2, InvUndecided DEF ServerInv
  <2>4. AloneInv'
    <3>1. \A r \in Requests : Current(requests[r])'
      BY <2>2 DEF ServerInv, AloneInv, Current
    <3>2. RecordMatchesApproval'
      BY <2>1, <2>2 DEF ServerInv, AloneInv, RecordMatchesApproval
    <3> QED BY <2>1, <2>2, <3>1, <3>2 DEF ServerInv, AloneInv
  <2> QED BY <2>2, <2>3, <2>4, OutsideKept
<1> QED BY <1>1, <1>2

\* What the page sends is a step the service allows any client.
LEMMA SendKept ==
  ASSUME OneAtATime, ServerInv, PageInv, NEW r \in Requests, Send(r)
  PROVE  ServerInv' /\ Recorded
<1>1. ASSUME NEW winners \in Selections, StartFinalize(r, winners) PROVE ServerInv' /\ Recorded
  BY <1>1, FinalizeInv, FinalizeAlone, FinalizePlain, ServerMoves DEF ServerInv
<1>2. CASE Unsent("approval") /\ StartApproval(r, page.known.winners, "create-approval")
  <2>1. page.known.winners \in Selections
    BY <1>2 DEF Unsent, PageInv, Shows, Asking
  <2>2. "create-approval" \in ApprovalModes
    BY SettlementConstants DEF SettlementConstants
  <2> QED BY <1>2, <2>1, <2>2, StartApprovalInv, StartApprovalAlone, ApprovalPlain, ServerMoves
          DEF ServerInv
<1>3. CASE StartStatus(r)
  BY <1>3, StartStatusInv, StatusAlone, StatusPlain, ServerMoves DEF ServerInv
<1>4. CASE StartReconcile(r, None)
  <2>1. None \in ClientHashes
    BY SettlementConstants DEF SettlementConstants
  <2> QED BY <1>4, <2>1, StartReconcileInv, ReconcileAlone, ReconcilePlain, ServerMoves
          DEF ServerInv
<1> QED BY <1>1, <1>2, <1>3, <1>4 DEF Send

\* The steps of a request that is under way.
LEMMA ContinueKept ==
  ASSUME OneAtATime, ServerInv, NEW r \in Requests, Continue(r) \/ Abort(r)
  PROVE  ServerInv' /\ Recorded
<1>1. Inv'
  BY ContinueInv, AbortInv DEF ServerInv
<1>2. AloneInv'
  BY FinalizeAlone, ReserveAlone, CreateChallengeAlone, RecordAlone, StatusAlone,
     ReconcileAlone, AbortAlone DEF ServerInv, Continue
<1>3. Plain(requests[r])' /\ WinnersStay' /\ Recorded
  BY FinalizePlain, ApprovalPlain, RecordPlain, StatusPlain, ReconcilePlain DEF Continue
<1> QED BY <1>1, <1>2, <1>3, ServerMoves

\* Whatever the pages and the environment do, the server's part holds.
LEMMA ServerStep ==
  ASSUME OneAtATime, ServerInv, PageInv, [SettlementNext]_settlementVars
  PROVE  ServerInv' /\ Recorded
<1>0. cachedFunded \in BOOLEAN
  BY DEF ServerInv, Inv, TypeOK
<1>1. CASE UNCHANGED vars
  BY <1>0, <1>1, ServerKept DEF vars, outside
<1>2. CASE AnswerAtOnce
  <2>1. cachedFunded' \in BOOLEAN
    BY <1>0, <1>2, Zenon DEF AnswerAtOnce
  <2> QED BY <1>2, <2>1, ServerKept DEF AnswerAtOnce
<1>3. ASSUME NEW r \in Requests, Send(r) \/ Serve(r) \/ Break(r) PROVE ServerInv' /\ Recorded
  BY <1>3, SendKept, ContinueKept DEF Serve, Break
<1>4. CASE Approve \/ Deny
  BY <1>4, DecideKept DEF Approve, Deny
<1>5. CASE Environment
  <2>1. Inv' /\ AloneInv'
    BY <1>5, OutsideInv, OutsideAlone DEF Environment, ServerInv
  <2>2. UNCHANGED <<attempt, requests>> /\ (escrow = "PAID" => escrow' = "PAID")
    BY <1>5 DEF Environment, Mine, Report, Refund, EndReview, CacheExpires, outside
  <2> QED BY <2>1, <2>2, OutsideKept
<1>6. SettlementNext =>
        UNCHANGED vars \/ AnswerAtOnce \/ Approve \/ Deny \/ Environment
        \/ \E r \in Requests : Send(r) \/ Serve(r) \/ Break(r)
  BY DEF SettlementNext, Click, OpenTab, LeaveTab, LeaveEarly, Reload, ReloadAgain, Refreshed,
     RefreshedInVain, LoseAnswer, CloseWindow, Look, LookInVain
<1> QED BY <1>1, <1>2, <1>3, <1>4, <1>5, <1>6 DEF settlementVars

\* What a page is told by the record as it is now.
LEMMA StandingTrue ==
  ASSUME ServerInv, NEW c, NEW e
  PROVE  /\ Standing(c, attempt, e) \in Standings
         /\ Listed(Standing(c, attempt, e), c)
         /\ c \in Winners(attempt) => Standing(c, attempt, e).place = Place(c, attempt)
         /\ c \in Winners(attempt) /\ attempt.state = "PAYOUT_CONFIRMED" =>
              Standing(c, attempt, e).status = "Reward Paid"
<1>1. attempt \in AttemptRecord /\ (attempt.state = "PAYOUT_CONFIRMED" => escrow = "PAID")
  BY RecordTrue DEF ServerInv
<1>2. c \in Winners(attempt) => Place(c, attempt) # 0
  BY <1>1, PlaceNames
<1> QED BY <1>1, <1>2, StandingOf DEF Listed

\* What a creator was told stays true while the record goes on.
LEMMA ToldStays ==
  ASSUME ServerInv, Recorded, ToldInv, UNCHANGED told, setbacks' \in Nat
  PROVE  ToldInv'
<1>1. ASSUME NEW c \in Readers PROVE Listed(told[c], c)'
  <2>1. Listed(told[c], c)
    BY DEF ToldInv
  <2>2. c \in Winners(attempt) =>
          /\ c \in Winners(attempt') /\ Place(c, attempt') = Place(c, attempt)
    BY DEF Winners, Place, Recorded
  <2> QED BY <2>1, <2>2 DEF Recorded, Listed
<1> QED BY <1>1 DEF ToldInv

\* Every step keeps what creators were told true.
LEMMA ToldStep ==
  ASSUME ServerInv, Recorded, ToldInv, [SettlementNext]_settlementVars
  PROVE  ToldInv'
<1>1. setbacks \in Nat /\ told \in [Readers -> Standings]
  BY DEF ToldInv
<1>2. CASE UNCHANGED told /\ (UNCHANGED setbacks \/ setbacks' = setbacks + 1)
  BY <1>1, <1>2, ToldStays
<1>3. ASSUME NEW c \in Readers, Look(c) \/ LookInVain(c) PROVE ToldInv'
  <2>1. PICK e : told' = [told EXCEPT ![c] = Standing(c, attempt, e)]
                 \/ told' = [told EXCEPT ![c] = Unlisted]
    BY <1>3 DEF Look, LookInVain
  <2>2. UNCHANGED <<attempt, escrow>> /\ setbacks' \in Nat
    BY <1>1, <1>3 DEF Look, LookInVain, vars, Setback
  <2>3. PICK now \in Standings :
          told' = [told EXCEPT ![c] = now] /\ Listed(now, c)
    <3>1. Unlisted \in Standings /\ Listed(Unlisted, c)
      BY UnlistedStanding DEF Listed
    <3> QED BY <2>1, <3>1, StandingTrue
  <2>4. told' \in [Readers -> Standings] /\ told'[c] = now
        /\ \A d \in Readers \ {c} : told'[d] = told[d]
    BY <1>1, <2>3
  <2>5. ASSUME NEW d \in Readers PROVE Listed(told[d], d)'
    <3>1. Listed(told'[d], d)
      BY <2>3, <2>4 DEF ToldInv
    <3> QED BY <2>2, <3>1 DEF Listed
  <2> QED BY <2>2, <2>4, <2>5 DEF ToldInv
<1>4. SettlementNext =>
        \/ UNCHANGED told /\ (UNCHANGED setbacks \/ setbacks' = setbacks + 1)
        \/ \E c \in Readers : Look(c) \/ LookInVain(c)
  BY DEF SettlementNext, Click, OpenTab, LeaveTab, LeaveEarly, Reload, ReloadAgain, Refreshed,
     RefreshedInVain, Send, Serve, Break, AnswerAtOnce, LoseAnswer, Approve, Deny,
     CloseWindow, Environment, shown, Setback
<1> QED BY <1>2, <1>3, <1>4 DEF settlementVars

-----------------------------------------------------------------------------
LEMMA SettlementStart == SettlementInit => SettlementInv
<1> SUFFICES ASSUME SettlementInit PROVE SettlementInv
  OBVIOUS
<1>1. Init /\ attempt = NoAttempt /\ requests = [r \in Requests |-> Idle]
  BY DEF SettlementInit, Init
<1>2. ServerInv
  <2>1. Inv /\ AloneInv
    BY <1>1, InitInv, AloneInit
  <2>2. \A r \in Requests : Plain(requests[r])
    BY <1>1, SettlementConstants DEF SettlementConstants, Plain, Idle
  <2>3. WinnersStay
    BY <1>1 DEF WinnersStay, NoAttempt
  <2> QED BY <2>1, <2>2, <2>3 DEF ServerInv
<1>3. Basis /\ PageInv
  BY PublicStart DEF PublicInv
<1>4. ToldInv
  <2>1. told = [c \in Readers |-> Unlisted] /\ setbacks = 0
    BY DEF SettlementInit
  <2> QED BY <2>1, UnlistedStanding DEF ToldInv, Listed
<1> QED BY <1>2, <1>3, <1>4 DEF SettlementInv

\* The invariant of the service and of all the pages.
THEOREM SettlementInvHolds ==
  ASSUME OneAtATime
  PROVE  SettlementSpec => []SettlementInv
<1>1. SettlementInv /\ [SettlementNext]_settlementVars => SettlementInv'
  BY PublicStep, ServerStep, PageStep, ToldStep DEF SettlementInv
<1> QED BY <1>1, SettlementStart, PTL DEF SettlementSpec

\* Nobody is shown a payout that was not made: a creator who reads of a paid
\* reward was paid by the contract, at the place the page names.
THEOREM PaidIsTrueHolds ==
  ASSUME OneAtATime
  PROVE  SettlementSpec => []PaidIsTrue
<1>1. ASSUME SettlementInv PROVE PaidIsTrue
  <2>1. ASSUME NEW c \in Readers,
               "Paid" = told[c].reward \/ told[c].status = "Reward Paid"
        PROVE  escrow = "PAID" /\ payout.winners[told[c].place] = c
    <3>1. /\ escrow = "PAID" /\ c \in Winners(attempt)
          /\ told[c].place = Place(c, attempt)
      BY <1>1, <2>1 DEF SettlementInv, ToldInv, Listed
    <3>2. attempt.winners[told[c].place] = c
      BY <1>1, <3>1, PlaceNames, RecordTrue DEF SettlementInv, Basis
    <3>3. payout.winners = attempt.winners
      BY <1>1, <3>1 DEF SettlementInv, ServerInv, AloneInv
    <3> QED BY <3>1, <3>2, <3>3
  <2>2. Completed \/ TabCompleted => escrow = "PAID"
    BY <1>1 DEF SettlementInv, PageInv, Shows, PaidBy, Completed, TabCompleted
  <2> QED BY <2>1, <2>2 DEF PaidIsTrue
<1> QED BY <1>1, SettlementInvHolds, PTL

\* A creator who was told of a win reads of it for good, at the same place, and
\* one who was told of a payout too.
THEOREM WinsAreNotTakenBackHolds ==
  ASSUME OneAtATime
  PROVE  SettlementSpec => WinsAreNotTakenBack
<1>1. SettlementInv /\ [SettlementNext]_settlementVars =>
        [\A c \in Readers :
           (told[c].place # 0 /\ setbacks' = setbacks) =>
             /\ told'[c].place = told[c].place
             /\ told[c].status = "Reward Paid" => told'[c].status = "Reward Paid"]_settlementVars
  <2> SUFFICES ASSUME SettlementInv, SettlementNext, NEW c \in Readers,
                      told[c].place # 0, setbacks' = setbacks
               PROVE  /\ told'[c].place = told[c].place
                      /\ told[c].status = "Reward Paid" => told'[c].status = "Reward Paid"
    OBVIOUS
  <2>1. CASE UNCHANGED told
    BY <2>1
  <2>2. ASSUME NEW d \in Readers, Look(d) \/ LookInVain(d)
        PROVE  /\ told'[c].place = told[c].place
               /\ told[c].status = "Reward Paid" => told'[c].status = "Reward Paid"
    <3>1. told \in [Readers -> Standings] /\ setbacks \in Nat
      BY DEF SettlementInv, ToldInv
    <3>2. told' = [told EXCEPT ![d] = Standing(d, attempt, evidence)]
      BY <2>2, <3>1 DEF Look, LookInVain, Setback
    <3>3. CASE d # c
      BY <3>1, <3>2, <3>3
    <3>4. CASE d = c
      <4>1. told'[c] = Standing(c, attempt, evidence)
        BY <3>1, <3>2, <3>4
      <4>2. /\ c \in Winners(attempt) /\ told[c].place = Place(c, attempt)
            /\ told[c].status = "Reward Paid" => attempt.state = "PAYOUT_CONFIRMED"
        BY DEF SettlementInv, ToldInv, Listed
      <4> QED BY <4>1, <4>2, StandingTrue DEF SettlementInv
    <3> QED BY <3>3, <3>4
  <2> QED BY <2>1, <2>2 DEF SettlementNext, Click, OpenTab, LeaveTab, LeaveEarly, Reload, ReloadAgain,
        Refreshed, RefreshedInVain, Send, Serve, Break, AnswerAtOnce, LoseAnswer, Approve,
        Deny, CloseWindow, Environment, shown
<1> QED BY <1>1, SettlementInvHolds, PTL DEF SettlementSpec, WinsAreNotTakenBack
=============================================================================
