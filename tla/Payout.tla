------------------------------- MODULE Payout -------------------------------
(***************************************************************************)
(* Winner finalization and payout of one challenge:                        *)
(* src/services/create-challenge/winner-finalization.server.ts with the    *)
(* attempt record of create-challenge-store.server.ts.                     *)
(*                                                                         *)
(* Each HTTP request is a process; it stops at every await that reads or   *)
(* writes the attempt, asks Circle or asks the chain, and other requests   *)
(* run in between.  One store update is atomic: updateStore queues the     *)
(* updates of a process (what happens between processes is the subject of  *)
(* Store).  Circle's contract-execution challenges and the escrow contract *)
(* are the environment, as the service uses them.                          *)
(***************************************************************************)

CONSTANTS
  Requests,      \* the requests that can be in flight at once
  Selections,    \* the winner lists resolveCanonicalWinnerSelection accepts
  None,
  ScopeKey,      \* stableUuid("winner-payout", key): one per challenge
  StrayHash,     \* a well-formed transaction hash that pays no one here
  ApprovalModes, \* the modes of the route that ask for an approval
  ClientHashes,  \* what mode "reconcile" is called with
  FailingSteps   \* the steps at which a request can be cut off

ASSUME PayoutConstants ==
  /\ None \notin Requests \cup Selections \cup {ScopeKey, StrayHash}
  /\ ScopeKey \notin Requests \cup {StrayHash}
  /\ StrayHash \notin Requests
  /\ None \notin [hash : {ScopeKey} \cup Requests, winners : Selections]
  /\ ApprovalModes \subseteq {"create-approval", "default"}
  /\ ClientHashes \subseteq {None, ScopeKey, StrayHash}

VARIABLES
  attempt,       \* WinnerFinalizationAttemptRecord of the scope
  requests,      \* the local state of each request
  circle,        \* Circle's challenges, by idempotency key
  escrow,        \* the status of the challenge on chain
  payout,        \* the WinnersPaid event
  cachedFunded,  \* activeEscrowFundingCache holds a live TRUE
  reviewOver,    \* now > reviewDeadline
  evidence,      \* the ChallengePayout verification record
  settled        \* the lifecycle event SETTLEMENT_COMPLETED

vars == <<attempt, requests, circle, escrow, payout, cachedFunded, reviewOver,
          evidence, settled>>

\* A Circle challenge is named by the idempotency key that created it, the
\* transaction it executes by the same name, and that transaction's hash too.
Keys == {ScopeKey} \cup Requests
Hashes == Keys \cup {StrayHash}

States == {"ABSENT", "READY_FOR_FINAL_SELECTION", "APPROVAL_CREATION_IN_PROGRESS",
           "APPROVAL_CREATED_RECONCILIATION_REQUIRED", "ACTION_REQUIRED",
           "FINALIZATION_IN_PROGRESS", "TRANSACTION_SUBMITTED",
           "RECONCILIATION_REQUIRED", "PAYOUT_CONFIRMED", "FINALIZATION_FAILED"}

NoAttempt == [state |-> "ABSENT", finalized |-> FALSE, winners |-> None,
              owner |-> None, key |-> None, approval |-> None, tx |-> None,
              hash |-> None]

\* The states in which acquireWinnerFinalizationAttemptLock refuses.
\* ALREADY_FINALIZED, which it also names, is a state nothing sets.
LockConflict == {"FINALIZATION_IN_PROGRESS", "APPROVAL_CREATION_IN_PROGRESS",
                 "TRANSACTION_SUBMITTED", "PAYOUT_CONFIRMED"}

\* isActivePayoutState
Active == {"ACTION_REQUIRED", "APPROVAL_CREATION_IN_PROGRESS",
           "APPROVAL_CREATED_RECONCILIATION_REQUIRED", "FINALIZATION_IN_PROGRESS",
           "TRANSACTION_SUBMITTED", "RECONCILIATION_REQUIRED"}

ApprovalSteps == {"readAttempt", "reserve", "markReserved", "openSession",
                  "createChallenge", "recordRejection", "recordApproval",
                  "recordRecovery"}
Steps == ApprovalSteps \cup
  {"idle", "lockWinners", "recordFinalized", "markFailed",
   "askChallenge", "askTransaction", "recordTransaction", "resolveFinalized",
   "readReceipt", "recordVerdict", "persistEvidence", "completeSettlement"}

Idle == [pc |-> "idle", mode |-> None, winners |-> None, token |-> None,
         key |-> None, approval |-> None, tx |-> None, hash |-> None,
         verdict |-> "ABSENT"]

\* WinnerFinalizationAttemptRecord, and the local variables of a request.
AttemptRecord ==
  [state : States, finalized : BOOLEAN, winners : Selections \cup {None},
   owner : Requests \cup {None}, key : Keys \cup {None}, approval : Keys \cup {None},
   tx : Keys \cup {None}, hash : Hashes \cup {None}]
RequestLocals ==
  [pc : Steps, mode : {None, "create-approval", "default"},
   winners : Selections \cup {None}, token : Requests \cup {None},
   key : Keys \cup {None}, approval : Keys \cup {None}, tx : Keys \cup {None},
   hash : Hashes \cup {None}, verdict : States]

Init ==
  /\ attempt = NoAttempt
  /\ requests = [r \in Requests |-> Idle]
  /\ circle = [k \in {} |-> None]
  /\ escrow = "FUNDED"
  /\ payout = None
  /\ cachedFunded = FALSE
  /\ reviewOver = FALSE
  /\ evidence = None
  /\ settled = FALSE

At(r, step) == requests[r].pc = step
Go(r, step) == requests' = [requests EXCEPT ![r].pc = step]
Finish(r) == requests' = [requests EXCEPT ![r] = Idle]

\* Go on with nothing of what the request has read so far.
GoAfresh(r, step) == requests' = [requests EXCEPT ![r] = [Idle EXCEPT !.pc = step]]

\* An error leaves createWinnerPayoutApproval: requestWinnerFinalization, the
\* mode "default", catches it and goes on to mark the attempt as failed.
Throw(r) ==
  IF requests[r].mode = "default" THEN GoAfresh(r, "markFailed") ELSE Finish(r)

outside == <<escrow, payout, reviewOver>>

-----------------------------------------------------------------------------
\* The store's operations on the attempt.

\* A bug: the attempt's key is made anew with every lock.
FreshKey(r) == r

\* existing?.idempotencyKey ?? stableUuid("winner-payout", key)
IdempotencyKey(r) == IF attempt.key = None THEN ScopeKey ELSE attempt.key

\* A bug: the lock starts a record of its own instead of spreading the old one.
AcquireFromScratch(r) ==
  /\ attempt.state \notin LockConflict
  /\ attempt' = [NoAttempt EXCEPT !.state = "FINALIZATION_IN_PROGRESS", !.owner = r,
                                  !.winners = requests[r].winners, !.key = ScopeKey]

\* acquireWinnerFinalizationAttemptLock; the owner token randomUUID() makes is
\* the request's own name.
AcquireLock(r) ==
  /\ attempt.state \notin LockConflict
  /\ attempt' = [attempt EXCEPT !.state = "FINALIZATION_IN_PROGRESS",
                                !.winners = requests[r].winners,
                                !.owner = r,
                                !.key = IdempotencyKey(r)]

\* patchWinnerFinalizationAttempt: whatever the attempt's state has become.
Patch(new) == attempt' = IF attempt.state = "ABSENT" THEN attempt ELSE new

\* patchWinnerFinalizationAttemptForOwner throws unless this holds.
IsOwner(r) == attempt.state # "ABSENT" /\ attempt.owner = requests[r].token

\* readActiveEscrowIsFunded: a TRUE is believed for 30 seconds.
ReadFunded ==
  /\ cachedFunded \/ escrow = "FUNDED"
  /\ cachedFunded' = TRUE

-----------------------------------------------------------------------------
\* A bug: an attempt that is at rest can be finalized again.
NotActive == attempt.state \notin Active \cup {"PAYOUT_CONFIRMED"}

\* An attempt that is finalized or active already is answered without a change.
NotFinalized ==
  ~attempt.finalized /\ attempt.state \notin Active \cup {"PAYOUT_CONFIRMED"}

\* finalizeWinnerSelection, up to its read of the attempt.
StartFinalize(r, winners) ==
  /\ At(r, "idle")
  /\ ReadFunded
  /\ NotFinalized
  /\ requests' = [requests EXCEPT ![r] =
       [Idle EXCEPT !.pc = "lockWinners", !.winners = winners]]
  /\ UNCHANGED <<attempt, circle, outside, evidence, settled>>

LockWinners(r) ==
  /\ At(r, "lockWinners")
  /\ \/ AcquireLock(r) /\ GoAfresh(r, "recordFinalized")
     \/ attempt.state \in LockConflict /\ Finish(r) /\ UNCHANGED attempt
  /\ UNCHANGED <<circle, outside, cachedFunded, evidence, settled>>

\* The lifecycle event winner_finalized that follows is write-only and left out.
RecordFinalized(r) ==
  /\ At(r, "recordFinalized")
  /\ Patch([attempt EXCEPT !.state = "READY_FOR_FINAL_SELECTION", !.finalized = TRUE])
  /\ Finish(r)
  /\ UNCHANGED <<circle, outside, cachedFunded, evidence, settled>>

-----------------------------------------------------------------------------
\* A bug: the payout phase is entered without assertPayoutPhaseReady.
PhaseUnchecked == escrow = "FUNDED"

\* assertPayoutPhaseReady and assertPayoutReadiness: the review is over, and a
\* fresh read of the escrow says FUNDED.
PayoutReady == reviewOver /\ escrow = "FUNDED"

\* createWinnerPayoutApproval, up to the simulation.  The cached flag admits
\* the request; when the checks then fail, the mode "default" records a failure.
StartApproval(r, winners, mode) ==
  /\ At(r, "idle")
  /\ ReadFunded
  /\ PayoutReady \/ mode = "default"
  /\ requests' = [requests EXCEPT ![r] =
       IF PayoutReady THEN [Idle EXCEPT !.pc = "readAttempt", !.winners = winners, !.mode = mode]
       ELSE [Idle EXCEPT !.pc = "markFailed"]]
  /\ UNCHANGED <<attempt, circle, outside, evidence, settled>>

\* assertMatchesFinalizedWinnerRecord
MatchesFinalized(r) == attempt.finalized /\ attempt.winners = requests[r].winners

\* The challenge's id reaches the browser, which can now execute it.
Offer(k) == circle' = IF circle[k].state = "CREATED"
                      THEN [circle EXCEPT ![k].state = "OFFERED"] ELSE circle

\* getOrCreateWinnerFinalizationAttempt: a recorded approval is reused (if the
\* Circle session opens), an active attempt is a conflict.
ReadAttempt(r) ==
  /\ At(r, "readAttempt")
  /\ \/ ~MatchesFinalized(r) /\ Throw(r) /\ UNCHANGED circle
     \/ /\ MatchesFinalized(r) /\ attempt.approval # None
        /\ Finish(r) /\ Offer(attempt.approval)
     \/ /\ MatchesFinalized(r) /\ attempt.approval = None
        /\ IF attempt.state \in Active THEN Finish(r) ELSE Go(r, "reserve")
        /\ UNCHANGED circle
  /\ UNCHANGED <<attempt, outside, cachedFunded, evidence, settled>>

Reserve(r) ==
  /\ At(r, "reserve")
  /\ \/ /\ AcquireLock(r)
        /\ requests' = [requests EXCEPT ![r].pc = "markReserved", ![r].token = r]
     \/ attempt.state \in LockConflict /\ Finish(r) /\ UNCHANGED attempt
  /\ UNCHANGED <<circle, outside, cachedFunded, evidence, settled>>

MarkReserved(r) ==
  /\ At(r, "markReserved")
  /\ \/ /\ IsOwner(r)
        /\ attempt' = [attempt EXCEPT !.state = "APPROVAL_CREATION_IN_PROGRESS"]
        /\ Go(r, "openSession")
     \/ ~IsOwner(r) /\ Throw(r) /\ UNCHANGED attempt
  /\ UNCHANGED <<circle, outside, cachedFunded, evidence, settled>>

\* The attempt is read again, then the Circle session opens or is refused.  A
\* refusal leaves the reservation behind.
OpenSession(r) ==
  /\ At(r, "openSession")
  /\ requests' = [requests EXCEPT ![r] =
       [@ EXCEPT !.pc = IF attempt.approval = None THEN "createChallenge" ELSE "recordApproval",
                 !.token = attempt.owner, !.key = attempt.key,
                 !.approval = attempt.approval]]
  /\ UNCHANGED <<attempt, circle, outside, cachedFunded, evidence, settled>>

\* Circle answers a key it has seen with the challenge it already made.
CircleWith(k, winners) ==
  IF k \in DOMAIN circle THEN circle
  ELSE [j \in DOMAIN circle \cup {k} |->
          IF j = k THEN [state |-> "CREATED", winners |-> winners] ELSE circle[j]]

\* createPayoutContractExecutionChallenge: it may fail before Circle has made
\* the challenge, or after.
CreateChallenge(r) ==
  LET k == requests[r].key
  IN /\ At(r, "createChallenge")
     /\ \/ /\ circle' = CircleWith(k, requests[r].winners)
           /\ requests' = [requests EXCEPT ![r] =
                [@ EXCEPT !.pc = "recordApproval", !.approval = k, !.key = None, !.winners = None]]
        \/ /\ "createChallenge" \in FailingSteps
           /\ circle' \in {circle, CircleWith(k, requests[r].winners)}
           /\ Go(r, "recordRejection")
     /\ UNCHANGED <<attempt, outside, cachedFunded, evidence, settled>>

RecordRejection(r) ==
  /\ At(r, "recordRejection")
  /\ attempt' = IF IsOwner(r) THEN [attempt EXCEPT !.state = "FINALIZATION_FAILED"]
                ELSE attempt
  /\ Throw(r)
  /\ UNCHANGED <<circle, outside, cachedFunded, evidence, settled>>

\* The approval's id is stored before it is returned; a failing write gets a
\* second try with another state.
RecordApproval(r) ==
  /\ At(r, "recordApproval")
  /\ \/ /\ IsOwner(r)
        /\ attempt' = [attempt EXCEPT !.state = "ACTION_REQUIRED",
                                      !.approval = requests[r].approval]
        /\ Finish(r) /\ Offer(requests[r].approval)
     \/ /\ ~IsOwner(r) \/ "recordApproval" \in FailingSteps
        /\ Go(r, "recordRecovery")
        /\ UNCHANGED <<attempt, circle>>
  /\ UNCHANGED <<outside, cachedFunded, evidence, settled>>

RecordRecovery(r) ==
  /\ At(r, "recordRecovery")
  /\ attempt' = IF IsOwner(r)
                THEN [attempt EXCEPT !.state = "APPROVAL_CREATED_RECONCILIATION_REQUIRED",
                                     !.approval = requests[r].approval]
                ELSE attempt
  /\ Throw(r)
  /\ UNCHANGED <<circle, outside, cachedFunded, evidence, settled>>

\* The catch block of requestWinnerFinalization.
MarkFailed(r) ==
  /\ At(r, "markFailed")
  /\ Patch([attempt EXCEPT !.state = "FINALIZATION_FAILED"])
  /\ Finish(r)
  /\ UNCHANGED <<circle, outside, cachedFunded, evidence, settled>>

-----------------------------------------------------------------------------
\* A bug: a failed attempt is taken to be final.
NotFailedNorConfirmed == attempt.state \notin {"PAYOUT_CONFIRMED", "FINALIZATION_FAILED"}

NotConfirmed == attempt.state # "PAYOUT_CONFIRMED"

\* getWinnerPayoutStatusForFinalizedAttempt, up to the Circle session.
StartStatus(r) ==
  /\ At(r, "idle")
  /\ attempt.finalized
  /\ NotConfirmed
  /\ attempt.approval # None \/ attempt.tx # None
  /\ requests' = [requests EXCEPT ![r] =
       [Idle EXCEPT !.pc = IF attempt.tx = None THEN "askChallenge" ELSE "askTransaction",
                    !.approval = IF attempt.tx = None THEN attempt.approval ELSE None,
                    !.tx = attempt.tx]]
  /\ UNCHANGED <<attempt, circle, outside, cachedFunded, evidence, settled>>

\* resolvePayoutTransaction: the challenge's transaction, and what becomes of
\* an approval that was refused.
AskChallenge(r) ==
  LET k == requests[r].approval
  IN /\ At(r, "askChallenge")
     /\ \/ circle[k].state \in {"CREATED", "OFFERED"} /\ Finish(r) /\ UNCHANGED attempt
        \/ /\ circle[k].state = "DENIED"
           /\ Patch([attempt EXCEPT !.state = "FINALIZATION_FAILED", !.tx = None])
           /\ Finish(r)
        \/ /\ circle[k].state \in {"SENT", "MINED", "CONFIRMED", "FAILED"}
           /\ Patch([attempt EXCEPT !.tx = k])
           /\ requests' = [requests EXCEPT ![r] =
                [Idle EXCEPT !.pc = "askTransaction", !.tx = k]]
     /\ UNCHANGED <<circle, outside, cachedFunded, evidence, settled>>

\* The state the transaction's state stands for; Circle may or may not have
\* the hash yet while the transaction is not confirmed.
AskTransaction(r) ==
  LET k == requests[r].tx
  IN /\ At(r, "askTransaction")
     /\ \E hash \in IF circle[k].state = "CONFIRMED" THEN {k} ELSE {None, k} :
          requests' = [requests EXCEPT ![r] =
            [@ EXCEPT !.pc = "recordTransaction", !.hash = hash,
                      !.verdict = CASE circle[k].state = "FAILED" -> "FINALIZATION_FAILED"
                                    [] circle[k].state = "CONFIRMED" -> "TRANSACTION_SUBMITTED"
                                    [] OTHER -> "FINALIZATION_IN_PROGRESS"]]
     /\ UNCHANGED <<attempt, circle, outside, cachedFunded, evidence, settled>>

RecordTransaction(r) ==
  /\ At(r, "recordTransaction")
  /\ Patch([attempt EXCEPT !.state = requests[r].verdict, !.tx = requests[r].tx,
                           !.hash = requests[r].hash])
  /\ requests' = [requests EXCEPT ![r] =
       IF @.hash = None THEN Idle
       ELSE [Idle EXCEPT !.pc = "resolveFinalized", !.hash = requests[r].hash]]
  /\ UNCHANGED <<circle, outside, cachedFunded, evidence, settled>>

-----------------------------------------------------------------------------
\* What reconcileFinalizedWinnerPayout goes on with, called with a hash or not.
HashToCheck(hash) == IF hash = None THEN attempt.hash ELSE hash

Reconcilable(hash) ==
  /\ attempt.finalized
  /\ ~(attempt.state = "PAYOUT_CONFIRMED" /\ attempt.hash # None)
  /\ HashToCheck(hash) # None

\* resolveFinalizedWinnerOperation: what is read here is written back later.
Resolve(r, hash) ==
  requests' = [requests EXCEPT ![r] =
    [Idle EXCEPT !.pc = "readReceipt", !.winners = attempt.winners,
                 !.approval = attempt.approval, !.tx = attempt.tx,
                 !.hash = HashToCheck(hash)]]

StartReconcile(r, hash) ==
  /\ At(r, "idle")
  /\ Reconcilable(hash)
  /\ Resolve(r, hash)
  /\ UNCHANGED <<attempt, circle, outside, cachedFunded, evidence, settled>>

ResolveFinalized(r) ==
  /\ At(r, "resolveFinalized")
  /\ IF Reconcilable(requests[r].hash) THEN Resolve(r, requests[r].hash) ELSE Finish(r)
  /\ UNCHANGED <<attempt, circle, outside, cachedFunded, evidence, settled>>

\* A bug: the status of the escrow alone is believed.
StatusOnly(r) == escrow = "PAID"

\* A bug: winnersVerified is left out.
AnyWinners(r) ==
  escrow = "PAID" /\ payout.hash = requests[r].hash

\* verifyWinnersPaidReceipt and the status of the escrow.
Verified(r) ==
  /\ escrow = "PAID"
  /\ payout.hash = requests[r].hash
  /\ payout.winners = requests[r].winners

ReadReceipt(r) ==
  /\ At(r, "readReceipt")
  /\ IF escrow = "REFUNDED" THEN Finish(r)
     ELSE requests' = [requests EXCEPT ![r].pc = "recordVerdict",
            ![r].verdict = IF Verified(r) THEN "PAYOUT_CONFIRMED" ELSE "RECONCILIATION_REQUIRED"]
  /\ UNCHANGED <<attempt, circle, outside, cachedFunded, evidence, settled>>

RecordVerdict(r) ==
  /\ At(r, "recordVerdict")
  /\ Patch([attempt EXCEPT !.state = requests[r].verdict, !.hash = requests[r].hash,
                           !.approval = requests[r].approval, !.tx = requests[r].tx])
  /\ requests' = [requests EXCEPT ![r] =
       IF @.verdict # "PAYOUT_CONFIRMED" THEN Idle
       ELSE [Idle EXCEPT !.pc = "persistEvidence", !.winners = requests[r].winners,
                         !.hash = requests[r].hash]]
  /\ UNCHANGED <<circle, outside, cachedFunded, evidence, settled>>

\* persistVerifiedPayoutEvidence needs both of Circle's identifiers.
PersistEvidence(r) ==
  /\ At(r, "persistEvidence")
  /\ \/ /\ attempt.approval # None /\ attempt.tx # None
        /\ evidence' = [hash |-> requests[r].hash, winners |-> requests[r].winners]
        /\ GoAfresh(r, "completeSettlement")
     \/ /\ attempt.approval = None \/ attempt.tx = None
        /\ Finish(r) /\ UNCHANGED evidence
  /\ UNCHANGED <<attempt, circle, outside, cachedFunded, settled>>

CompleteSettlement(r) ==
  /\ At(r, "completeSettlement")
  /\ settled' = TRUE
  /\ Finish(r)
  /\ UNCHANGED <<attempt, circle, outside, cachedFunded, evidence>>

\* A request ends where it is: its process stops, or a call it makes throws.
Abort(r) ==
  /\ requests[r].pc \in FailingSteps
  /\ \/ Finish(r)
     \/ requests[r].pc \in ApprovalSteps /\ requests[r].mode = "default" /\ Throw(r)
  /\ UNCHANGED <<attempt, circle, outside, cachedFunded, evidence, settled>>

-----------------------------------------------------------------------------
\* The environment.  The payout wallet's user decides in Circle's hosted page.
Decide(k, state) ==
  /\ circle[k].state = "OFFERED"
  /\ circle' = [circle EXCEPT ![k].state = state]
  /\ UNCHANGED <<attempt, requests, outside, cachedFunded, evidence, settled>>

\* releasePayout of the contract.
Mine(k) ==
  /\ circle[k].state = "SENT"
  /\ escrow = "FUNDED" /\ reviewOver
  /\ circle' = [circle EXCEPT ![k].state = "MINED"]
  /\ escrow' = "PAID"
  /\ payout' = [hash |-> k, winners |-> circle[k].winners]
  /\ UNCHANGED <<attempt, requests, cachedFunded, reviewOver, evidence, settled>>

Report(k) ==
  /\ \/ circle[k].state = "MINED" /\ circle' = [circle EXCEPT ![k].state = "CONFIRMED"]
     \/ circle[k].state = "SENT" /\ circle' = [circle EXCEPT ![k].state = "FAILED"]
  /\ UNCHANGED <<attempt, requests, outside, cachedFunded, evidence, settled>>

\* cancelAndRefund, called by the resolver outside the service.
Refund ==
  /\ escrow = "FUNDED"
  /\ escrow' = "REFUNDED"
  /\ UNCHANGED <<attempt, requests, circle, payout, cachedFunded, reviewOver, evidence, settled>>

EndReview ==
  /\ ~reviewOver
  /\ reviewOver' = TRUE
  /\ UNCHANGED <<attempt, requests, circle, escrow, payout, cachedFunded, evidence, settled>>

CacheExpires ==
  /\ cachedFunded
  /\ cachedFunded' = FALSE
  /\ UNCHANGED <<attempt, requests, circle, outside, evidence, settled>>

-----------------------------------------------------------------------------
\* The steps of a request that is under way.
Continue(r) ==
  \/ LockWinners(r) \/ RecordFinalized(r)
  \/ ReadAttempt(r) \/ Reserve(r) \/ MarkReserved(r) \/ OpenSession(r)
  \/ CreateChallenge(r) \/ RecordRejection(r) \/ RecordApproval(r)
  \/ RecordRecovery(r) \/ MarkFailed(r)
  \/ AskChallenge(r) \/ AskTransaction(r) \/ RecordTransaction(r)
  \/ ResolveFinalized(r) \/ ReadReceipt(r) \/ RecordVerdict(r)
  \/ PersistEvidence(r) \/ CompleteSettlement(r)

Next ==
  \/ \E r \in Requests :
       \/ Continue(r) \/ Abort(r) \/ StartStatus(r)
       \/ \E winners \in Selections :
            \/ StartFinalize(r, winners)
            \/ \E mode \in ApprovalModes : StartApproval(r, winners, mode)
       \/ \E hash \in ClientHashes : StartReconcile(r, hash)
  \/ \E k \in DOMAIN circle :
       \/ \E state \in {"SENT", "DENIED"} : Decide(k, state)
       \/ Mine(k) \/ Report(k)
  \/ Refund \/ EndReview \/ CacheExpires

Spec == Init /\ [][Next]_vars

\* A request that is under way goes on, Circle reports a mined transaction, and
\* the brand keeps asking for the payout's status until there is none to ask.
FairSpec ==
  /\ Spec
  /\ \A r \in Requests : WF_vars(Continue(r)) /\ SF_vars(StartStatus(r))
  /\ \A k \in Keys : WF_vars(k \in DOMAIN circle /\ Report(k))

-----------------------------------------------------------------------------
\* Every variable has its type.
TypeOK ==
  /\ attempt \in AttemptRecord
  /\ requests \in [Requests -> RequestLocals]
  /\ DOMAIN circle \subseteq Keys
  /\ \A k \in DOMAIN circle : circle[k] \in
       [state : {"CREATED", "OFFERED", "SENT", "MINED", "CONFIRMED", "FAILED", "DENIED"},
        winners : Selections]
  /\ escrow \in {"FUNDED", "PAID", "REFUNDED"}
  /\ payout \in [hash : Keys, winners : Selections] \cup {None}
  /\ {cachedFunded, reviewOver, settled} \subseteq BOOLEAN
  /\ evidence \in [hash : Hashes, winners : Selections] \cup {None}

\* However requests overlap, fail and are repeated, Circle is asked for one
\* payout approval of a challenge, never two that could both be executed.
AtMostOneApproval == \A j, k \in DOMAIN circle : j = k

\* No approval exists for winners who were not finalized, or before the review
\* deadline.
ApprovalFollowsFinalization ==
  DOMAIN circle # {} => attempt.finalized /\ reviewOver

\* The record says PAYOUT_CONFIRMED only of a challenge the chain has paid, with
\* the hash of the transaction that paid it: neither Circle's word nor a hash
\* a client sends is enough.
ConfirmedIsPaid ==
  attempt.state = "PAYOUT_CONFIRMED" =>
    escrow = "PAID" /\ attempt.hash = payout.hash

\* The settlement evidence names the winners the contract paid, whichever
\* request recorded it and whatever the attempt said at the time.
EvidenceIsThePayout ==
  /\ evidence # None => escrow = "PAID" /\ evidence = payout
  /\ settled => evidence # None

\* Once winners are finalized no request undoes that, and the key under which
\* Circle knows the payout never changes.
FinalizedForGood ==
  [][/\ attempt.finalized => attempt'.finalized
     /\ attempt.key # None => attempt'.key = attempt.key]_vars

\* Handled one at a time, requests keep the record and Circle's approval in
\* agreement: the finalized winners are those the approval pays, and the
\* approval's id, once stored, is never lost.
RecordMatchesApproval ==
  \A k \in DOMAIN circle :
    /\ attempt.winners = circle[k].winners
    /\ circle[k].state # "CREATED" => attempt.approval = k

\* A payout on chain is found out about: however its approval request failed or
\* ended, asking for the status leads to PAYOUT_CONFIRMED.
PaidIsConfirmed == escrow = "PAID" ~> attempt.state = "PAYOUT_CONFIRMED"

-----------------------------------------------------------------------------
\* What the documentation says and the code does not keep.

\* SYSTEM_ARCHITECTURE.md:511: PAYOUT_CONFIRMED is terminal for payout.
ConfirmedIsTerminal ==
  [][attempt.state = "PAYOUT_CONFIRMED" => attempt'.state = "PAYOUT_CONFIRMED"]_vars

\* SYSTEM_ARCHITECTURE.md:503: the lock and the attempt prevent duplicate or
\* mismatched winner records.
WinnersAreFixed ==
  [][attempt.finalized => attempt'.winners = attempt.winners]_vars

\* SYSTEM_ARCHITECTURE.md:507: settlement completion is recovered by a stable
\* upsert of its lifecycle event.
SettlementIsRecorded == attempt.state = "PAYOUT_CONFIRMED" ~> settled
=============================================================================
