------------------------------ MODULE Funding ------------------------------
(***************************************************************************)
(* Funding and publication of one draft:                                   *)
(* src/services/create-challenge/create-challenge-funding.server.ts, the   *)
(* payment overview of brand-payment-account.server.ts and the operations  *)
(* of create-challenge-store.server.ts they call.                          *)
(*                                                                         *)
(* Each HTTP request is a process that stops at the awaits.  A patch of    *)
(* the draft is one atomic update of the store, but most of what it writes *)
(* was read some steps earlier.  Circle's two contract-execution           *)
(* challenges of the draft and the chain are the environment.  The wallet, *)
(* launch readiness and public slugs are left out: a request they stop     *)
(* ends, as Abort lets any request end.  The escrow is not paused.         *)
(***************************************************************************)
EXTENDS Naturals

CONSTANTS
  Requests,      \* the requests that can be in flight at once
  Amounts,       \* what a challenge can cost: prizes and fee
  Dates,         \* the deadlines a challenge can have
  Kinds,         \* the routes that each request can be of
  MaxRequests,   \* how many requests are made
  FailingSteps,  \* the steps at which a request can be cut off
  None

\* The routes that are modelled, and the browser's page.
AllKinds == {"overview", "verify", "publish", "fund", "reconcile", "preflight",
             "approve", "recover", "save"}

ASSUME FundingConstants ==
  /\ \A r \in Requests : Kinds[r] \subseteq AllKinds
  /\ Amounts \subseteq Nat \ {0} /\ MaxRequests \in Nat
  /\ None \notin Requests \cup [amount : Amounts, dates : Dates]

VARIABLES
  draft,         \* the stored draft
  record,        \* the ChallengeFunded verification record exists
  fundAttempt,   \* FundingAttemptRecord of the scope
  apprAttempt,   \* the status of the ApprovalAttemptRecord of the scope
  requests,      \* the local state of each request
  started,       \* how many requests have begun
  fundCall,      \* Circle's challenge to fund, one per idempotency key
  apprCall,      \* Circle's challenge to approve
  allowance,     \* USDC the brand's wallet lets the escrow take
  escrow         \* the challenge on chain

vars == <<draft, record, fundAttempt, apprAttempt, requests, started,
          fundCall, apprCall, allowance, escrow>>

FundingStatuses == {"not-started", "ready", "approval-pending", "approved",
                    "funding-pending", "funded", "live"}
Draft == [amount : Amounts, dates : Dates, fs : FundingStatuses,
          es : {"not-created", "pending", "locked", "verified"},
          pub : {"draft", "ready-to-publish", "live"},
          appr : BOOLEAN,   \* an approval transaction is recorded
          tx : BOOLEAN,     \* transactionId is recorded
          hash : BOOLEAN,   \* transactionHash is recorded
          event : BOOLEAN]  \* eventVerified

AttemptStatuses == {"ABSENT", "PENDING", "COMPLETE", "FAILED"}
FundingAttempt == [status : AttemptStatuses, tx : BOOLEAN, hash : BOOLEAN]
Terms == [amount : Amounts, dates : Dates]
Result == [funded : BOOLEAN, verified : BOOLEAN, hash : BOOLEAN, event : BOOLEAN,
           appr : BOOLEAN, allowance : Nat]
CallStates == {"ABSENT", "CREATED", "DENIED", "SIGNED", "SENT", "MINED", "REVERTED"}

Steps == {"idle", "verify", "await", "readChain", "saveVerified", "saveRecord",
          "readRestored", "restore", "evidence", "goLive",
          "resume", "decide", "createFunding", "persistFunding", "markFunding",
          "persist", "lookup", "persistComplete", "markReconciled", "markPending",
          "overview", "overviewAttempts", "promote", "savePromoted", "recordPromoted",
          "saveApproved", "askApproval", "settleApproval", "preflight", "savePreflight",
          "createApproval", "persistApproval", "markApproval", "save"}

Idle == [pc |-> "idle", kind |-> None, draft |-> None, inner |-> None, result |-> None,
         leader |-> None, outcome |-> None, amount |-> 0, yes |-> FALSE]

RequestLocals ==
  [pc : Steps, kind : AllKinds \cup {None}, draft : Draft \cup {None},
   inner : Draft \cup {None}, result : Result \cup {None},
   leader : Requests \cup {None}, outcome : {None, "none", "id", "tx", "hash", "granted", "active"},
   amount : Amounts \cup {0}, yes : BOOLEAN]

\* cleanTransactionState
Clean(d) == [d EXCEPT !.fs = "not-started", !.es = "not-created", !.pub = "draft",
                      !.appr = FALSE, !.tx = FALSE, !.hash = FALSE, !.event = FALSE]

\* sanitizeStoredDraft, which every read of the draft goes through: a
\* transaction without a status that speaks of one is cleaned away.
Sanitized(d) ==
  IF (d.appr \/ d.tx \/ d.hash) /\ d.fs \in {"not-started", "ready"} THEN Clean(d) ELSE d
Read == Sanitized(draft)

NewDraft(terms) ==
  [amount |-> terms.amount, dates |-> terms.dates, fs |-> "not-started",
   es |-> "not-created", pub |-> "draft", appr |-> FALSE, tx |-> FALSE,
   hash |-> FALSE, event |-> FALSE]

NoAttempt == [status |-> "ABSENT", tx |-> FALSE, hash |-> FALSE]
NoCall == [state |-> "ABSENT", terms |-> None]

Init ==
  /\ draft \in {NewDraft(t) : t \in Terms}
  /\ record = FALSE
  /\ fundAttempt = NoAttempt
  /\ apprAttempt = "ABSENT"
  /\ requests = [r \in Requests |-> Idle]
  /\ started = 0
  /\ fundCall = NoCall /\ apprCall = NoCall
  /\ allowance = 0
  /\ escrow = None

\* activeApprovalStatus, attemptIsActive
Active(status) == status \in {"PENDING", "COMPLETE"}

At(r, step) == requests[r].pc = step
Become(r, q) == requests' = [requests EXCEPT ![r] = q]
Go(r, step) == Become(r, [requests[r] EXCEPT !.pc = step])
Finish(r) == Become(r, Idle)

attempts == <<fundAttempt, apprAttempt>>
outside == <<fundCall, apprCall, allowance, escrow>>
OnlyRequests == UNCHANGED <<draft, record, attempts, outside>>
OnlyDraft == UNCHANGED <<record, attempts, outside>>

Begin(r, q) ==
  /\ At(r, "idle") /\ q.kind \in Kinds[r]
  /\ started < MaxRequests /\ started' = started + 1
  /\ Become(r, q)
  /\ OnlyRequests

-----------------------------------------------------------------------------
\* The payment overview ends the routes fund, reconcile and approval-recovery
\* and is in the middle of a preflight.
Overview(kind) == [Idle EXCEPT !.pc = "overview", !.kind = kind]
AfterOverview(q, ready) ==
  IF q.kind \in {"preflight", "approve"}
  THEN [q EXCEPT !.pc = "savePreflight", !.inner = None, !.yes = ready]
  ELSE Idle

\* getCreateChallengePaymentOverview, up to the allowance.
ReadOverview(r) ==
  /\ At(r, "overview")
  /\ Become(r, [requests[r] EXCEPT !.pc = "overviewAttempts", !.inner = Read,
                                   !.yes = allowance >= Read.amount])
  /\ OnlyRequests

\* A complete attempt with a hash is promoted if nothing proves the funding
\* yet.  Otherwise stateFromDraftAndAccount decides, if the balance suffices.
ReadAttempts(r) ==
  LET q == requests[r]
      d == q.inner
      promotable == ~record /\ ~d.event /\ fundAttempt.status = "COMPLETE" /\ fundAttempt.hash
      open == /\ d.pub # "live" /\ ~Active(fundAttempt.status)
              /\ ~record /\ ~(d.event /\ d.hash)
      approved == open /\ q.yes
      ready == open /\ ~q.yes /\ ~Active(apprAttempt)
  IN /\ At(r, "overviewAttempts")
     /\ IF promotable THEN Go(r, "promote")
        ELSE \E balanceSuffices \in BOOLEAN :
               IF balanceSuffices /\ approved /\ d.fs # "approved"
               THEN Go(r, "saveApproved")
               ELSE Become(r, AfterOverview(q, balanceSuffices /\ ready))
     /\ OnlyRequests

SaveApproved(r) ==
  /\ At(r, "saveApproved")
  /\ draft' = [draft EXCEPT !.fs = "approved"]
  /\ Become(r, AfterOverview(requests[r], FALSE))
  /\ OnlyDraft

\* The amounts of the event are the draft's; the deadlines are not compared.
SameAmount(d) == escrow.amount = d.amount

\* verifyAndPromoteCompleteFundingAttempt: the receipt and isFunded.  A failed
\* transaction throws.
ReadReceipt(r) ==
  LET q == requests[r]
  IN /\ At(r, "promote")
     /\ IF fundCall.state = "REVERTED" THEN Finish(r)
        ELSE IF fundCall.state = "MINED" /\ SameAmount(q.inner) THEN Go(r, "savePromoted")
        ELSE Become(r, AfterOverview(q, FALSE))
     /\ OnlyRequests

SavePromoted(r) ==
  /\ At(r, "savePromoted")
  /\ draft' = [draft EXCEPT !.fs = "funded", !.es = "verified", !.pub = "ready-to-publish",
                            !.tx = TRUE, !.hash = TRUE, !.event = TRUE]
  /\ Go(r, "recordPromoted")
  /\ OnlyDraft

\* upsertOnChainVerification
RecordPromoted(r) ==
  /\ At(r, "recordPromoted")
  /\ record' = TRUE
  /\ Become(r, AfterOverview(requests[r], FALSE))
  /\ UNCHANGED <<draft, attempts, outside>>

StartOverview(r) ==
  Begin(r, Overview("overview"))

-----------------------------------------------------------------------------
\* getCanonicalFundingVerification.  A request waits for one that is under way
\* in its process (verificationInFlight) or reads for itself.
StartVerification(r) ==
  LET q == requests[r]
  IN /\ At(r, "verify")
     /\ \/ Become(r, [q EXCEPT !.pc = "readChain", !.inner = Read])
        \/ \E l \in Requests \ {r} :
             /\ At(l, "readChain")
             /\ Become(r, [q EXCEPT !.pc = "await", !.leader = l])
     /\ OnlyRequests

\* A bug: a transaction's hash is taken for its success.
HashSuffices(d) == d.hash

\* challengeVerified: the contract holds what this draft says.
FundedAs(d) == escrow = [amount |-> d.amount, dates |-> d.dates]

\* buildCanonicalFundingVerification, for the draft it read before.
Verification(d) ==
  [funded |-> escrow # None, verified |-> FundedAs(d), hash |-> d.hash \/ escrow # None,
   event |-> escrow # None, appr |-> d.appr \/ allowance >= d.amount,
   allowance |-> allowance]

ReadChain(r) ==
  LET d == requests[r].inner
      found(q) == IF q.kind = "fund"
                  THEN [q EXCEPT !.pc = "decide", !.inner = None, !.leader = None,
                                 !.result = Verification(d)]
                  ELSE [q EXCEPT !.pc = "saveVerified", !.inner = d, !.leader = None,
                                 !.result = Verification(d)]
  IN /\ At(r, "readChain")
     /\ requests' = [p \in Requests |->
          IF p = r \/ requests[p].leader = r THEN found(requests[p]) ELSE requests[p]]
     /\ UNCHANGED <<draft, record, attempts, outside>>

AfterVerified(q) ==
  CASE q.kind = "publish" /\ q.result.verified -> [Idle EXCEPT !.pc = "goLive", !.kind = q.kind]
    [] q.kind = "reconcile" /\ ~q.result.verified ->
         [q EXCEPT !.pc = "readRestored", !.inner = None]
    [] q.kind = "reconcile" /\ q.result.verified /\ q.outcome = "hash" -> Overview(q.kind)
    [] q.kind = "reconcile" /\ q.result.verified /\ q.outcome # "hash" ->
         [Idle EXCEPT !.pc = "markPending", !.kind = q.kind, !.outcome = q.outcome]
    [] OTHER -> Idle

\* verifyFundedChallenge: what the verification did not find is written back as
\* its draft had it.
SaveVerified(r) ==
  LET q == requests[r]
      d == q.inner
      v == q.result
  IN /\ At(r, "saveVerified")
     /\ draft' =
          IF ~(v.appr \/ v.hash) THEN draft
          ELSE [draft EXCEPT
                  !.appr = v.appr, !.hash = v.hash, !.event = v.event \/ d.event,
                  !.fs = IF v.verified THEN "funded" ELSE d.fs,
                  !.es = IF v.verified THEN "verified" ELSE d.es,
                  !.dates = IF v.verified THEN d.dates ELSE @,
                  !.pub = IF v.verified THEN "ready-to-publish" ELSE @]
     /\ IF v.verified THEN Go(r, "saveRecord") ELSE Become(r, AfterVerified(q))
     /\ OnlyDraft

SaveRecord(r) ==
  /\ At(r, "saveRecord")
  /\ record' = TRUE
  /\ Become(r, AfterVerified(requests[r]))
  /\ UNCHANGED <<draft, attempts, outside>>

StartVerify(r) ==
  Begin(r, [Idle EXCEPT !.pc = "verify", !.kind = "verify"])

-----------------------------------------------------------------------------
\* draftHasVerifiedPublishFunding
SaysVerified(d) ==
  d.fs \in {"funded", "live"} /\ d.es = "verified" /\ d.event /\ d.hash /\ d.tx

\* A bug: the draft's own word is enough.
DraftAlone(d) == SaysVerified(d)

\* getTrustedPublishEvidence, for the draft read before the record.
Trusted(d) == SaysVerified(d) /\ record

\* verifyAndPublishChallenge; a live challenge with its record is answered as it is.
StartPublish(r) ==
  Begin(r, [Idle EXCEPT !.pc = "evidence", !.kind = "publish", !.draft = Read])

ReadEvidence(r) ==
  LET d == requests[r].draft
      after == [Idle EXCEPT !.kind = "publish"]
  IN /\ At(r, "evidence")
     /\ Become(r, IF ~Trusted(d) THEN [after EXCEPT !.pc = "verify"]
                  ELSE IF d.pub = "live" THEN Idle ELSE [after EXCEPT !.pc = "goLive"])
     /\ OnlyRequests

GoLive(r) ==
  /\ At(r, "goLive")
  /\ draft' = [draft EXCEPT !.fs = "live", !.es = "verified", !.event = TRUE, !.pub = "live"]
  /\ Finish(r)
  /\ OnlyDraft

-----------------------------------------------------------------------------
\* Circle's view of a challenge and its transaction.
HasTx == fundCall.state \in {"SIGNED", "SENT", "MINED", "REVERTED"}
HasHash == fundCall.state \in {"SENT", "MINED", "REVERTED"}

\* circleChallengeStatus
CircleStatus(call) ==
  CASE call.state = "CREATED" -> "PENDING" [] call.state = "DENIED" -> "FAILED"
    [] OTHER -> "COMPLETE"

\* A bug: a transaction's id is taken for its hash.
IdAsHash(status) == {[status |-> status, tx |-> HasTx, hash |-> HasTx]}

\* persistFundingAttempt replaces the attempt by what Circle answers about the
\* challenge and its transaction; either question may fail.
Persisted(status) ==
  {[status |-> "PENDING", tx |-> FALSE, hash |-> FALSE],
   [status |-> status, tx |-> HasTx, hash |-> FALSE],
   [status |-> status, tx |-> HasTx, hash |-> HasHash]}

\* createProductFundingChallenge: an active attempt is resumed.
StartFund(r) ==
  LET active == Active(fundAttempt.status)
      resumed == [Read EXCEPT !.tx = @ \/ fundAttempt.tx, !.hash = @ \/ fundAttempt.hash]
  IN Begin(r, [Idle EXCEPT !.kind = "fund", !.draft = IF active THEN resumed ELSE Read,
                           !.pc = IF active THEN "resume" ELSE "verify"])

ResumeFunding(r) ==
  LET d == requests[r].draft
  IN /\ At(r, "resume")
     /\ draft' = [draft EXCEPT !.fs = "funding-pending", !.tx = d.tx, !.hash = d.hash]
     /\ Become(r, Overview("fund"))
     /\ OnlyDraft

\* A challenge that is funded already is an error, reported after the patch.
DecideFunding(r) ==
  LET q == requests[r]
      d == q.draft
      v == q.result
  IN /\ At(r, "decide")
     /\ \/ /\ v.funded
           /\ draft' = [draft EXCEPT !.fs = IF v.verified THEN "funded" ELSE d.fs,
                                     !.es = IF v.verified THEN "verified" ELSE d.es,
                                     !.hash = v.hash \/ d.hash, !.event = v.event \/ d.event,
                                     !.pub = IF v.verified THEN "ready-to-publish" ELSE @]
           /\ Finish(r)
        \/ /\ ~v.funded
           /\ IF v.allowance < d.amount THEN Finish(r)
              ELSE Become(r, [q EXCEPT !.pc = "createFunding", !.result = None])
           /\ UNCHANGED draft
     /\ OnlyDraft

\* Circle answers a key it has seen with the challenge it already made.
WithCall(call, terms) ==
  IF call.state = "ABSENT" THEN [state |-> "CREATED", terms |-> terms] ELSE call

CreateFunding(r) ==
  LET d == requests[r].draft
  IN /\ At(r, "createFunding")
     /\ fundCall' = WithCall(fundCall, [amount |-> d.amount, dates |-> d.dates])
     /\ Become(r, [Idle EXCEPT !.pc = "persistFunding", !.kind = "fund"])
     /\ UNCHANGED <<draft, record, attempts, apprCall, allowance, escrow>>

PersistFunding(r) ==
  /\ At(r, "persistFunding")
  /\ fundAttempt' \in Persisted("PENDING")
  /\ Go(r, "markFunding")
  /\ UNCHANGED <<draft, record, apprAttempt, outside>>

MarkFunding(r) ==
  /\ At(r, "markFunding")
  /\ draft' = [draft EXCEPT !.fs = "funding-pending"]
  /\ Become(r, Overview("fund"))
  /\ OnlyDraft

-----------------------------------------------------------------------------
\* reconcileProductTransaction, stage funding, with the challenge's id.
StartReconcile(r) ==
  /\ fundAttempt.status # "ABSENT"
  /\ Begin(r, [Idle EXCEPT !.pc = "persist", !.kind = "reconcile"])

PersistReconciled(r) ==
  /\ At(r, "persist")
  /\ fundAttempt' \in Persisted(CircleStatus(fundCall))
  /\ Go(r, "lookup")
  /\ UNCHANGED <<draft, record, apprAttempt, outside>>

\* Circle knows no transaction, an id only, a transaction without its hash, or
\* all of it.
Lookups ==
  CASE fundCall.state \in {"CREATED", "DENIED"} -> {"none"}
    [] fundCall.state = "SIGNED" -> {"none", "id", "tx"}
    [] OTHER -> {"id", "hash"}

Lookup(r) ==
  /\ At(r, "lookup")
  /\ \E found \in Lookups :
       Become(r, [requests[r] EXCEPT !.outcome = found,
                    !.pc = IF found \in {"none", "id"} THEN "verify" ELSE "persistComplete"])
  /\ OnlyRequests

PersistComplete(r) ==
  /\ At(r, "persistComplete")
  /\ \E h \in {requests[r].outcome = "hash", HasHash} :
       fundAttempt' = [status |-> "COMPLETE", tx |-> TRUE, hash |-> h]
  /\ Go(r, "markReconciled")
  /\ UNCHANGED <<draft, record, apprAttempt, outside>>

MarkReconciled(r) ==
  LET known == requests[r].outcome = "hash"
  IN /\ At(r, "markReconciled")
     /\ draft' = [draft EXCEPT !.tx = TRUE, !.hash = known,
                               !.fs = IF known THEN "funded" ELSE "funding-pending",
                               !.es = IF known THEN "locked" ELSE "pending"]
     /\ IF known THEN Go(r, "verify") ELSE Become(r, Overview("reconcile"))
     /\ OnlyDraft

\* restoreFundingStateFromChain, for funding that could not be verified.
ReadRestored(r) ==
  /\ At(r, "readRestored")
  /\ Become(r, [requests[r] EXCEPT !.pc = "restore", !.inner = Read])
  /\ OnlyRequests

Restore(r) ==
  LET q == requests[r]
      d == q.inner
      v == q.result
  IN /\ At(r, "restore")
     /\ draft' = [draft EXCEPT
          !.appr = v.appr \/ d.appr, !.hash = v.hash \/ d.hash, !.event = v.event \/ d.event,
          !.fs = IF v.allowance >= d.amount THEN "approved" ELSE "ready",
          !.es = IF v.hash THEN "locked" ELSE "not-created",
          !.pub = "draft"]
     /\ Become(r, IF q.outcome = "hash" THEN Overview("reconcile")
                  ELSE [Idle EXCEPT !.pc = "markPending", !.kind = q.kind,
                                    !.outcome = q.outcome])
     /\ OnlyDraft

MarkPending(r) ==
  /\ At(r, "markPending")
  /\ draft' = [draft EXCEPT !.fs = "funding-pending", !.es = "pending",
                            !.tx = @ \/ requests[r].outcome = "id"]
  /\ Become(r, Overview("reconcile"))
  /\ OnlyDraft

-----------------------------------------------------------------------------
\* createProductApprovalChallenge, and the routes that only recover approvals.
StartApproval(r, kind) ==
  Begin(r, [Idle EXCEPT !.pc = "askApproval", !.kind = kind, !.draft = Read,
                        !.amount = Read.amount])

\* reconcileCurrentApprovalAttempts asks Circle about the attempts, or for the
\* challenges it made if none is stored; Circle may not answer.  Then it reads
\* the allowance.  "yes" says that the approval's transaction is known.
AskApproval(r) ==
  /\ At(r, "askApproval")
  /\ \/ apprCall.state # "ABSENT" /\ apprAttempt' = CircleStatus(apprCall)
     \/ UNCHANGED apprAttempt
  /\ Become(r, [requests[r] EXCEPT
       !.pc = "settleApproval",
       !.outcome = IF allowance >= requests[r].amount THEN "granted"
                   ELSE IF Active(apprAttempt') THEN "active" ELSE "none",
       !.yes = Active(apprAttempt') /\ apprCall.state = "MINED"])
  /\ UNCHANGED <<draft, record, fundAttempt, outside>>

\* The funding status becomes what the allowance and the attempts say, whatever it is.
SettleApproval(r) ==
  LET q == requests[r]
      known == q.yes \/ q.draft.appr
  IN /\ At(r, "settleApproval")
     /\ draft' = CASE q.outcome = "granted" ->
                         [draft EXCEPT !.fs = "approved", !.appr = known]
                    [] q.outcome = "active" ->
                         [draft EXCEPT !.fs = "approval-pending", !.appr = known]
                    [] q.outcome = "none" -> [draft EXCEPT !.fs = "ready"]
     /\ Become(r, IF q.kind = "recover" THEN Overview("recover")
                  ELSE IF q.outcome # "none" THEN Idle
                  ELSE [Idle EXCEPT !.pc = "preflight", !.kind = q.kind, !.amount = q.amount])
     /\ OnlyDraft

\* getCreateChallengePreflight
ReadPreflight(r) ==
  /\ At(r, "preflight")
  /\ Become(r, [requests[r] EXCEPT !.pc = "overview", !.draft = Read])
  /\ OnlyRequests

StartPreflight(r) ==
  Begin(r, [Idle EXCEPT !.pc = "preflight", !.kind = "preflight"])

\* The patch carries the whole funding of the draft read before the overview.
SavePreflight(r) ==
  LET q == requests[r]
      d == q.draft
  IN /\ At(r, "savePreflight")
     /\ draft' = [draft EXCEPT !.fs = IF q.yes THEN "ready" ELSE d.fs, !.es = d.es,
                               !.appr = d.appr, !.tx = d.tx, !.hash = d.hash,
                               !.event = d.event]
     /\ Become(r, IF q.kind = "approve" /\ q.yes
                  THEN [Idle EXCEPT !.pc = "createApproval", !.kind = q.kind,
                                    !.amount = q.amount]
                  ELSE Idle)
     /\ OnlyDraft

CreateApproval(r) ==
  /\ At(r, "createApproval")
  /\ apprCall' = WithCall(apprCall, requests[r].amount)
  /\ Become(r, [Idle EXCEPT !.pc = "persistApproval", !.kind = "approve"])
  /\ UNCHANGED <<draft, record, attempts, fundCall, allowance, escrow>>

PersistApproval(r) ==
  /\ At(r, "persistApproval")
  /\ apprAttempt' = "PENDING"
  /\ Go(r, "markApproval")
  /\ UNCHANGED <<draft, record, fundAttempt, outside>>

MarkApproval(r) ==
  /\ At(r, "markApproval")
  /\ draft' = [draft EXCEPT !.fs = "approval-pending"]
  /\ Finish(r)
  /\ OnlyDraft

-----------------------------------------------------------------------------
\* A page of the browser loads the draft, and saves all of it later:
\* saveCreateChallengeDraft merges the page's funding and deployment over the
\* stored ones.  The page sends them as it has loaded them, old ones included;
\* that it does so is the page's, the route does not check it.
LoadPage(r) ==
  Begin(r, [Idle EXCEPT !.pc = "save", !.kind = "save", !.draft = Read])

SavePage(r) ==
  /\ At(r, "save")
  /\ \E terms \in Terms :
       draft' = [requests[r].draft EXCEPT !.amount = terms.amount, !.dates = terms.dates]
  /\ Finish(r)
  /\ OnlyDraft

\* The user's decision about a challenge whose id the browser was given, which
\* it was only after the attempt had been stored.
DecideApproval ==
  /\ apprCall.state = "CREATED" /\ apprAttempt # "ABSENT"
  /\ \/ apprCall' = [apprCall EXCEPT !.state = "DENIED"] /\ UNCHANGED allowance
     \/ apprCall' = [apprCall EXCEPT !.state = "MINED"] /\ allowance' = apprCall.terms
  /\ UNCHANGED <<draft, record, attempts, requests, fundCall, escrow>>

DecideFundCall ==
  /\ fundCall.state = "CREATED" /\ fundAttempt.status # "ABSENT"
  /\ \E s \in {"DENIED", "SIGNED"} : fundCall' = [fundCall EXCEPT !.state = s]
  /\ UNCHANGED <<draft, record, attempts, requests, apprCall, allowance, escrow>>

SendFunding ==
  /\ fundCall.state = "SIGNED"
  /\ fundCall' = [fundCall EXCEPT !.state = "SENT"]
  /\ UNCHANGED <<draft, record, attempts, requests, apprCall, allowance, escrow>>

\* fundChallenge on chain takes what the allowance covers; for want of USDC or
\* for its own reasons it can revert.
MineFunding ==
  /\ fundCall.state = "SENT"
  /\ \/ /\ allowance >= fundCall.terms.amount
        /\ fundCall' = [fundCall EXCEPT !.state = "MINED"]
        /\ escrow' = fundCall.terms
        /\ allowance' = allowance - fundCall.terms.amount
     \/ /\ fundCall' = [fundCall EXCEPT !.state = "REVERTED"]
        /\ UNCHANGED <<allowance, escrow>>
  /\ UNCHANGED <<draft, record, attempts, requests, apprCall>>

\* A call fails or the process stops; requests that wait for it end with it.
Abort(r) ==
  /\ requests[r].pc \in FailingSteps
  /\ requests' = [p \in Requests |->
       IF p = r \/ requests[p].leader = r THEN Idle ELSE requests[p]]
  /\ OnlyRequests

Step(r) ==
  \/ ReadOverview(r) \/ ReadAttempts(r) \/ SaveApproved(r) \/ ReadReceipt(r)
  \/ SavePromoted(r) \/ RecordPromoted(r)
  \/ StartVerification(r) \/ ReadChain(r) \/ SaveVerified(r) \/ SaveRecord(r)
  \/ ReadEvidence(r) \/ GoLive(r)
  \/ ResumeFunding(r) \/ DecideFunding(r) \/ CreateFunding(r) \/ PersistFunding(r)
  \/ MarkFunding(r)
  \/ PersistReconciled(r) \/ Lookup(r) \/ PersistComplete(r) \/ MarkReconciled(r)
  \/ ReadRestored(r) \/ Restore(r) \/ MarkPending(r)
  \/ AskApproval(r) \/ SettleApproval(r) \/ ReadPreflight(r) \/ SavePreflight(r)
  \/ CreateApproval(r) \/ PersistApproval(r) \/ MarkApproval(r)
  \/ SavePage(r)

Start(r) ==
  \/ StartOverview(r) \/ StartVerify(r) \/ StartPublish(r) \/ StartFund(r)
  \/ StartReconcile(r) \/ StartPreflight(r) \/ LoadPage(r)
  \/ \E kind \in {"approve", "recover"} : StartApproval(r, kind)

Next ==
  \/ \E r \in Requests : Start(r)
  \/ /\ \/ \E r \in Requests : Step(r) \/ Abort(r)
        \/ DecideApproval \/ DecideFundCall \/ SendFunding \/ MineFunding
     /\ UNCHANGED started

Spec == Init /\ [][Next]_vars

-----------------------------------------------------------------------------
TypeOK ==
  /\ draft \in Draft
  /\ record \in BOOLEAN
  /\ fundAttempt \in FundingAttempt /\ apprAttempt \in AttemptStatuses
  /\ requests \in [Requests -> RequestLocals] /\ started \in 0..MaxRequests
  /\ fundCall \in [state : CallStates, terms : Terms \cup {None}]
  /\ apprCall \in [state : CallStates, terms : Amounts \cup {None}]
  /\ allowance \in Nat
  /\ escrow \in Terms \cup {None}

\* Whatever is saved late, from wherever: a draft that is ready to publish or
\* live, whose escrow counts as verified or whose event does, and a verification
\* record mean that the contract holds this challenge's prizes.
VerifiedIsFunded ==
  (draft.pub # "draft" \/ draft.es = "verified" \/ draft.event \/ record) => escrow # None

\* A live challenge has its verification record, whichever of the two ways it
\* was published and whatever failed in between.
LiveHasRecord == draft.pub = "live" => record

\* A transaction hash in the draft or the attempt is one Circle reported.
HashesAreReal == draft.hash \/ fundAttempt.hash => HasHash
=============================================================================
