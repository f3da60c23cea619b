------------------------------- MODULE Terms -------------------------------
(***************************************************************************)
(* The terms of a challenge, its prizes and its two deadlines, from the    *)
(* wizard's form to the payout: the arithmetic of                          *)
(* src/utils/create-challenge-finance.ts, the deadline policy, launch      *)
(* readiness, and the checks of the terms by the funding, publication,     *)
(* submission and payout services and by the contract.                     *)
(*                                                                         *)
(* Three copies of the terms exist: the draft, which the brand can edit at *)
(* any time, what Circle was asked to let the brand sign, and the escrow.  *)
(* The server reads its own clock, the contract the time of its block.     *)
(* Requests are atomic here; Funding, Submissions and Payout have their    *)
(* interleavings, failures and other checks.                               *)
(***************************************************************************)
EXTENDS Integers, Sequences

CONSTANTS
  Totals,      \* prize pools a brand can enter, in units of USDC
  EnteredPrizes,  \* prizes it can enter
  Deadlines,   \* times it can enter; 0 is one that is not set
  Lead,        \* minimumSubmissionLeadMinutes
  Gap,         \* minimumReviewGapMinutes
  MaxLag,      \* how far the last block may be behind the server's clock
  LastTime, MaxEntries, MaxEdits,  \* bounds
  None

ASSUME TermsConstants ==
  /\ Totals \subseteq Nat /\ EnteredPrizes \subseteq Nat
  /\ Lead \in Nat /\ Gap \in Nat /\ MaxLag \in Nat
  /\ LastTime \in Nat /\ MaxEntries \in Nat /\ MaxEdits \in Nat
  /\ \A d \in Deadlines : d \in Nat /\ d < LastTime

VARIABLES
  clock,      \* the server's clock
  block,      \* the time of the last block
  draft,      \* the stored draft
  edits,      \* how often it was edited
  call,       \* the terms in Circle's challenge to fund, one per draft
  reverted,   \* the contract refused them
  escrow,     \* the terms on chain
  verified,   \* the draft says that they are there: fundingStatus, escrowStatus
  evidence,   \* what else is stored of that: the draft's eventVerified, a record
  published,  \* publicationStatus
  entries,    \* how many creators have submitted
  selected,   \* how many winners were selected, 0 before
  payout      \* the payout

termsVars == <<clock, block, draft, edits, call, reverted, escrow, verified, evidence,
          published, entries, selected, payout>>

Modes == {"recommended", "equal", "custom"}
Prizes == [1..1 -> Nat] \cup [1..3 -> Nat]
Draft == [total : Totals, count : {1, 3}, mode : Modes, prizes : Prizes,
          sub : Deadlines, rev : Deadlines]
Offer == [prizes : Prizes, fee : Nat, sub : Deadlines, rev : Deadlines]

ASSUME NoneIsNoOffer == None \notin Offer

-----------------------------------------------------------------------------
(* The prize pool.                                                         *)

Sum(p) == IF Len(p) = 1 THEN p[1] ELSE p[1] + p[2] + p[3]

\* recommendedUnits
Recommended(t) ==
  LET first == (t * 6000) \div 10000
      second == (t * 3000) \div 10000
  IN <<first, second, t - first - second>>

\* equalUnits
Equal(t) == <<(t \div 3) + (t % 3), t \div 3, t \div 3>>

\* calculatePlatformFeeUnits: ten percent, rounded up.
PlatformFee(t) == (t * 1000 + 10000 - 1) \div 10000

\* calculatePrizePool
Distribution(d) ==
  CASE d.count = 1 -> <<d.total>>
    [] d.count = 3 /\ d.mode = "equal" -> Equal(d.total)
    [] d.count = 3 /\ d.mode = "custom" -> d.prizes
    [] d.count = 3 /\ d.mode = "recommended" -> Recommended(d.total)

\* normalizePrizePool
Normalized(d) ==
  LET mode == IF d.count = 1 THEN "recommended" ELSE d.mode
  IN [d EXCEPT !.mode = mode, !.prizes = Distribution([d EXCEPT !.mode = mode])]

\* A bug: a prize of nothing passes.
SumOnly(d) == d.total > 0 /\ Sum(d.prizes) = d.total

\* validateCreateChallengeStep, prize-pool
PrizesReady(d) ==
  /\ d.total > 0
  /\ \A i \in DOMAIN d.prizes : d.prizes[i] > 0
  /\ Sum(d.prizes) = d.total

-----------------------------------------------------------------------------
(* The deadlines.                                                          *)

\* normalizeChallengeDeadlines, without issues
InOrder(d) == d.sub > 0 /\ d.rev > d.sub

\* validateCreateChallengeDeadlines
DatesReady(d, t) ==
  /\ d.sub > t /\ d.sub >= t + Lead
  /\ d.rev > d.sub /\ d.rev >= d.sub + Gap

\* validateCreateChallengeLaunchReadiness
LaunchReady(d, t) == PrizesReady(d) /\ DatesReady(d, t)

\* getFundingIntentFromDraft
Intent(d) == [prizes |-> d.prizes, fee |-> PlatformFee(d.total), sub |-> d.sub, rev |-> d.rev]

\* challengeMatchesIntent: the contract holds the terms of this draft.
Matches(d) == escrow = Intent(d) /\ Sum(escrow.prizes) = d.total

\* fundChallenge and releasePayout, as far as they look at the terms.
FundableTerms(terms, time) ==
  /\ Len(terms.prizes) \in {1, 3}
  /\ \A i \in DOMAIN terms.prizes : terms.prizes[i] > 0
  /\ terms.sub > time /\ terms.rev > terms.sub
Releasable(time) == payout = "approved" /\ time >= escrow.rev /\ selected = Len(escrow.prizes)

-----------------------------------------------------------------------------
NewDrafts == [total : Totals, count : {1, 3}, mode : Modes, prizes : [1..3 -> EnteredPrizes],
              sub : Deadlines, rev : Deadlines]

\* Whatever the brand has entered and saved so far.
TermsInit ==
  /\ clock = 1 /\ block = 1
  /\ draft \in {Normalized(d) : d \in NewDrafts}
  /\ edits = 0
  /\ call = None /\ reverted = FALSE /\ escrow = None
  /\ verified = FALSE /\ evidence = "none" /\ published = "draft"
  /\ entries = 0 /\ selected = 0 /\ payout = "none"

clocks == <<clock, block>>
chain == <<call, reverted, escrow>>
launch == <<verified, evidence, published>>
campaign == <<entries, selected, payout>>

ClockTick ==
  /\ clock < LastTime /\ clock' = clock + 1
  /\ clock' - block <= MaxLag
  /\ UNCHANGED <<block, draft, edits, chain, launch, campaign>>

Mine ==
  /\ block' \in (block + 1)..clock
  /\ UNCHANGED <<clock, draft, edits, chain, launch, campaign>>

-----------------------------------------------------------------------------
(* The wizard's prize and rules steps, and the save that follows.          *)

Save(d) ==
  /\ edits < MaxEdits /\ edits' = edits + 1
  /\ draft' = Normalized(d) /\ draft' # draft
  /\ UNCHANGED <<clocks, chain, launch, campaign>>

UpdateTotal == \E t \in Totals : Save([draft EXCEPT !.total = t])
UpdateWinnerCount ==
  \E c \in {1, 3} : Save([draft EXCEPT !.count = c, !.mode = "recommended"])
UpdateMode == draft.count = 3 /\ \E m \in Modes : Save([draft EXCEPT !.mode = m])
UpdateDistribution ==
  /\ draft.count = 3 /\ draft.mode = "custom"
  /\ \E i \in 1..3, a \in EnteredPrizes : Save([draft EXCEPT !.prizes[i] = a])
UpdateDates ==
  \E t \in Deadlines : Save([draft EXCEPT !.sub = t]) \/ Save([draft EXCEPT !.rev = t])

-----------------------------------------------------------------------------
(* Funding and publication.                                                *)

\* createProductFundingChallenge; asked again, the brand gets the same challenge.
AskFunding ==
  /\ call = None /\ LaunchReady(draft, clock)
  /\ call' = Intent(draft)
  /\ UNCHANGED <<clocks, draft, edits, reverted, escrow, launch, campaign>>

\* The brand confirms, and the contract runs fundChallenge.
Fund ==
  /\ call # None /\ escrow = None /\ ~reverted
  /\ IF FundableTerms(call, block)
     THEN escrow' = call /\ UNCHANGED reverted
     ELSE reverted' = TRUE /\ UNCHANGED escrow
  /\ UNCHANGED <<clocks, draft, edits, call, launch, campaign>>

\* What getCanonicalFundingVerification finds: the escrow, not yet paid out,
\* with these terms.
Verifies == escrow # None /\ payout \notin {"released", "confirmed"} /\ Matches(draft)

EventSeen == evidence' = IF evidence = "none" THEN "event" ELSE evidence

\* verifyFundedChallenge, whatever the publication status; its event alone does
\* not show the terms.
Verify ==
  /\ escrow # None
  /\ IF Verifies
     THEN verified' = TRUE /\ evidence' = "record" /\ published' = "ready-to-publish"
     ELSE EventSeen /\ UNCHANGED <<verified, published>>
  /\ UNCHANGED <<clocks, draft, edits, chain, campaign>>

\* restoreFundingStateFromChain, when the funding is reconciled and the terms differ
Restore ==
  /\ escrow # None /\ ~Verifies
  /\ verified' = FALSE /\ published' = "draft" /\ EventSeen
  /\ UNCHANGED <<clocks, draft, edits, chain, campaign>>

\* verifyAndPromoteCompleteFundingAttempt compares the pool and the fee only.
Promote ==
  /\ evidence = "none" /\ escrow # None
  /\ Sum(escrow.prizes) = draft.total /\ escrow.fee = PlatformFee(draft.total)
  /\ verified' = TRUE /\ evidence' = "record" /\ published' = "ready-to-publish"
  /\ UNCHANGED <<clocks, draft, edits, chain, campaign>>

\* verifyAndPublishChallenge: readiness is asked for again; the terms on chain
\* are compared only if no record vouches for them.
Publish ==
  /\ published # "live" /\ LaunchReady(draft, clock)
  /\ verified \/ Verifies
  /\ verified' = TRUE /\ evidence' = "record" /\ published' = "live"
  /\ UNCHANGED <<clocks, draft, edits, chain, campaign>>

-----------------------------------------------------------------------------
(* The campaign.                                                           *)

\* verifyCanonicalChallengeForPhase, whatever the phase
Operating == published = "live" /\ verified /\ payout \notin {"released", "confirmed"} /\ InOrder(draft)

SubmissionPhase == Operating /\ clock < draft.sub
SelectionPhase == Operating /\ clock >= draft.sub
PayoutPhase == SelectionPhase /\ clock > draft.rev

\* finalizeCanonicalCreatorSubmission, of another creator each time
Submit ==
  /\ SubmissionPhase
  /\ entries < MaxEntries /\ entries' = entries + 1
  /\ UNCHANGED <<clocks, draft, edits, chain, launch, selected, payout>>

\* buildWinnerFinalizationSummary, for n winners, whose prizes are the draft's; the
\* reconciliation looks at the same.
SummaryFits(n) == n = draft.count /\ Sum(draft.prizes) = draft.total

\* resolveCanonicalWinnerSelection, finalizeWinnerSelection
SelectWinners ==
  /\ SelectionPhase
  /\ selected = 0 /\ entries >= draft.count
  /\ SummaryFits(draft.count)
  /\ selected' = draft.count
  /\ UNCHANGED <<clocks, draft, edits, chain, launch, entries, payout>>

\* A bug: the payout is not simulated.
Unsimulated == TRUE

\* simulateReleasePayout asks the contract as of its last block.
SimulationSucceeds == block >= escrow.rev /\ selected = Len(escrow.prizes)

\* verifyOnChainPayoutReadiness
PayoutReadiness == Matches(draft) /\ InOrder(draft)

\* createWinnerPayoutApproval
ApprovePayout ==
  /\ payout = "none" /\ PayoutPhase
  /\ SummaryFits(selected) /\ PayoutReadiness
  /\ SimulationSucceeds
  /\ payout' = "approved"
  /\ UNCHANGED <<clocks, draft, edits, chain, launch, entries, selected>>

\* The contract runs releasePayout.
Release ==
  /\ payout = "approved"
  /\ payout' = IF Releasable(block) THEN "released" ELSE "reverted"
  /\ UNCHANGED <<clocks, draft, edits, chain, launch, entries, selected>>

\* reconcileFinalizedWinnerPayout compares the receipt with the draft of now.
Confirm ==
  /\ payout = "released"
  /\ SummaryFits(selected)
  /\ escrow.prizes = draft.prizes /\ escrow.fee = PlatformFee(draft.total)
  /\ payout' = "confirmed"
  /\ UNCHANGED <<clocks, draft, edits, chain, launch, entries, selected>>

-----------------------------------------------------------------------------
DeadlineClosed == draft.sub > 0 /\ clock >= draft.sub

\* classifyChallengeLifecycle: the stage that every page shows
Lifecycle ==
  CASE payout = "confirmed" -> "completed"
    [] payout \in {"approved", "reverted", "released"} -> "settlement"
    [] payout = "none" /\ selected # 0 -> "selection"
    [] payout = "none" /\ selected = 0 ->
         IF published = "live" /\ verified /\ draft.sub > 0
         THEN CASE ~DeadlineClosed -> "live"
                [] DeadlineClosed /\ entries = 0 -> "closed-no-submissions"
                [] DeadlineClosed /\ entries # 0 /\ entries < draft.count ->
                     "closed-not-enough-submissions"
                [] DeadlineClosed /\ entries # 0 /\ entries >= draft.count -> "review"
         ELSE IF verified THEN "not-live" ELSE "draft"

Edit ==
  UpdateTotal \/ UpdateWinnerCount \/ UpdateMode \/ UpdateDistribution \/ UpdateDates

TermsNext ==
  \/ ClockTick \/ Mine
  \/ Edit
  \/ AskFunding \/ Fund \/ Verify \/ Restore \/ Promote \/ Publish
  \/ Submit \/ SelectWinners \/ ApprovePayout \/ Release \/ Confirm

TermsSpec == TermsInit /\ [][TermsNext]_termsVars

\* Time passes and blocks are mined, and the brand, who alone can, goes on to
\* select, approve, sign and reconcile.  It need not fund or publish.
FairSpec ==
  /\ TermsSpec
  /\ WF_termsVars(ClockTick) /\ WF_termsVars(Mine)
  /\ WF_termsVars(SelectWinners) /\ WF_termsVars(ApprovePayout)
  /\ WF_termsVars(Release) /\ WF_termsVars(Confirm)

-----------------------------------------------------------------------------
TermsTypeOK ==
  /\ clock \in 1..LastTime /\ block \in 1..clock
  /\ draft \in Draft /\ DOMAIN draft.prizes = 1..draft.count
  /\ edits \in 0..MaxEdits
  /\ call \in Offer \cup {None} /\ escrow \in {call, None}
  /\ reverted \in BOOLEAN /\ verified \in BOOLEAN
  /\ evidence \in {"none", "event", "record"}
  /\ published \in {"draft", "ready-to-publish", "live"}
  /\ entries \in 0..MaxEntries /\ selected \in {0, 1, 3}
  /\ payout \in {"none", "approved", "reverted", "released", "confirmed"}

\* What the server lets a brand sign is what the contract takes, whichever way
\* the prizes were split and whenever it is signed before submissions close;
\* the contract checks neither Lead nor Gap, the server no block.
FundingIsAccepted ==
  call # None /\ escrow = None /\ block < call.sub => FundableTerms(call, block)

\* The draft no longer says what the contract holds.
Drifted == escrow # None /\ ~Matches(draft)

\* A live challenge with enough entries is paid and shown as completed in the
\* end, unless somebody edits its terms or verifies its funding again.
LiveGetsPaid ==
  escrow # None /\ Lifecycle = "live" /\ entries >= Len(escrow.prizes)
    ~> Lifecycle = "completed" \/ Drifted \/ published # "live"

\* What is written elsewhere, or could be expected, and does not hold.

\* P0_FRESH_CHALLENGE_DEADLINE_READINESS_FIX_REPORT.md:15 tells of a draft whose
\* deadlines were no longer those of its escrow; it was repaired by hand.
TermsStay == published = "live" => Matches(draft)

\* SYSTEM_ARCHITECTURE.md:474: a browser cannot bypass a deadline.
DeadlineBinds == [][entries' # entries => clock < escrow.sub]_termsVars

\* Once its terms are repaired, a live challenge with enough entries is paid.
RepairedGetsPaid ==
  escrow # None /\ [](~Drifted /\ published = "live") /\ entries >= Len(escrow.prizes)
    ~> Lifecycle = "completed"
=============================================================================
