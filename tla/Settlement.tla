----------------------------- MODULE Settlement -----------------------------
(***************************************************************************)
(* The settlement of one challenge as its people see it: the brand's       *)
(* campaign page (src/features/dashboard/components/                       *)
(* campaign-workspace-tabs.tsx) and the creators' lists of submissions and *)
(* rewards (creator-workspace.server.ts), composed with module Payout.     *)
(*                                                                         *)
(* The brand page keeps two copies of the attempt: the one it was rendered *)
(* with, which router.refresh() renews, and the settlement tab's own,      *)
(* which only answers replace and which is lost with the tab.  A page is   *)
(* told what the attempt was when the server answered; by the time it      *)
(* shows it, the attempt may have gone on.                                 *)
(***************************************************************************)
EXTENDS Payout, Naturals, Sequences

CONSTANTS
  Creators,      \* who submitted an entry; a winner list names them by place
  Readers,       \* the creators whose pages are followed
  MaxSetbacks    \* bound on reloads, early leaves, lost answers and failed reads

ASSUME SettlementConstants ==
  /\ \A winners \in Selections : winners \in Seq(Creators)
  /\ Readers \subseteq Creators
  /\ MaxSetbacks \in Nat
  /\ "create-approval" \in ApprovalModes /\ None \in ClientHashes   \* what the page sends
  /\ None \notin {"finalize", "approval", "status", "reconcile", "create-approval", "default"}

VARIABLES
  page,          \* the campaign page of the brand
  told,          \* what each creator was shown last
  setbacks       \* how much went wrong, up to MaxSetbacks

shown == <<page, told, setbacks>>
settlementVars == <<vars, page, told, setbacks>>

\* What the pages read of the attempt.
View(a) == [finalized |-> a.finalized, winners |-> a.winners, state |-> a.state,
            approval |-> a.approval, hash |-> a.hash]
Views == [finalized : BOOLEAN, winners : Selections \cup {None}, state : States,
          approval : Keys \cup {None}, hash : Hashes \cup {None}]

\* What an answer, or the page it was rendered with, tells the settlement tab.
Told(a) == [state |-> a.state, approval |-> a.approval, hash |-> a.hash]
Records == [state : States, approval : Keys \cup {None}, hash : Hashes \cup {None}]

\* The page as it is rendered: the evaluation tab's lock is what the attempt
\* says now, the settlement tab is closed.
Rendered(a) == [known |-> View(a), locked |-> a.finalized, record |-> None, pending |-> None,
                request |-> None, window |-> None, stale |-> FALSE]

Unlisted == [status |-> "Submitted", reward |-> "None", place |-> 0]

SettlementInit ==
  /\ Init
  /\ page = Rendered(NoAttempt)
  /\ told = [c \in Readers |-> Unlisted]
  /\ setbacks = 0

Setback == setbacks < MaxSetbacks /\ setbacks' = setbacks + 1

-----------------------------------------------------------------------------
\* The buttons of the brand's page.

AtRest == page.pending = None

\* The page is asking for nothing any more; its record is left alone.
Refused(p) == [p EXCEPT !.pending = None, !.request = None]

\* The settlement tab is open and its record is not confirmed.
Unsettled == page.record # None /\ page.record.state # "PAYOUT_CONFIRMED"

CanReconcile == Unsettled /\ page.record.hash # None

\* A bug: the status is asked for only once there is a hash to look for.
OnlyWithHash == CanReconcile

CanRefresh == Unsettled

\* hasChallenge disables the button once the record names a challenge.
CanInitiate == Unsettled /\ page.record.approval = None

Offered(what) ==
  CASE what = "finalize" -> ~page.locked
    [] what = "approval" -> CanInitiate
    [] what = "status" -> CanRefresh
    [] what = "reconcile" -> CanReconcile

Click(what) ==
  /\ AtRest /\ Offered(what)
  /\ page' = [page EXCEPT !.pending = what]
  /\ UNCHANGED <<vars, told, setbacks>>

\* The settlement tab shows once the page knows of a finalization; its record
\* starts as what the page was rendered with.
OpenTab ==
  /\ AtRest /\ page.record = None /\ page.known.finalized
  /\ page' = [page EXCEPT !.record = Told(page.known)]
  /\ UNCHANGED <<vars, told, setbacks>>

LeaveTab ==
  /\ AtRest /\ page.record # None
  /\ page' = [page EXCEPT !.record = None]
  /\ UNCHANGED <<vars, told, setbacks>>

\* A request that is under way goes on without the tab; all its answer still
\* does is to renew the page.  While an approval is asked for, Circle's window
\* is about to cover the page, and nobody leaves.
LeaveEarly ==
  /\ Setback
  /\ page.request # None /\ page.pending \in {"status", "reconcile"}
  /\ page' = [Refused(page) EXCEPT !.record = None, !.stale = TRUE]
  /\ UNCHANGED <<vars, told>>

\* The page is rendered anew; a failing read of the attempt counts as none.
Reload ==
  /\ Setback
  /\ page' \in {Rendered(attempt), Rendered(NoAttempt)}
  /\ UNCHANGED <<vars, told>>

\* The brand reloads a page that shows nothing of the finalization it made.
ReloadAgain ==
  /\ ~page.known.finalized /\ attempt.finalized
  /\ page' = Rendered(attempt)
  /\ UNCHANGED <<vars, told, setbacks>>

\* router.refresh() renews what the page was rendered with, and nothing else.
Refreshed ==
  /\ page.stale
  /\ page' = [page EXCEPT !.stale = FALSE, !.known = View(attempt)]
  /\ UNCHANGED <<vars, told, setbacks>>

\* If that read fails, the settlement tab goes, and its record with it.
RefreshedInVain ==
  /\ page.stale
  /\ Setback
  /\ page' = [Rendered(NoAttempt) EXCEPT !.locked = page.locked]
  /\ UNCHANGED <<vars, told>>

-----------------------------------------------------------------------------
\* What an answer makes of the page; after an error it is Refused(p).
Answered(p, a) ==
  CASE p.pending = "finalize" -> [Refused(p) EXCEPT !.locked = TRUE, !.stale = TRUE]
    [] p.pending = "approval" ->
         [p EXCEPT !.request = None, !.window = a.approval,
                   !.record = [state |-> "ACTION_REQUIRED", approval |-> a.approval, hash |-> None]]
    [] OTHER -> [Refused(p) EXCEPT !.record = Told(a), !.stale = TRUE]

Unsent(what) == page.pending = what /\ page.request = None /\ page.window = None

\* The request starts; the winners of an approval are those the page knows.
Send(r) ==
  /\ page' = [page EXCEPT !.request = r]
  /\ \/ Unsent("finalize") /\ \E winners \in Selections : StartFinalize(r, winners)
     \/ Unsent("approval") /\ StartApproval(r, page.known.winners, "create-approval")
     \/ Unsent("status") /\ StartStatus(r)
     \/ Unsent("reconcile") /\ StartReconcile(r, None)
  /\ UNCHANGED <<told, setbacks>>

\* A request that changes nothing is answered as it arrives.  A finalization
\* that was made already is confirmed, if it named the same winners.
FundedKnown == cachedFunded \/ escrow = "FUNDED"

ArrivesLate ==
  \/ /\ Unsent("finalize")
     /\ \/ FundedKnown /\ attempt.finalized /\ page' \in {Answered(page, attempt), Refused(page)}
        \/ /\ ~FundedKnown \/ (~attempt.finalized /\ ~NotFinalized)
           /\ page' = Refused(page)
  \/ Unsent("approval") /\ ~PayoutReady /\ page' = Refused(page)
  \/ /\ Unsent("status")
     /\ attempt.state = "PAYOUT_CONFIRMED" \/ (attempt.approval = None /\ attempt.tx = None)
     /\ page' = Answered(page, attempt)
  \/ /\ Unsent("reconcile") /\ ~Reconcilable(None)
     /\ page' = IF HashToCheck(None) = None THEN Refused(page) ELSE Answered(page, attempt)

AnswerAtOnce ==
  /\ ArrivesLate
  /\ cachedFunded' = (cachedFunded \/ (escrow = "FUNDED" /\ page.pending \in {"finalize", "approval"}))
  /\ UNCHANGED <<attempt, requests, circle, outside, evidence, settled, told, setbacks>>

\* The step with which a request ends says how it is answered.
Succeeds(r) ==
  CASE page.pending = "finalize" -> At(r, "recordFinalized")
    [] page.pending = "approval" ->
         At(r, "recordApproval")
         \/ (At(r, "readAttempt") /\ MatchesFinalized(r) /\ attempt.approval # None)
    [] OTHER -> requests[r].pc \notin {"readReceipt", "persistEvidence"}

\* A step of the server; the page hears of the last one, if it still listens.
Serve(r) ==
  /\ Continue(r)
  /\ page' = IF page.request # r \/ requests'[r].pc # "idle" THEN page
             ELSE IF Succeeds(r) THEN Answered(page, attempt') ELSE Refused(page)
  /\ UNCHANGED <<told, setbacks>>

Break(r) ==
  /\ Abort(r)
  /\ page' = IF page.request = r THEN Refused(page) ELSE page
  /\ UNCHANGED <<told, setbacks>>

\* The answer is lost; the server goes on.
LoseAnswer ==
  /\ Setback
  /\ page.request # None
  /\ page' = Refused(page)
  /\ UNCHANGED <<vars, told>>

-----------------------------------------------------------------------------
\* Circle's hosted window on the page.  Its success asks for the status.
Approve ==
  /\ page.window # None
  /\ Decide(page.window, "SENT")
  /\ page' = [page EXCEPT !.window = None, !.pending = "status"]
  /\ UNCHANGED <<told, setbacks>>

Deny ==
  /\ page.window # None
  /\ Decide(page.window, "DENIED")
  /\ page' = [page EXCEPT !.window = None, !.pending = None]
  /\ UNCHANGED <<told, setbacks>>

CloseWindow ==
  /\ page.window # None
  /\ page' = [page EXCEPT !.window = None, !.pending = None]
  /\ UNCHANGED <<vars, told, setbacks>>

-----------------------------------------------------------------------------
\* The creators' pages.
Winners(a) == IF a.winners = None THEN {} ELSE {a.winners[i] : i \in DOMAIN a.winners}

\* The index of the entry in the attempt's list, counted from 1; 0 if absent.
Place(c, a) ==
  IF c \in Winners(a) THEN CHOOSE i \in DOMAIN a.winners : a.winners[i] = c ELSE 0

\* A bug: a hash in the record is taken for a payout.
HashIsPaid(a, e) == a.hash # None

\* rewardForSubmission: the record must say so and the evidence must agree.
Paid(a, e) == a.state = "PAYOUT_CONFIRMED" /\ e # None /\ e.hash = a.hash

RewardStatus(a, e) ==
  IF Paid(a, e) THEN "Paid"
  ELSE IF a.state = "FINALIZATION_FAILED" THEN "Settlement Failed"
  ELSE IF a.approval # None \/ a.hash # None THEN "Processing"
  ELSE "Pending Settlement"

\* statusForSubmission.  "Not Selected" needs an attempt that was found by a
\* submission it does not name, and never shows.
StatusOf(a, reward) ==
  IF reward = "Paid" \/ a.state = "PAYOUT_CONFIRMED" THEN "Reward Paid" ELSE "Winner"

\* A creator who is in no list the page has read sees a submission and no reward.
Standing(c, a, e) ==
  IF c \notin Winners(a) THEN Unlisted
  ELSE [status |-> StatusOf(a, RewardStatus(a, e)), reward |-> RewardStatus(a, e),
        place |-> Place(c, a)]

\* A creator opens a page.  The attempts are read before the evidence of their
\* payout; one step stands for both reads, since evidence counts only beside a
\* confirmed attempt, which a request by itself does not take back.
Look(c) ==
  /\ told' = [told EXCEPT ![c] = Standing(c, attempt, evidence)]
  /\ UNCHANGED <<vars, page, setbacks>>

\* A read that fails counts as one that found nothing: the attempts are an
\* empty list, or the evidence is.
LookInVain(c) ==
  /\ Setback
  /\ \/ told' = [told EXCEPT ![c] = Unlisted]
     \/ told' = [told EXCEPT ![c] = Standing(c, attempt, None)]
  /\ UNCHANGED <<vars, page>>

-----------------------------------------------------------------------------
Environment ==
  /\ (\E k \in DOMAIN circle : Mine(k) \/ Report(k)) \/ Refund \/ EndReview \/ CacheExpires
  /\ UNCHANGED shown

SettlementNext ==
  \/ \E what \in {"finalize", "approval", "status", "reconcile"} : Click(what)
  \/ OpenTab \/ LeaveTab \/ LeaveEarly \/ Reload \/ ReloadAgain \/ Refreshed \/ RefreshedInVain
  \/ \E r \in Requests : Send(r) \/ Serve(r) \/ Break(r)
  \/ AnswerAtOnce \/ LoseAnswer
  \/ Approve \/ Deny \/ CloseWindow
  \/ \E c \in Readers : Look(c) \/ LookInVain(c)
  \/ Environment

SettlementSpec == SettlementInit /\ [][SettlementNext]_settlementVars

\* What was asked is sent and answered, a window is not left open for ever, a
\* mined transaction is reported, the brand comes back to the settlement tab
\* and keeps asking, and creators keep opening their pages.
FairSettlement ==
  /\ SettlementSpec
  /\ WF_settlementVars(OpenTab) /\ WF_settlementVars(ReloadAgain)
  /\ SF_settlementVars(Click("status"))
  /\ WF_settlementVars(AnswerAtOnce \/ \E r \in Requests : Send(r))
  /\ \A r \in Requests : WF_settlementVars(Serve(r))
  /\ WF_settlementVars(CloseWindow) /\ WF_settlementVars(Refreshed)
  /\ \A k \in Keys : WF_settlementVars(k \in DOMAIN circle /\ Report(k) /\ UNCHANGED shown)
  /\ \A c \in Readers : WF_settlementVars(Look(c))

-----------------------------------------------------------------------------
\* Every variable has its type.
SettlementTypeOK ==
  /\ page \in [known : Views, locked : BOOLEAN, record : Records \cup {None},
               pending : {None, "finalize", "approval", "status", "reconcile"},
               request : Requests \cup {None}, window : Keys \cup {None}, stale : BOOLEAN]
  /\ told \in [Readers ->
       [status : {"Submitted", "Winner", "Reward Paid"}, place : Nat,
        reward : {"None", "Paid", "Settlement Failed", "Processing", "Pending Settlement"}]]
  /\ setbacks \in 0..MaxSetbacks

\* The brand's page is done: currentLifecycleState says completed, or the
\* settlement tab does.
Completed == page.known.state = "PAYOUT_CONFIRMED"
TabCompleted == page.record # None /\ page.record.state = "PAYOUT_CONFIRMED"

\* Nobody is shown a payout that was not made: a creator who reads of a paid
\* reward was paid by the contract, at the place whose amount the page names,
\* and a brand reads of a completed campaign only of a challenge that is paid.
PaidIsTrue ==
  /\ \A c \in Readers :
       "Paid" = told[c].reward \/ told[c].status = "Reward Paid" =>
         escrow = "PAID" /\ payout.winners[told[c].place] = c
  /\ Completed \/ TabCompleted => escrow = "PAID"

\* Also when requests overlap, nobody reads of a payout that was not made: a
\* reward counts as paid only with evidence that is the payout, and what the
\* brand reads of as completed names the transaction that paid it.
PaymentIsReal ==
  /\ \A c \in Readers :
       /\ "Paid" = told[c].reward \/ told[c].status = "Reward Paid" => escrow = "PAID"
       /\ "Paid" = told[c].reward => evidence # None /\ evidence = payout
  /\ Completed => escrow = "PAID" /\ page.known.hash = payout.hash
  /\ TabCompleted => escrow = "PAID" /\ page.record.hash = payout.hash

\* A creator who was told of a win reads of it for good, at the same place,
\* and one who was told of a payout too, unless the page could not read.
WinsAreNotTakenBack ==
  [][\A c \in Readers :
       (told[c].place # 0 /\ setbacks' = setbacks) =>
         /\ told'[c].place = told[c].place
         /\ told[c].status = "Reward Paid" => told'[c].status = "Reward Paid"]_settlementVars

\* A request that confirmed the payout ended before it wrote the evidence:
\* none is at that write any more, and no later one gets there (see
\* SettlementIsRecorded in module Payout).
EvidenceLost ==
  /\ attempt.state = "PAYOUT_CONFIRMED" /\ evidence = None
  /\ \A r \in Requests : ~At(r, "persistEvidence")

\* A payout reaches everyone: the campaign page says completed, every creator
\* the contract paid reads of it, and of a paid reward, unless the write of the
\* evidence failed: then the reward reads as being processed for ever.
EveryoneLearns ==
  /\ escrow = "PAID" ~> Completed
  /\ \A c \in Readers :
       (escrow = "PAID" /\ c \in Winners(payout)) ~>
         /\ told[c].status = "Reward Paid"
         /\ told[c].reward = "Paid" \/ EvidenceLost

\* SYSTEM_ARCHITECTURE.md:152: settlement is where the payout approval is
\* created or recovered.  An approval the payout wallet's user has still to
\* confirm can be opened again from the settlement tab.
ApprovalIsRecoverable ==
  (AtRest /\ page.record # None /\ attempt.approval # None
     /\ circle[attempt.approval].state = "OFFERED") => CanInitiate
=============================================================================
