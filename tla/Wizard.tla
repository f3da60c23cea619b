------------------------------ MODULE Wizard ------------------------------
(***************************************************************************)
(* The page that creates, funds and publishes a challenge:                 *)
(* features/create-challenge/components/real-flow/                         *)
(* create-challenge-wizard.tsx, for one existing draft.                    *)
(*                                                                         *)
(* A handler of the page is a flow: it sends one request after another,    *)
(* and between them the brand types, clicks and navigates, other flows go  *)
(* on, effects run and Circle's window opens.  A request takes effect when *)
(* the server serves it and is answered later, in any order.  The server   *)
(* is reduced to what its answers depend on; module Funding has its steps. *)
(* The three form steps of the wizard are one here.                        *)
(***************************************************************************)
EXTENDS Naturals

CONSTANTS
  Flows,      \* the flows that can be under way at once
  Texts,      \* what the fields of the form can hold
  Complete,   \* the texts that launch readiness finds valid, but for the time
  Prizes,     \* the prizes that each text offers
  Deadlines,  \* and the deadlines that it sets
  Polls,      \* how often the pipeline asks again
  MaxSetbacks,  \* edits, detours, saves, balance refreshes and reloads that
                \* nothing asks for, an incomplete form continued, clicks while
                \* a handler is under way, failed requests, closed windows,
                \* deadlines that come too near
  None

ASSUME WizardConstants ==
  /\ DOMAIN Prizes = Texts /\ DOMAIN Deadlines = Texts
  /\ Polls \in Nat /\ MaxSetbacks \in Nat
  /\ Complete \subseteq Texts /\ Complete # {}
  /\ None \notin Texts
  /\ None \notin {"gone", "id", "already", "approved", "signed"}

VARIABLES
  page,    \* the state and the refs of the component
  window,  \* Circle's window: what it asks to sign, and the closure to go on in
  flows,   \* the handlers that wait for an answer or sleep
  server,  \* the stored draft, and how far its funding is
  past,    \* the deadlines that have come too near
  overlap, \* two requests that carry the draft have been under way at once,
           \* or one has carried another text than the page's
  setbacks

vars == <<page, window, flows, server, past, overlap, setbacks>>

Steps == {"form", "funding", "publish"}
\* How far the money is: an approval is asked for and given, funding is asked
\* for, signed and mined.
Stages == {"none", "approving", "approved", "funding", "signed", "mined"}
Form == [text : Texts, pub : {"draft", "ready-to-publish", "live"},   \* what is saved of it
         event : BOOLEAN]        \* eventVerified, with the transaction's hash
Draft == [text : Texts, pub : {"draft", "ready-to-publish", "live"}, event : BOOLEAN,
          stage : Stages]
Server == [draft : Draft, verified : BOOLEAN,     \* the verification record exists
           funded : Texts \cup {None}]            \* the text as funding was asked for

PaymentStates == {"NOT_STARTED", "RECOVERABLE_ERROR", "READY_FOR_APPROVAL",
                  "APPROVAL_PENDING", "APPROVED", "FUNDING_PENDING",
                  "FUNDED_VERIFIED", "PUBLISHED"}
Resumable == {"APPROVED", "FUNDING_PENDING", "FUNDED_VERIFIED"}
ResumeKeys == Resumable \X {"draft", "ready-to-publish", "live"} \X BOOLEAN
Stage == {"approval", "funding"}   \* EscrowTransactionStage

Page == [loaded : BOOLEAN, step : Steps, draft : Draft, dirty : BOOLEAN,
         timer : BOOLEAN,       \* the autosave of this state has not fired yet
         pending : BOOLEAN, error : BOOLEAN,
         state : PaymentStates, \* paymentOverview
         snapshot : BOOLEAN,    \* funding: the answer of a reconciliation
         pipeline : Stage \cup {None},    \* pipelineActionRef
         resumed : SUBSET ResumeKeys]     \* pipelineResumeKeysRef

Kinds == {"load", "autosave", "save", "continue", "preflight", "approve", "fund",
          "pipeline", "reconcile", "recover", "publish", "verify", "balance", "gone"}
Requests == {"get", "save", "overview", "approve", "fund", "reconcile", "recover",
             "publish", "verify", "preflight"}
Flow == [kind : Kinds \cup {None},
         pc : {"idle", "sent", "answered", "asleep"},
         req : Requests \cup {None},
         sent : Form \cup {None},             \* the draft of its closure
         got : Draft \cup {None},             \* the draft it was answered
         state : PaymentStates \cup {None},   \* the overview it was answered
         reply : {None, "id", "already"},
         stage : Stage \cup {None},           \* of the pipeline it runs in
         left : 0..Polls]

Idle == [kind |-> None, pc |-> "idle", req |-> None, sent |-> None, got |-> None,
         state |-> None, reply |-> None, stage |-> None, left |-> 0]

Init ==
  /\ server \in {[draft |-> [text |-> t, pub |-> "draft", event |-> FALSE, stage |-> "none"],
                  verified |-> FALSE, funded |-> None] : t \in Texts}
  /\ past = {}
  /\ page = [loaded |-> FALSE, step |-> "form", draft |-> server.draft, dirty |-> FALSE,
             timer |-> FALSE, pending |-> FALSE, error |-> FALSE,
             state |-> "NOT_STARTED", snapshot |-> FALSE, pipeline |-> None,
             resumed |-> {}]
  /\ window = None
  /\ flows = [f \in Flows |-> Idle]
  /\ overlap = FALSE
  /\ setbacks = 0

Setback == setbacks < MaxSetbacks /\ setbacks' = setbacks + 1
\* A brand that does not wait for the page, which is a setback too.
Quiet == \A f \in Flows : flows[f].kind \in {None, "gone"}
InTime == IF Quiet THEN UNCHANGED setbacks ELSE Setback

-----------------------------------------------------------------------------
\* fundingIsVerified, validateCreateChallengeLaunchReadiness
Verified(d) == d.pub # "draft"
Launchable == {t \in Complete : Deadlines[t] \notin past}
Ready(d) == d.text \in Launchable
\* The challenge id that the page can reconcile.
Known(p) == p.snapshot \/ p.draft.stage \in {"funding", "signed", "mined"}

\* Any change of what the autosave effect depends on starts its timer anew.
Set(p) ==
  page' = [p EXCEPT !.timer = @ \/ <<p.draft, p.dirty, p.pending, p.step>>
                                     # <<page.draft, page.dirty, page.pending, page.step>>]

CarriesDraft(flow) == flow.pc \in {"sent", "answered"} /\ flow.req \in {"get", "save"}

\* A flow starts, goes on to its next request, or ends.
Become(f, flow) ==
  /\ flows' = [flows EXCEPT ![f] = flow]
  /\ overlap' = (overlap \/ /\ CarriesDraft(flow)
                            /\ \/ flow.req = "save" /\ flow.sent.text # page.draft.text
                               \/ \E g \in Flows \ {f} : CarriesDraft(flows[g]))
Fields(d) == [text |-> d.text, pub |-> d.pub, event |-> d.event]
Asks(flow, req) == [flow EXCEPT !.pc = "sent", !.req = req, !.got = None, !.reply = None]
New(kind, req) == [Asks(Idle, req) EXCEPT !.kind = kind, !.sent = Fields(page.draft)]
Free(f) == flows[f].pc = "idle"

\* A bug: an error leaves the handler without its finally.
StillPending(p) == [p EXCEPT !.error = TRUE, !.pipeline = None]
\* setPending(true), setError(null); showError and the finally
Busy(p) == [p EXCEPT !.pending = TRUE, !.error = FALSE]
Done(p) == [p EXCEPT !.pending = FALSE]
Shown(p) == [p EXCEPT !.error = TRUE, !.pipeline = None, !.pending = FALSE]

\* A flow that runs in the pipeline releases its ref when it ends.
Released(p, flow) == IF p.pipeline = flow.stage THEN [p EXCEPT !.pipeline = None] ELSE p

\* applyPaymentOverview.  A balance that could not be read is hidden behind one
\* that is recent, as if the approval could be asked for.
Applied(p, state) == [p EXCEPT !.state = state, !.error = FALSE]
Unread == {"RECOVERABLE_ERROR", "READY_FOR_APPROVAL"}

\* A step of the form to complete it, which fixLaunchReadiness leads to.
ToForm(p) == [p EXCEPT !.step = "form", !.dirty = TRUE]

-----------------------------------------------------------------------------
\* The effect that resumes the launch, once per key.
ResumeKey == <<page.state, page.draft.pub, Known(page)>>
ResumeDue ==
  /\ page.loaded /\ page.step = "funding" /\ ~page.pending /\ ~page.error
  /\ ResumeKey \in ResumeKeys \ page.resumed
  /\ \/ page.state = "APPROVED"
     \/ page.state = "FUNDING_PENDING" /\ Known(page)
     \/ page.state = "FUNDED_VERIFIED" /\ page.draft.pub # "live"

\* Effects run before the page handles anything else.
Handles == page.loaded /\ (ResumeDue => \A f \in Flows : ~Free(f))
\* The window covers the buttons; while a handler is pending they are disabled.
Clickable == Handles /\ ~page.pending /\ window = None

\* requireLaunchReadinessBeforePin: it looks at the draft of the closure.
Pinned(p, d, flow) == IF Ready(d) THEN Busy(p)
                      ELSE Released(ToForm([p EXCEPT !.error = TRUE, !.pending = FALSE]), flow)
AskFund(flow) == IF Ready(flow.sent) THEN Asks(flow, "fund") ELSE Idle

\* continueFastPublishPipeline: a pipeline that runs is not started again.
Pipeline(stage, d) == [New("pipeline", "reconcile") EXCEPT !.stage = stage, !.sent = d,
                                                          !.left = Polls]
EnterPipeline(f, p, stage, d) ==
  IF p.pipeline = stage THEN Set(p) /\ UNCHANGED <<flows, overlap>>
  ELSE Set(Busy([p EXCEPT !.pipeline = stage])) /\ Become(f, Pipeline(stage, d))

\* Funded and verified: publish, or show what the challenge still needs.
NeedsAttention(p) == [p EXCEPT !.step = "publish", !.error = TRUE, !.pending = FALSE]

Resume(f) ==
  LET p == [page EXCEPT !.resumed = @ \cup {ResumeKey}]
      fund == New("fund", "fund")
  IN /\ ResumeDue /\ Free(f)
     /\ CASE page.state = "APPROVED" ->
               Set(Pinned(p, p.draft, fund)) /\ Become(f, AskFund(fund))
          [] page.state = "FUNDING_PENDING" -> EnterPipeline(f, p, "funding", Fields(p.draft))
          [] page.state = "FUNDED_VERIFIED" ->
               IF Ready(p.draft) THEN Set(Busy(p)) /\ Become(f, New("publish", "publish"))
               ELSE Set(NeedsAttention(p)) /\ UNCHANGED <<flows, overlap>>
     /\ UNCHANGED <<window, server, setbacks>>

-----------------------------------------------------------------------------
\* Loading, reloading and leaving the page.  Requests that were sent are still
\* served; the flows end.
Load(f) ==
  /\ ~page.loaded /\ Free(f) /\ \A g \in Flows : flows[g].kind # "load"
  /\ Become(f, New("load", "get"))
  /\ UNCHANGED <<page, window, server, setbacks>>

Loaded(d, step) ==
  [page EXCEPT !.loaded = TRUE, !.draft = d,
               !.step = IF step = "publish" /\ ~Verified(d) THEN "funding" ELSE step]

\* The funding step shows an error, or offers no button.
ReloadDue ==
  /\ Clickable /\ Quiet /\ page.step = "funding"
  /\ \/ page.error
     \/ page.state = "FUNDING_PENDING" /\ ~Known(page)

Reload ==
  /\ page.loaded
  /\ \/ Setback
     \/ ReloadDue /\ UNCHANGED setbacks
  /\ page' = [page EXCEPT !.loaded = FALSE, !.dirty = FALSE, !.timer = FALSE,
                !.pending = FALSE, !.error = FALSE, !.state = "NOT_STARTED",
                !.snapshot = FALSE,
                !.pipeline = None, !.resumed = {}]
  /\ window' = None
  /\ flows' = [f \in Flows |-> IF flows[f].pc = "sent"
                               THEN [flows[f] EXCEPT !.kind = "gone", !.stage = None]
                               ELSE Idle]
  /\ UNCHANGED <<server, overlap>>

-----------------------------------------------------------------------------
\* What the brand does to the form, and the requests that carry it.  To type on
\* is not a setback, and neither is to complete the form.
Edit(t) ==
  /\ Handles /\ window = None /\ page.step = "form" /\ t # page.draft.text
  /\ \/ Setback
     \/ /\ page.dirty \/ (~Ready(page.draft) /\ t \in Launchable)
        /\ Quiet /\ UNCHANGED setbacks
  /\ Set([page EXCEPT !.draft.text = t, !.dirty = TRUE])
  /\ UNCHANGED <<window, flows, server, overlap>>

\* navigateToStep
Navigate(step) ==
  /\ Handles /\ window = None /\ page.step # step /\ Setback
  /\ Set(IF step = "publish" /\ ~Verified(page.draft) THEN [page EXCEPT !.step = "funding"]
         ELSE [page EXCEPT !.step = step, !.dirty = TRUE])
  /\ UNCHANGED <<window, flows, server, overlap>>

Autosave(f) ==
  /\ Handles /\ Free(f)
  /\ page.dirty /\ ~page.pending /\ page.step = "form" /\ page.timer
  /\ page' = [page EXCEPT !.timer = FALSE]
  /\ Become(f, New("autosave", "save"))
  /\ UNCHANGED <<window, server, setbacks>>

\* A bug: the answer of any autosave counts.
AnyForm(d) == page.step = "form"
\* draftFormSignature: the fields and the step.
SameForm(d) == page.draft.text = d.text /\ page.step = "form"

\* The buttons Save Draft and Continue.
Save(f, kind) ==
  /\ Clickable /\ Free(f) /\ page.step # "publish"
  /\ \/ /\ kind = "continue" /\ page.step = "form"
        /\ IF Ready(page.draft) THEN InTime ELSE Setback
     \/ /\ kind = "save" /\ ~Verified(page.draft) /\ Setback
        /\ page.draft.stage \notin {"approving", "funding", "signed"}
  /\ Set(Busy(page))
  /\ Become(f, New(kind, "save"))
  /\ UNCHANGED <<window, server>>

\* saveDraft: the form as it was sent, the rest as the server answered.
Preserved(d, sent) == [d EXCEPT !.text = sent.text]
SavedPage(flow) == [Done(page) EXCEPT !.draft = Preserved(flow.got, flow.sent), !.dirty = FALSE]

-----------------------------------------------------------------------------
\* The buttons of the funding step.
AtFunding(f) == Clickable /\ Free(f) /\ page.step = "funding"
Click(f, kind, req) ==
  /\ AtFunding(f)
  /\ Set(Busy(page))
  /\ Become(f, New(kind, req))
  /\ InTime /\ UNCHANGED <<window, server>>

Preflight(f) ==
  /\ page.state \in {"NOT_STARTED", "RECOVERABLE_ERROR"}
  /\ Click(f, "preflight", "save")

\* approve reads the balance first unless the last one is recent; without
\* launch readiness the button leads to the form instead.
Approve(f) ==
  /\ page.state = "READY_FOR_APPROVAL"
  /\ IF Ready(page.draft) THEN \E req \in {"approve", "overview"} : Click(f, "approve", req)
     ELSE /\ AtFunding(f)
          /\ Set(ToForm(page))
          /\ InTime /\ UNCHANGED <<window, flows, server, overlap>>

Fund(f) ==
  /\ page.state = "APPROVED" /\ AtFunding(f)
  /\ Set(Pinned(page, page.draft, Idle)) /\ Become(f, AskFund(New("fund", "fund")))
  /\ InTime /\ UNCHANGED <<window, server>>

RecoverApproval(f) == page.state = "APPROVAL_PENDING" /\ Click(f, "recover", "recover")
Reconcile(f) == /\ page.state = "FUNDING_PENDING" /\ Known(page)
                /\ Click(f, "reconcile", "reconcile")
ContinueToPublish(f) == page.state = "FUNDED_VERIFIED" /\ Click(f, "verify", "verify")

\* loadPaymentAccount, when the step is entered and when the brand asks.  It
\* aborts an earlier one, after which approve may go on or stop.
Refused(flow) == [flow EXCEPT !.pc = "answered", !.reply = None, !.got = None]
Superseded(flow) ==
  CASE flow.req = "overview" /\ flow.kind = "balance" -> Idle
    [] flow.req = "overview" /\ flow.kind = "approve" -> Refused(flow)
    [] OTHER -> flow
Balance(f) ==
  /\ Handles /\ Free(f) /\ page.step \in {"form", "funding"}
  /\ \/ Setback
     \/ /\ page.step = "funding" /\ page.state = "NOT_STARTED" /\ UNCHANGED setbacks
        /\ \A g \in Flows : flows[g].kind # "balance"
  /\ flows' = [g \in Flows |-> IF g = f THEN New("balance", "overview") ELSE Superseded(flows[g])]
  /\ UNCHANGED <<page, window, server, overlap>>

\* The publish step: publish, go back, or complete the form.
PublishClick(f) ==
  /\ Clickable /\ Free(f) /\ page.step = "publish" /\ page.draft.pub # "live"
  /\ IF Verified(page.draft) /\ Ready(page.draft)
     THEN Set(Busy(page)) /\ Become(f, New("publish", "publish"))
     ELSE /\ Set(IF Ready(page.draft) THEN page ELSE ToForm(page))
          /\ UNCHANGED <<flows, overlap>>
  /\ InTime /\ UNCHANGED <<window, server>>
\* Nothing to complete, and the publication was refused or is not offered.
BackDue == Ready(page.draft) /\ (page.error \/ ~Verified(page.draft))
Back ==
  /\ Handles /\ window = None /\ page.step = "publish" /\ page.draft.pub # "live"
  /\ Set([page EXCEPT !.step = "funding"])
  /\ IF BackDue THEN InTime ELSE Setback
  /\ UNCHANGED <<window, flows, server, overlap>>

-----------------------------------------------------------------------------
\* The server serves a request.  Its answer carries what it found.
Paid == {"funding", "signed", "mined"}

\* stateFromDraftAndAccount
Overview(s) ==
  CASE s.draft.pub = "live" -> "PUBLISHED"
    [] s.draft.pub # "live" /\ (s.verified \/ s.draft.event) -> "FUNDED_VERIFIED"
    [] OTHER -> CASE s.draft.stage \in Paid -> "FUNDING_PENDING"
                  [] s.draft.stage = "approved" -> "APPROVED"
                  [] s.draft.stage = "approving" -> "APPROVAL_PENDING"
                  [] s.draft.stage = "none" -> "READY_FOR_APPROVAL"

\* buildCanonicalFundingVerification: the contract holds what the draft says.
SamePrizes(s) == s.draft.stage = "mined" /\ Prizes[s.funded] = Prizes[s.draft.text]
Matches(s) == SamePrizes(s) /\ Deadlines[s.funded] = Deadlines[s.draft.text]

Secured(s, pub) == [s EXCEPT !.verified = TRUE, !.draft.pub = pub, !.draft.event = TRUE]

\* An overview may find that a funding it knows is mined.  It compares the
\* prizes and not the deadlines.
Promoted(s) ==
  {s} \cup IF SamePrizes(s) /\ ~s.verified /\ ~s.draft.event
           THEN {Secured(s, "ready-to-publish")} ELSE {}

\* restoreFundingStateFromChain: without a status that speaks of a transaction
\* the draft forgets it; what is left of the allowance decides that.
Restored(s) ==
  {[s EXCEPT !.draft.pub = "draft", !.draft.event = e] :
     e \in {FALSE, s.draft.stage = "mined"}}

\* verifyFundedChallenge, which a reconciliation completes.
VerifiedBy(s) ==
  IF Matches(s) THEN {Secured(s, "ready-to-publish")}
  ELSE {[s EXCEPT !.draft.event = e] : e \in {s.draft.event, s.draft.stage = "mined"}}
Reconciled(s) ==
  IF Matches(s) THEN {Secured(s, "ready-to-publish")}
  ELSE UNION {Promoted(t) : t \in Restored(s)}

\* What each route makes of the stored draft; none if it answers an error.
\* Publication trusts a draft that is verified and has its record.
Outcomes(s, flow) ==
  CASE flow.req = "get" -> {s}
    [] flow.req = "save" ->
         {[s EXCEPT !.draft.text = flow.sent.text, !.draft.pub = flow.sent.pub,
                    !.draft.event = flow.sent.event]}
    [] flow.req \in {"overview", "preflight", "recover"} -> Promoted(s)
    [] flow.req = "approve" ->
         IF ~Ready(s.draft) THEN {}
         ELSE {IF s.draft.stage = "none" THEN [s EXCEPT !.draft.stage = "approving"] ELSE s}
    [] flow.req = "fund" ->
         IF ~Ready(s.draft) \/ s.draft.stage \in {"none", "approving"} THEN {}
         ELSE Promoted(IF s.draft.stage = "approved"
                       THEN [s EXCEPT !.draft.stage = "funding", !.funded = s.draft.text]
                       ELSE s)
    [] flow.req = "reconcile" -> IF flow.stage = "approval" THEN Promoted(s) ELSE Reconciled(s)
    [] flow.req = "verify" -> VerifiedBy(s)
    [] flow.req = "publish" ->
         IF s.draft.pub = "live" /\ s.verified THEN {s}
         ELSE IF Ready(s.draft) /\ (Matches(s) \/ (Verified(s.draft) /\ s.verified))
         THEN {Secured(s, "live")} ELSE {}

HasOverview == {"overview", "preflight", "recover", "fund", "reconcile"}
Reply(s, flow) ==
  IF flow.req = "approve" /\ s.draft.stage \in {"approved", "funding", "signed"}
  THEN "already" ELSE "id"

\* An answer without a draft, an overview and a reply is an error.
Answered(flow, s, state) ==
  [flow EXCEPT !.pc = "answered", !.reply = Reply(s, flow),
     !.got = IF flow.req \in {"get", "save"} THEN s.draft ELSE None,
     !.state = IF flow.req \in HasOverview THEN state ELSE @]
Answer(f, flow) ==
  /\ flows' = [flows EXCEPT ![f] = IF flow.kind = "gone" THEN Idle ELSE flow]
  /\ UNCHANGED <<page, window, overlap>>

Serve(f) ==
  LET flow == flows[f]
      outcomes == Outcomes(server, flow)
  IN /\ flow.pc = "sent"
     /\ IF outcomes = {} THEN Answer(f, Refused(flow)) /\ UNCHANGED server
        ELSE \E s \in outcomes : server' = s /\ Answer(f, Answered(flow, s, Overview(s)))
     /\ UNCHANGED setbacks

\* The balance cannot be read, or the request fails before or after it took effect.
ServeBadly(f) ==
  LET flow == flows[f]
      blind == /\ flow.req \in HasOverview
               /\ Overview(server) \in {"APPROVED", "APPROVAL_PENDING", "READY_FOR_APPROVAL"}
  IN /\ flow.pc = "sent" /\ Setback
     /\ \/ Answer(f, Refused(flow)) /\ UNCHANGED server
        \/ \E s \in Outcomes(server, flow) : server' = s /\ Answer(f, Refused(flow))
        \/ /\ blind /\ flow.req # "fund" /\ UNCHANGED server
           /\ \E state \in Unread : Answer(f, Answered(flow, server, state))

-----------------------------------------------------------------------------
\* A handler goes on with the answer of its request.
Ends(f, p) == Set(Released(p, flows[f])) /\ Become(f, Idle) /\ UNCHANGED window
GoesOn(f, p, flow) == Set(p) /\ Become(f, flow) /\ UNCHANGED window

\* executeCircleChallenge
Opens(f, p, stage) ==
  /\ Set(Released(Done(p), flows[f]))
  /\ Become(f, Idle)
  /\ window' = [stage |-> stage, sent |-> flows[f].sent]

\* An error: an autosave keeps the changes for later, a failed balance shows
\* nothing new, and runPreflight goes on without its save.
Fails(f) ==
  LET flow == flows[f]
  IN CASE flow.kind = "autosave" -> Ends(f, page)
       [] flow.kind = "load" -> Ends(f, [page EXCEPT !.error = TRUE])
       [] flow.kind = "balance" -> \E p \in {page, [page EXCEPT !.error = FALSE]} : Ends(f, p)
       [] flow.kind = "approve" /\ flow.req = "overview" ->
            GoesOn(f, page, Asks(flow, "approve")) \/ Ends(f, Done(page))
       [] flow.kind = "preflight" /\ flow.req = "save" ->
            GoesOn(f, Shown(page), Asks(flow, "preflight"))
       [] flow.kind = "verify" -> Ends(f, [Shown(page) EXCEPT !.step = "funding"])
       [] OTHER -> Ends(f, Shown(page))

\* The draft, answered to a save or read by itself.
GotSave(f) ==
  LET flow == flows[f]
  IN CASE flow.kind = "autosave" ->
            Ends(f, IF SameForm(flow.sent) THEN [page EXCEPT !.dirty = FALSE] ELSE page)
       [] flow.kind = "save" -> Ends(f, [SavedPage(flow) EXCEPT !.step = "form"])
       [] flow.kind = "continue" ->
            \E step \in {"funding"} \cup IF Ready(flow.sent) THEN {} ELSE {"form"} :
              Ends(f, [SavedPage(flow) EXCEPT !.step = step])
       [] flow.kind = "preflight" ->
            GoesOn(f, [SavedPage(flow) EXCEPT !.step = "funding"], Asks(flow, "preflight"))

MorePolls(flow) == flow.left > 0

\* What the pipeline decides, before the page is rendered again.
Decides(f, p) ==
  LET flow == flows[f]
  IN IF flow.stage = "approval" /\ flow.state = "APPROVED"
     THEN /\ Set(Pinned(p, flow.sent, flow)) /\ Become(f, AskFund([flow EXCEPT !.kind = "fund"]))
          /\ UNCHANGED window
     ELSE IF flow.stage = "funding" /\ Verified(flow.got)
     THEN IF Ready(flow.got)
          THEN GoesOn(f, Busy(p), Asks([flow EXCEPT !.kind = "publish"], "publish"))
          ELSE Ends(f, NeedsAttention(p))
     ELSE IF MorePolls(flow)
     THEN GoesOn(f, Done(p), [flow EXCEPT !.pc = "asleep", !.left = @ - 1,
                                          !.got = None, !.state = None, !.reply = None])
     ELSE Ends(f, Done(p))

GotDraft(f) ==
  LET flow == flows[f]
      p == [page EXCEPT !.draft = flow.got]
  IN CASE flow.kind = "load" ->
            \E step \in Steps : Ends(f, Loaded(flow.got, step))
       [] flow.kind = "pipeline" -> Decides(f, Applied(p, flow.state))
       [] flow.kind \in {"reconcile", "recover"} -> Ends(f, Done(Applied(p, flow.state)))
       [] flow.kind \in {"preflight", "publish"} -> Ends(f, Done(p))
       [] flow.kind = "verify" ->
            Ends(f, [Done(p) EXCEPT !.step = IF Verified(flow.got) THEN "publish" ELSE "funding"])

\* Any other answer.
GotAnswer(f) ==
  LET flow == flows[f]
      kept == Applied(page, flow.state)
  IN CASE flow.req = "overview" /\ flow.kind = "balance" -> Ends(f, kept)
       [] flow.req = "overview" /\ flow.kind = "approve" ->
            \/ flow.state # "RECOVERABLE_ERROR" /\ GoesOn(f, kept, Asks(flow, "approve"))
            \/ flow.state \in Unread /\ Ends(f, Done(kept))
       [] flow.req = "preflight" -> GoesOn(f, kept, Asks(flow, "get"))
       [] flow.req = "approve" ->
            IF flow.reply = "already"
            THEN GoesOn(f, Busy(page), Asks([flow EXCEPT !.kind = "preflight"], "save"))
            ELSE Opens(f, page, "approval")
       [] flow.req = "fund" -> Opens(f, kept, "funding")
       [] flow.req = "reconcile" ->
            GoesOn(f, [page EXCEPT !.snapshot = @ \/ flow.stage # "approval"], Asks(flow, "get"))
       [] flow.req \in {"recover", "publish", "verify"} -> GoesOn(f, page, Asks(flow, "get"))

GoOn(f) ==
  LET flow == flows[f]
  IN /\ flow.pc = "answered" /\ (Handles \/ flow.kind = "load")
     /\ CASE flow.reply = None -> Fails(f)
          [] flow.reply # None /\ flow.req = "save" -> GotSave(f)
          [] flow.reply # None /\ flow.req = "get" -> GotDraft(f)
          [] OTHER -> GotAnswer(f)
     /\ UNCHANGED <<server, setbacks>>

\* PIPELINE_POLL_DELAYS_MS: the next poll of the pipeline.
Wake(f) ==
  /\ flows[f].pc = "asleep" /\ Handles
  /\ GoesOn(f, Busy(page), Asks(flows[f], "reconcile"))
  /\ UNCHANGED <<server, setbacks>>

-----------------------------------------------------------------------------
\* The brand enters the PIN.  Circle refuses what has been signed before.
Confirm(f) ==
  LET next == CASE window.stage = "approval" /\ server.draft.stage = "approving" -> "approved"
                [] window.stage = "funding" /\ server.draft.stage = "funding" -> "signed"
                [] OTHER -> None
  IN /\ window # None /\ Free(f) /\ Handles
     /\ window' = None
     /\ IF next = None
        THEN Set([page EXCEPT !.error = TRUE]) /\ UNCHANGED <<server, flows, overlap>>
        ELSE /\ server' = [server EXCEPT !.draft.stage = next]
             /\ EnterPipeline(f, page, window.stage, window.sent)
     /\ UNCHANGED setbacks

\* The brand closes the window instead.
Close ==
  /\ window # None /\ Handles /\ Setback
  /\ window' = None /\ Set([page EXCEPT !.error = TRUE])
  /\ UNCHANGED <<flows, server, overlap>>

\* The lead that launch readiness asks for has run out.
ComeTooNear ==
  /\ Setback
  /\ \E d \in {Deadlines[t] : t \in Texts} \ past : past' = past \cup {d}
  /\ UNCHANGED <<page, window, flows, server, overlap>>

Mine ==
  /\ server.draft.stage = "signed"
  /\ server' = [server EXCEPT !.draft.stage = "mined"]
  /\ UNCHANGED <<page, window, flows, overlap, setbacks>>

-----------------------------------------------------------------------------
\* The step that the page offers next, which a brand that wants its challenge
\* live takes: it completes the form and continues, takes the action of the
\* funding step, reloads one that shows an error or offers nothing, publishes,
\* and goes back from a publication that is refused.
Continues(f) == Ready(page.draft) /\ Save(f, "continue")
Proceeds(f) ==
  \/ Continues(f)
  \/ ~Ready(page.draft) /\ \E t \in Launchable : Edit(t)
  \/ Preflight(f) \/ Approve(f) \/ Fund(f) \/ RecoverApproval(f) \/ Reconcile(f)
  \/ ContinueToPublish(f)
  \/ ReloadDue /\ Reload
  \/ page.step = "publish" /\ IF BackDue THEN Back ELSE PublishClick(f)

Next ==
  \/ /\ \/ \E f \in Flows :
             \/ Load(f) \/ Resume(f) \/ Autosave(f) \/ Save(f, "save") \/ Save(f, "continue")
             \/ Preflight(f) \/ Approve(f) \/ Fund(f) \/ RecoverApproval(f) \/ Reconcile(f)
             \/ ContinueToPublish(f) \/ Balance(f) \/ PublishClick(f)
             \/ Serve(f) \/ ServeBadly(f) \/ GoOn(f) \/ Wake(f) \/ Confirm(f)
        \/ \E t \in Texts : Edit(t)
        \/ Reload \/ Back \/ Close \/ Mine
        \/ \E step \in Steps : Navigate(step)
     /\ UNCHANGED past
  \/ ComeTooNear

Spec == Init /\ [][Next]_vars

\* Requests are answered, handlers go on, effects run, and a window that is open
\* is dealt with.  The brand does not give up: while the page offers a next step
\* again and again it takes one, it continues from a form that is complete again
\* and again, and it reloads a funding step that keeps showing errors.
Fairness ==
  /\ \A f \in Flows : /\ WF_vars(Serve(f) /\ UNCHANGED past)
                       /\ WF_vars((GoOn(f) \/ Wake(f)) /\ UNCHANGED past)
  /\ WF_vars((\E f \in Flows : Load(f) \/ Resume(f) \/ Confirm(f)) /\ UNCHANGED past)
  /\ SF_vars((\E f \in Flows : Proceeds(f)) /\ UNCHANGED past)
  /\ SF_vars((\E f \in Flows : Continues(f)) /\ UNCHANGED past)
  /\ SF_vars(ReloadDue /\ Reload /\ UNCHANGED past)

FairSpec == Spec /\ Fairness

-----------------------------------------------------------------------------
\* Types: a pipeline never polls more often than it has delays, a flow holds
\* the answers of its own requests, and a page keeps the keys it resumed with.
TypeOK ==
  /\ page \in Page
  /\ window \in [stage : Stage, sent : Form] \cup {None}
  /\ flows \in [Flows -> Flow]
  /\ server \in Server
  /\ past \subseteq {Deadlines[t] : t \in Texts}
  /\ overlap \in BOOLEAN
  /\ setbacks \in 0..MaxSetbacks

\* Unless two requests that carry the draft were under way at once, or one
\* carried the text of an older closure: a page that holds no unsaved changes
\* shows what is stored, whatever was typed while a save, an autosave or a read
\* of the draft was on its way, failed or came too late.
SavedIsStored ==
  page.loaded /\ ~page.dirty /\ ~overlap => page.draft.text = server.draft.text

\* A challenge whose prize pool gets on chain goes live, whatever handlers
\* overlap or fail, whatever is answered late and wherever the page is reloaded,
\* if the brand keeps taking the step that the page offers, and if the stored
\* text is in the end one that can be launched and offers the prizes and sets
\* the deadlines that were funded: after any edits, and whatever was written for
\* a text that did not.  (A save that was delayed can take the publication back,
\* so it need not stay live.)
FundedGoesLive ==
  <>[](Matches(server) /\ Ready(server.draft)) => <>(server.draft.pub = "live")
=============================================================================
