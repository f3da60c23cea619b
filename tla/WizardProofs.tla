---------------------------- MODULE WizardProofs ----------------------------
(***************************************************************************)
(* Theorems about the page that creates, funds and publishes a challenge,  *)
(* for any number of handlers, texts, polls and setbacks.                  *)
(*                                                                         *)
(* What the page calls saved was sent, and answered, some time ago.  While *)
(* one request at a time carries the draft, that request knows more than   *)
(* the page: SavedInv says of it, before and after the server has served   *)
(* it, how its text compares with what is stored and what is shown.        *)
(***************************************************************************)
EXTENDS Wizard, TLAPS

\* The requests that the handlers of each kind make.
Asked == [load |-> {"get"}, autosave |-> {"save"}, save |-> {"save"}, continue |-> {"save"},
          preflight |-> {"save", "preflight", "get"}, approve |-> {"overview", "approve"},
          fund |-> {"fund"}, pipeline |-> {"reconcile", "get"},
          reconcile |-> {"reconcile", "get"}, recover |-> {"recover", "get"},
          publish |-> {"publish", "get"}, verify |-> {"verify", "get"},
          balance |-> {"overview"}, gone |-> Requests]

\* The handlers that read an overview before they read the draft.
Viewing == {"pipeline", "reconcile", "recover"}
Answers(q) == q.pc = "answered" /\ q.reply # None

\* What a handler holds at each of its steps.
Sound(q) ==
  /\ q \in Flow
  /\ q.pc = "idle" => q = Idle
  /\ q.pc # "idle" => q.kind \in Kinds /\ q.req \in Asked[q.kind] /\ q.sent \in Form
  /\ q.kind = "gone" => q.pc = "sent"
  /\ q.pc = "asleep" => q.kind = "pipeline"
  /\ Answers(q) =>
       /\ q.req \in {"get", "save"} => q.got \in Draft
       /\ q.req \in HasOverview => q.state \in PaymentStates
  /\ q.pc \in {"sent", "answered"} /\ q.req = "get" /\ q.kind \in Viewing =>
       q.state \in PaymentStates

\* Of TypeOK all but the deadlines that have come too near.
Typed ==
  /\ page \in Page
  /\ window \in [stage : Stage, sent : Form] \cup {None}
  /\ flows \in [Flows -> Flow]
  /\ server \in Server
  /\ overlap \in BOOLEAN
  /\ setbacks \in 0..MaxSetbacks

Inv == Typed /\ \A f \in Flows : Sound(flows[f])

\* What a request that carries the draft says of the stored draft and the page.
Held(q) ==
  /\ q.pc = "sent" /\ q.req = "save" /\ page.loaded /\ ~page.dirty =>
       q.sent.text = page.draft.text
  /\ Answers(q) /\ q.req \in {"get", "save"} => q.got.text = server.draft.text
  /\ Answers(q) /\ q.req = "save" => q.sent.text = server.draft.text

SavedInv ==
  ~overlap =>
    /\ \A f, g \in Flows : CarriesDraft(flows[f]) /\ CarriesDraft(flows[g]) => f = g
    /\ \A f \in Flows : Held(flows[f])
    /\ page.loaded /\ ~page.dirty => page.draft.text = server.draft.text

-----------------------------------------------------------------------------
\* The page.

\* q is the page p but for what the step shows: it is as loaded, holds the same
\* draft, and no fewer changes.
Like(p, q) ==
  q \in Page /\ q.loaded = p.loaded /\ q.draft = p.draft /\ (p.dirty => q.dirty)

LEMMA LikeLike ==
  ASSUME NEW p, NEW q, NEW r, Like(p, q), Like(q, r)
  PROVE  Like(p, r)
BY DEF Like

LEMMA PageOps ==
  ASSUME NEW p \in Page
  PROVE  /\ Like(p, p) /\ Like(p, Busy(p)) /\ Like(p, Done(p)) /\ Like(p, Shown(p))
         /\ Like(p, ToForm(p)) /\ Like(p, NeedsAttention(p))
         /\ \A s \in PaymentStates : Like(p, Applied(p, s))
         /\ \A q : Like(p, Released(p, q))
         /\ Like(p, [p EXCEPT !.error = TRUE]) /\ Like(p, [p EXCEPT !.error = FALSE])
         /\ \A step \in Steps : Like(p, [p EXCEPT !.step = step])
<1>1. Like(p, p) /\ Like(p, Busy(p)) /\ Like(p, Done(p)) /\ Like(p, Shown(p))
  BY DEF Like, Page, Busy, Done, Shown
<1>2. Like(p, ToForm(p)) /\ Like(p, NeedsAttention(p))
  BY DEF Like, Page, ToForm, NeedsAttention, Steps
<1>3. \A s \in PaymentStates : Like(p, Applied(p, s))
  BY DEF Like, Page, Applied
<1>4. \A q : Like(p, Released(p, q))
  BY DEF Like, Page, Released
<1>5. /\ Like(p, [p EXCEPT !.error = TRUE]) /\ Like(p, [p EXCEPT !.error = FALSE])
      /\ \A step \in Steps : Like(p, [p EXCEPT !.step = step])
  BY DEF Like, Page
<1> QED BY <1>1, <1>2, <1>3, <1>4, <1>5

LEMMA PinnedLike ==
  ASSUME NEW p \in Page, NEW d, NEW q
  PROVE  Like(p, Pinned(p, d, q))
<1>1. PICK r : r = [p EXCEPT !.error = TRUE, !.pending = FALSE]
  OBVIOUS
<1>2. Like(p, r)
  BY <1>1 DEF Like, Page
<1>3. Like(r, ToForm(r))
  BY <1>2, PageOps DEF Like
<1>4. PICK s : s = ToForm(r)
  OBVIOUS
<1>5. Like(s, Released(s, q))
  BY <1>3, <1>4, PageOps DEF Like
<1>6. Like(p, Busy(p))
  BY PageOps
<1>7. Pinned(p, d, q) = IF Ready(d) THEN Busy(p) ELSE Released(s, q)
  BY <1>1, <1>4 DEF Pinned
<1> QED BY <1>2, <1>3, <1>4, <1>5, <1>6, <1>7, LikeLike

LEMMA SetPage ==
  ASSUME NEW p \in Page, Set(p)
  PROVE  /\ page' \in Page /\ page'.loaded = p.loaded /\ page'.draft = p.draft
         /\ page'.dirty = p.dirty /\ Like(p, page')
BY DEF Set, Page, Like

-----------------------------------------------------------------------------
\* The handlers.

LEMMA IdleSound ==
  /\ Sound(Idle) /\ Idle \in Flow /\ Idle.pc = "idle" /\ Idle.kind = None
  /\ ~CarriesDraft(Idle) /\ ~Answers(Idle)
<1>1. Idle \in Flow /\ Idle.pc = "idle" /\ Idle.kind = None
  BY WizardConstants DEF WizardConstants, Idle, Flow
<1> QED BY <1>1, WizardConstants DEF Sound, Answers, CarriesDraft, WizardConstants

\* A handler that sends its next request.
LEMMA AsksSound ==
  ASSUME NEW q \in Flow, NEW kind \in Kinds \ {"gone"}, NEW req \in Requests, NEW stage,
         q.sent \in Form, req \in Asked[kind],
         req = "get" /\ kind \in Viewing => q.state \in PaymentStates,
         NEW r, r = [q EXCEPT !.kind = kind]
  PROVE  /\ Sound(Asks(r, req)) /\ Asks(r, req).pc = "sent" /\ Asks(r, req).req = req
         /\ Asks(r, req).sent = q.sent /\ Asks(r, req).kind = kind
<1>1. r \in Flow /\ r.kind = kind /\ r.sent = q.sent /\ r.state = q.state
  BY DEF Flow
<1>2. PICK s : s = Asks(r, req)
  OBVIOUS
<1>3. /\ s \in Flow /\ s.pc = "sent" /\ s.req = req /\ s.sent = q.sent /\ s.kind = kind
      /\ s.state = q.state
  BY <1>1, <1>2 DEF Asks, Flow
<1> QED BY <1>2, <1>3 DEF Sound, Answers

LEMMA NewSound ==
  ASSUME Inv, NEW kind \in Kinds \ {"gone"}, NEW req \in Requests, req \in Asked[kind],
         req = "get" => kind \notin Viewing
  PROVE  /\ Sound(New(kind, req)) /\ New(kind, req).pc = "sent" /\ New(kind, req).req = req
         /\ New(kind, req).sent = Fields(page.draft) /\ New(kind, req).kind = kind
         /\ Fields(page.draft) \in Form /\ Fields(page.draft).text = page.draft.text
<1>1. PICK a : a = Asks(Idle, req)
  OBVIOUS
<1>2. /\ a \in Flow /\ a.pc = "sent" /\ a.req = req /\ a.reply = None /\ a.got = None
  BY <1>1, IdleSound DEF Asks, Flow
<1>3. Fields(page.draft) \in Form /\ Fields(page.draft).text = page.draft.text
  BY DEF Inv, Typed, Page, Draft, Form, Fields
<1>4. PICK q : q = New(kind, req)
  OBVIOUS
<1>5. q = [a EXCEPT !.kind = kind, !.sent = Fields(page.draft)]
  BY <1>1, <1>4 DEF New
<1>6. /\ q \in Flow /\ q.pc = "sent" /\ q.req = req /\ q.kind = kind
      /\ q.sent = Fields(page.draft)
  BY <1>2, <1>3, <1>5 DEF Flow
<1> QED BY <1>3, <1>4, <1>6 DEF Sound, Answers

-----------------------------------------------------------------------------
\* What a step may do.

LEMMA InitInv == Init => Inv /\ SavedInv
<1> SUFFICES ASSUME Init PROVE Inv /\ SavedInv
  OBVIOUS
<1>1. PICK t \in Texts :
        server = [draft |-> [text |-> t, pub |-> "draft", event |-> FALSE, stage |-> "none"],
                  verified |-> FALSE, funded |-> None]
  BY DEF Init
<1>2. server \in Server /\ server.draft \in Draft
  BY <1>1 DEF Server, Draft, Stages
<1>3. page \in Page /\ ~page.loaded
  BY <1>2 DEF Init, Page, Steps, PaymentStates
<1>4. flows \in [Flows -> Flow] /\ \A f \in Flows : flows[f] = Idle
  BY IdleSound DEF Init
<1>5. Inv
  <2>1. \A f \in Flows : Sound(flows[f])
    BY <1>4, IdleSound
  <2>2. window = None /\ overlap \in BOOLEAN
    BY Zenon DEF Init
  <2>3. setbacks = 0
    BY DEF Init
  <2>4. setbacks \in 0..MaxSetbacks
    BY <2>3, WizardConstants DEF WizardConstants
  <2> QED BY <1>2, <1>3, <1>4, <2>1, <2>2, <2>4 DEF Inv, Typed
<1>6. SavedInv
  BY <1>3, <1>4, IdleSound DEF SavedInv, Held, Answers
<1> QED BY <1>5, <1>6

\* The page changes, and the stored draft keeps its text.
SameStored == server' \in Server /\ server'.draft.text = server.draft.text
Rest == /\ window' \in [stage : Stage, sent : Form] \cup {None}
        /\ setbacks' \in 0..MaxSetbacks

LEMMA Rests ==
  ASSUME Inv, UNCHANGED window, UNCHANGED setbacks \/ Setback
  PROVE  Rest
BY WizardConstants DEF Inv, Typed, Rest, Setback, WizardConstants

LEMMA PageStep ==
  ASSUME Inv, SavedInv, Like(page, page'), SameStored, Rest, UNCHANGED <<flows, overlap>>
  PROVE  Inv' /\ SavedInv'
<1>1. Inv'
  BY DEF Inv, Typed, Like, SameStored, Rest, Sound, Answers
<1>2. \A f \in Flows : ~overlap => Held(flows[f])'
  BY DEF SavedInv, Held, Like, SameStored, Answers
<1> QED BY <1>1, <1>2 DEF SavedInv, Like, SameStored, CarriesDraft

\* A handler starts, goes on or ends, and the page keeps its draft.
LEMMA FlowStep ==
  ASSUME Inv, SavedInv, NEW f \in Flows, NEW q, Sound(q), q.pc # "answered", Become(f, q),
         Like(page, page'), SameStored, Rest
  PROVE  Inv' /\ SavedInv'
<1>1. /\ flows' = [flows EXCEPT ![f] = q] /\ flows \in [Flows -> Flow] /\ q \in Flow
      /\ overlap \in BOOLEAN
  BY DEF Become, Inv, Typed, Sound
<1>2. flows'[f] = q /\ \A g \in Flows \ {f} : flows'[g] = flows[g]
  BY <1>1
<1>3. overlap' \in BOOLEAN
  BY <1>1 DEF Become
<1>4. \A g \in Flows : Sound(flows'[g])
  BY <1>2 DEF Inv
<1>5. Inv'
  BY <1>1, <1>3, <1>4 DEF Inv, Typed, Like, SameStored, Rest, Sound, Answers
<1>6. ASSUME ~overlap'
      PROVE  /\ ~overlap
             /\ CarriesDraft(q) => \A g \in Flows \ {f} : ~CarriesDraft(flows[g])
             /\ CarriesDraft(q) /\ q.req = "save" => q.sent.text = page.draft.text
  BY <1>6 DEF Become
<1>7. ASSUME ~overlap', NEW g \in Flows PROVE Held(flows[g])'
  <2>1. CASE g = f
    BY <1>2, <1>6, <1>7, <2>1 DEF Held, CarriesDraft, Answers, Like
  <2>2. CASE g # f
    BY <1>2, <1>6, <1>7, <2>2 DEF Held, SavedInv, Like, SameStored, Answers
  <2> QED BY <2>1, <2>2
<1>8. ASSUME ~overlap', NEW g \in Flows, NEW h \in Flows,
             CarriesDraft(flows'[g]), CarriesDraft(flows'[h])
      PROVE  g = h
  BY <1>2, <1>6, <1>8 DEF SavedInv
<1>9. ~overlap' /\ page'.loaded /\ ~page'.dirty => page'.draft.text = server'.draft.text
  BY <1>6 DEF SavedInv, Like, SameStored
<1> QED BY <1>5, <1>7, <1>8, <1>9 DEF SavedInv, CarriesDraft

\* The handler whose request carried the draft applies the answer to the page.
LEMMA GotStep ==
  ASSUME Inv, SavedInv, NEW f \in Flows, NEW q, Sound(q), ~CarriesDraft(q), q.pc # "answered",
         CarriesDraft(flows[f]), Become(f, q), page' \in Page,
         ~overlap => page'.draft.text = server.draft.text,
         UNCHANGED server, Rest
  PROVE  Inv' /\ SavedInv'
<1>1. /\ flows' = [flows EXCEPT ![f] = q] /\ flows \in [Flows -> Flow] /\ q \in Flow
      /\ overlap' \in BOOLEAN /\ (overlap => overlap')
  BY DEF Become, Inv, Typed, Sound
<1>2. flows'[f] = q /\ \A g \in Flows \ {f} : flows'[g] = flows[g]
  BY <1>1
<1>3. \A g \in Flows : Sound(flows'[g])
  BY <1>2 DEF Inv
<1>4. Inv'
  BY <1>1, <1>3 DEF Inv, Typed, Rest, Sound, Answers
<1>5. ASSUME ~overlap', NEW g \in Flows PROVE ~CarriesDraft(flows'[g])
  BY <1>1, <1>2, <1>5 DEF SavedInv
<1>6. ASSUME ~overlap', NEW g \in Flows PROVE Held(flows[g])'
  BY <1>5, <1>6 DEF Held, CarriesDraft, Answers
<1> QED BY <1>1, <1>4, <1>5, <1>6 DEF SavedInv, CarriesDraft

\* Handlers end, are given up or are superseded; those that carry the draft keep it.
LEMMA EndStep ==
  ASSUME Inv, SavedInv, SameStored, Rest, UNCHANGED overlap,
         page' \in Page,
         page'.loaded /\ ~page'.dirty =>
           page.loaded /\ ~page.dirty /\ page'.draft.text = page.draft.text,
         flows' \in [Flows -> Flow], \A f \in Flows : Sound(flows'[f]),
         \A f \in Flows : CarriesDraft(flows'[f]) =>
           /\ CarriesDraft(flows[f]) /\ flows'[f].pc = flows[f].pc
           /\ flows'[f].req = flows[f].req /\ flows'[f].sent = flows[f].sent
           /\ flows'[f].got = flows[f].got /\ flows'[f].reply = flows[f].reply
  PROVE  Inv' /\ SavedInv'
<1>1. Inv'
  BY DEF Inv, Typed, SameStored, Rest, Sound, Answers
<1>2. ASSUME ~overlap, NEW f \in Flows PROVE Held(flows[f])'
  <2>1. Held(flows[f])
    BY <1>2 DEF SavedInv
  <2>2. CASE CarriesDraft(flows'[f])
    BY <2>1, <2>2 DEF Held, CarriesDraft, SameStored, Answers
  <2>3. CASE ~CarriesDraft(flows'[f])
    BY <2>3 DEF Held, CarriesDraft, Answers
  <2> QED BY <2>2, <2>3
<1>3. \A f \in Flows : CarriesDraft(flows[f])' <=> CarriesDraft(flows'[f])
  BY DEF CarriesDraft
<1> QED BY <1>1, <1>2, <1>3 DEF SavedInv, SameStored

\* The server answers a request, which a page that was left does not hear.
LEMMA AnswerStep ==
  ASSUME Inv, SavedInv, server' \in Server, Rest, UNCHANGED <<page, overlap>>,
         NEW f \in Flows, NEW q, Sound(q), flows' = [flows EXCEPT ![f] = q],
         flows[f].pc = "sent", q.pc \in {"idle", "answered"},
         q.pc = "answered" => q.req = flows[f].req /\ q.sent = flows[f].sent,
         Answers(q) /\ q.req \in {"get", "save"} => q.got = server'.draft,
         Answers(q) /\ q.req = "save" => server'.draft.text = flows[f].sent.text,
         \/ server'.draft.text = server.draft.text
         \/ flows[f].req = "save" /\ server'.draft.text = flows[f].sent.text
  PROVE  Inv' /\ SavedInv'
<1>1. flows \in [Flows -> Flow] /\ q \in Flow
  BY DEF Inv, Typed, Sound
<1>2. flows'[f] = q /\ \A g \in Flows \ {f} : flows'[g] = flows[g]
  BY <1>1
<1>3. \A g \in Flows : Sound(flows'[g])
  BY <1>2 DEF Inv
<1>4. Inv'
  BY <1>1, <1>3 DEF Inv, Typed, Rest, Sound, Answers
<1>5. \A g \in Flows : CarriesDraft(flows'[g]) => CarriesDraft(flows[g])
  BY <1>2 DEF CarriesDraft
<1>6. ASSUME ~overlap, NEW g \in Flows PROVE Held(flows[g])'
  <2>1. CASE g = f
    BY <1>2, <2>1 DEF Held, Answers
  <2>2. CASE g # f
    <3>1. Held(flows[g]) /\ ~(CarriesDraft(flows[f]) /\ CarriesDraft(flows[g]))
      BY <1>6, <2>2 DEF SavedInv
    <3> QED BY <1>2, <2>2, <3>1 DEF Held, Answers, CarriesDraft
  <2> QED BY <2>1, <2>2
<1>7. ~overlap /\ page.loaded /\ ~page.dirty => page.draft.text = server'.draft.text
  BY DEF SavedInv, Held
<1>8. \A g \in Flows : CarriesDraft(flows[g])' <=> CarriesDraft(flows'[g])
  BY DEF CarriesDraft
<1> QED BY <1>4, <1>5, <1>6, <1>7, <1>8 DEF SavedInv

LEMMA OverviewType ==
  ASSUME NEW s \in Server
  PROVE  Overview(s) \in PaymentStates
<1>1. s.draft.stage \in Stages
  BY DEF Server, Draft
<1> DEFINE O == CASE s.draft.stage \in Paid -> "FUNDING_PENDING"
                  [] s.draft.stage = "approved" -> "APPROVED"
                  [] s.draft.stage = "approving" -> "APPROVAL_PENDING"
                  [] s.draft.stage = "none" -> "READY_FOR_APPROVAL"
<1>2. O \in PaymentStates
  BY <1>1, Zenon DEF Stages, Paid, PaymentStates
<1> QED BY <1>2, Zenon DEF Overview, PaymentStates

LEMMA SecuredType ==
  ASSUME NEW s \in Server, NEW pub \in {"draft", "ready-to-publish", "live"}
  PROVE  Secured(s, pub) \in Server /\ Secured(s, pub).draft.text = s.draft.text
BY DEF Server, Draft, Secured

LEMMA PromotedType ==
  ASSUME NEW s \in Server
  PROVE  \A r \in Promoted(s) : r \in Server /\ r.draft.text = s.draft.text
BY SecuredType DEF Promoted

LEMMA VerifiedType ==
  ASSUME NEW s \in Server
  PROVE  \A r \in VerifiedBy(s) : r \in Server /\ r.draft.text = s.draft.text
<1>1. \A e \in BOOLEAN : /\ [s EXCEPT !.draft.event = e] \in Server
                         /\ [s EXCEPT !.draft.event = e].draft.text = s.draft.text
  BY DEF Server, Draft
<1>2. s.draft.event \in BOOLEAN
  BY DEF Server, Draft
<1>3. ASSUME NEW r \in VerifiedBy(s), ~Matches(s)
      PROVE  \E e \in BOOLEAN : r = [s EXCEPT !.draft.event = e]
  <2>1. PICK e \in {s.draft.event, s.draft.stage = "mined"} : r = [s EXCEPT !.draft.event = e]
    BY <1>3, Zenon DEF VerifiedBy
  <2>2. e \in BOOLEAN
    BY <1>2, <2>1, Zenon
  <2> QED BY <2>1, <2>2
<1>4. ASSUME NEW r \in VerifiedBy(s), Matches(s) PROVE r = Secured(s, "ready-to-publish")
  BY <1>4 DEF VerifiedBy
<1> QED BY <1>1, <1>3, <1>4, SecuredType

LEMMA ReconciledType ==
  ASSUME NEW s \in Server
  PROVE  \A r \in Reconciled(s) : r \in Server /\ r.draft.text = s.draft.text
<1>1. ASSUME NEW t \in Restored(s) PROVE t \in Server /\ t.draft.text = s.draft.text
  <2>1. PICK e \in BOOLEAN : t = [s EXCEPT !.draft.pub = "draft", !.draft.event = e]
    BY DEF Restored
  <2> QED BY <2>1 DEF Server, Draft
<1>2. ASSUME NEW t \in Restored(s), NEW r \in Promoted(t)
      PROVE  r \in Server /\ r.draft.text = s.draft.text
  BY <1>1, <1>2, PromotedType
<1> QED BY <1>2, SecuredType DEF Reconciled

LEMMA StageType ==
  ASSUME NEW s \in Server, NEW stage \in Stages
  PROVE  /\ [s EXCEPT !.draft.stage = stage] \in Server
         /\ [s EXCEPT !.draft.stage = stage].draft.text = s.draft.text
BY DEF Server, Draft

\* A route changes the text of the stored draft only if it saves one.
LEMMA OutcomesType ==
  ASSUME NEW s \in Server, NEW q, q.req \in Requests, q.sent \in Form, NEW r \in Outcomes(s, q)
  PROVE  /\ r \in Server
         /\ r.draft.text = IF q.req = "save" THEN q.sent.text ELSE s.draft.text
<1>1. CASE q.req = "get"
  <2>1. r = s
    BY <1>1, Zenon DEF Outcomes
  <2> QED BY <1>1, <2>1
<1>2. CASE q.req = "save"
  <2>1. r = [s EXCEPT !.draft.text = q.sent.text, !.draft.pub = q.sent.pub,
                      !.draft.event = q.sent.event]
    BY <1>2, Zenon DEF Outcomes
  <2> QED BY <1>2, <2>1 DEF Server, Draft, Form
<1>3. CASE q.req \in {"overview", "preflight", "recover"}
  <2>1. r \in Promoted(s)
    BY <1>3, Zenon DEF Outcomes
  <2> QED BY <1>3, <2>1, PromotedType
<1>4. CASE q.req = "approve"
  <2>1. r = IF s.draft.stage = "none" THEN [s EXCEPT !.draft.stage = "approving"] ELSE s
    BY <1>4, Zenon DEF Outcomes
  <2> QED BY <1>4, <2>1, StageType DEF Stages
<1>5. CASE q.req = "fund"
  <2>1. PICK u : u = IF s.draft.stage = "approved"
                     THEN [s EXCEPT !.draft.stage = "funding", !.funded = s.draft.text]
                     ELSE s
    OBVIOUS
  <2>2. r \in Promoted(u)
    BY <1>5, <2>1, Zenon DEF Outcomes
  <2>3. u \in Server /\ u.draft.text = s.draft.text
    BY <2>1 DEF Server, Draft, Stages
  <2> QED BY <1>5, <2>2, <2>3, PromotedType
<1>6. CASE q.req = "reconcile"
  <2>1. r \in Promoted(s) \/ r \in Reconciled(s)
    BY <1>6, Zenon DEF Outcomes
  <2> QED BY <1>6, <2>1, PromotedType, ReconciledType
<1>7. CASE q.req = "verify"
  <2>1. r \in VerifiedBy(s)
    BY <1>7, Zenon DEF Outcomes
  <2> QED BY <1>7, <2>1, VerifiedType
<1>8. CASE q.req = "publish"
  <2>1. r = s \/ r = Secured(s, "live")
    BY <1>8, Zenon DEF Outcomes
  <2> QED BY <1>8, <2>1, SecuredType
<1> QED BY <1>1, <1>2, <1>3, <1>4, <1>5, <1>6, <1>7, <1>8 DEF Requests

LEMMA RefusedSound ==
  ASSUME NEW q, Sound(q), q.pc = "sent", q.kind # "gone"
  PROVE  /\ Sound(Refused(q)) /\ Refused(q).pc = "answered" /\ ~Answers(Refused(q))
         /\ Refused(q).req = q.req /\ Refused(q).sent = q.sent
<1>1. PICK r : r = Refused(q)
  OBVIOUS
<1>2. /\ r \in Flow /\ r.pc = "answered" /\ r.reply = None /\ r.got = None /\ r.req = q.req
      /\ r.sent = q.sent /\ r.kind = q.kind /\ r.state = q.state
  BY <1>1 DEF Sound, Refused, Flow
<1> QED BY <1>1, <1>2 DEF Sound, Answers

LEMMA AnsweredSound ==
  ASSUME NEW q, Sound(q), q.pc = "sent", q.kind # "gone", NEW s \in Server,
         NEW state \in PaymentStates
  PROVE  /\ Sound(Answered(q, s, state)) /\ Answered(q, s, state).pc = "answered"
         /\ Answered(q, s, state).req = q.req /\ Answered(q, s, state).sent = q.sent
         /\ q.req \in {"get", "save"} => Answered(q, s, state).got = s.draft
<1>1. PICK r : r = Answered(q, s, state)
  OBVIOUS
<1>2. Reply(s, q) \in {"id", "already"} /\ s.draft \in Draft
  BY DEF Reply, Server
<1>3. /\ r \in Flow /\ r.pc = "answered" /\ r.req = q.req /\ r.sent = q.sent
      /\ r.kind = q.kind
      /\ r.got = IF q.req \in {"get", "save"} THEN s.draft ELSE None
      /\ r.state = IF q.req \in HasOverview THEN state ELSE q.state
  <2>1. PICK reply \in {"id", "already"} : reply = Reply(s, q)
    BY <1>2
  <2>2. PICK got \in Draft \cup {None} : got = IF q.req \in {"get", "save"} THEN s.draft ELSE None
    BY <1>2
  <2>3. q \in Flow
    BY DEF Sound
  <2>4. CASE q.req \in HasOverview
    <3>1. r = [q EXCEPT !.pc = "answered", !.reply = reply, !.got = got, !.state = state]
      BY <1>1, <2>1, <2>2, <2>4 DEF Answered
    <3>2. /\ r \in Flow /\ r.pc = "answered" /\ r.req = q.req /\ r.sent = q.sent
          /\ r.kind = q.kind /\ r.got = got /\ r.state = state
      BY <2>3, <3>1 DEF Flow
    <3> QED BY <2>2, <2>4, <3>2
  <2>5. CASE q.req \notin HasOverview
    <3>1. r = [q EXCEPT !.pc = "answered", !.reply = reply, !.got = got, !.state = @]
      BY <1>1, <2>1, <2>2, <2>5 DEF Answered
    <3>2. /\ r \in Flow /\ r.pc = "answered" /\ r.req = q.req /\ r.sent = q.sent
          /\ r.kind = q.kind /\ r.got = got /\ r.state = q.state
      BY <2>3, <3>1 DEF Flow
    <3> QED BY <2>2, <2>5, <3>2
  <2> QED BY <2>4, <2>5
<1> QED BY <1>1, <1>2, <1>3 DEF Sound, Answers, HasOverview

LEMMA RefusedInv ==
  ASSUME Inv, SavedInv, NEW f \in Flows, flows[f].pc = "sent", Rest,
         Answer(f, Refused(flows[f])),
         server' = server \/ server' \in Outcomes(server, flows[f])
  PROVE  Inv' /\ SavedInv'
<1>1. Sound(flows[f]) /\ server \in Server
  BY DEF Inv, Typed
<1>2. flows[f].req \in Requests /\ flows[f].sent \in Form /\ flows[f] \in Flow
  BY <1>1, WizardConstants DEF Sound, Asked, Kinds, Requests
<1>3. /\ server' \in Server
      /\ \/ server'.draft.text = server.draft.text
         \/ flows[f].req = "save" /\ server'.draft.text = flows[f].sent.text
  BY <1>1, <1>2, OutcomesType
<1>4. PICK q : q = IF flows[f].kind = "gone" THEN Idle ELSE Refused(flows[f])
  OBVIOUS
<1>5. Refused(flows[f]).kind = flows[f].kind
  BY <1>2 DEF Refused, Flow
<1>6. flows' = [flows EXCEPT ![f] = q] /\ UNCHANGED <<page, window, overlap>>
  BY <1>4, <1>5 DEF Answer
<1>7. CASE flows[f].kind = "gone"
  BY <1>1, <1>3, <1>4, <1>6, <1>7, IdleSound, AnswerStep
<1>8. CASE flows[f].kind # "gone"
  <2>1. /\ Sound(q) /\ q.pc = "answered" /\ ~Answers(q) /\ q.req = flows[f].req
        /\ q.sent = flows[f].sent
    BY <1>1, <1>4, <1>8, RefusedSound
  <2> QED BY <1>3, <1>6, <2>1, AnswerStep
<1> QED BY <1>7, <1>8

LEMMA AnsweredInv ==
  ASSUME Inv, SavedInv, NEW f \in Flows, flows[f].pc = "sent", Rest,
         NEW s, NEW state \in PaymentStates, Answer(f, Answered(flows[f], s, state)),
         server' = s,
         s \in Outcomes(server, flows[f]) \/ (s = server /\ flows[f].req # "save")
  PROVE  Inv' /\ SavedInv'
<1>1. Sound(flows[f]) /\ server \in Server
  BY DEF Inv, Typed
<1>2. flows[f].req \in Requests /\ flows[f].sent \in Form /\ flows[f] \in Flow
  BY <1>1, WizardConstants DEF Sound, Asked, Kinds, Requests
<1>3. /\ server' \in Server
      /\ \/ server'.draft.text = server.draft.text
         \/ flows[f].req = "save" /\ server'.draft.text = flows[f].sent.text
      /\ flows[f].req = "save" => server'.draft.text = flows[f].sent.text
  BY <1>1, <1>2, OutcomesType
<1>4. PICK q : q = IF flows[f].kind = "gone" THEN Idle ELSE Answered(flows[f], s, state)
  OBVIOUS
<1>5. Answered(flows[f], s, state).kind = flows[f].kind
  BY <1>2 DEF Answered, Flow
<1>6. flows' = [flows EXCEPT ![f] = q] /\ UNCHANGED <<page, window, overlap>>
  BY <1>4, <1>5 DEF Answer
<1>7. CASE flows[f].kind = "gone"
  BY <1>1, <1>3, <1>4, <1>6, <1>7, IdleSound, AnswerStep
<1>8. CASE flows[f].kind # "gone"
  <2>1. /\ Sound(q) /\ q.pc = "answered" /\ q.req = flows[f].req /\ q.sent = flows[f].sent
        /\ q.req \in {"get", "save"} => q.got = server'.draft
    BY <1>1, <1>3, <1>4, <1>8, AnsweredSound
  <2> QED BY <1>3, <1>6, <2>1, AnswerStep
<1> QED BY <1>7, <1>8

LEMMA ServeInv ==
  ASSUME Inv, SavedInv, NEW f \in Flows, Serve(f)
  PROVE  Inv' /\ SavedInv'
<1>1. Sound(flows[f]) /\ server \in Server /\ flows[f].pc = "sent"
  BY DEF Inv, Typed, Serve
<1>2. Rest
  BY Rests DEF Serve, Answer
<1>3. flows[f].req \in Requests /\ flows[f].sent \in Form /\ flows[f] \in Flow
  BY <1>1, WizardConstants DEF Sound, Asked, Kinds, Requests
<1>4. CASE Answer(f, Refused(flows[f])) /\ UNCHANGED server
  BY <1>1, <1>2, <1>4, RefusedInv
<1>5. CASE \E s \in Outcomes(server, flows[f]) :
             server' = s /\ Answer(f, Answered(flows[f], s, Overview(s)))
  <2>1. PICK s \in Outcomes(server, flows[f]) :
          server' = s /\ Answer(f, Answered(flows[f], s, Overview(s)))
    BY <1>5
  <2>2. s \in Server
    BY <1>1, <1>3, <2>1, OutcomesType
  <2>3. PICK state \in PaymentStates : state = Overview(s)
    BY <2>2, OverviewType
  <2>4. server' = s /\ Answer(f, Answered(flows[f], s, state))
    BY <2>1, <2>3
  <2> QED BY <1>1, <1>2, <2>1, <2>4, AnsweredInv
<1> QED BY <1>4, <1>5 DEF Serve

LEMMA ServeBadlyInv ==
  ASSUME Inv, SavedInv, NEW f \in Flows, ServeBadly(f)
  PROVE  Inv' /\ SavedInv'
<1>1. flows[f].pc = "sent"
  BY DEF ServeBadly
<1>2. Rest
  BY Rests DEF ServeBadly, Answer
<1>3. CASE Answer(f, Refused(flows[f])) /\ UNCHANGED server
  BY <1>1, <1>2, <1>3, RefusedInv
<1>4. CASE \E s \in Outcomes(server, flows[f]) : server' = s /\ Answer(f, Refused(flows[f]))
  BY <1>1, <1>2, <1>4, RefusedInv
<1>5. CASE /\ flows[f].req \in HasOverview /\ UNCHANGED server
           /\ \E state \in Unread : Answer(f, Answered(flows[f], server, state))
  <2>1. PICK state \in Unread : Answer(f, Answered(flows[f], server, state))
    BY <1>5
  <2>2. state \in PaymentStates /\ server' = server /\ flows[f].req # "save"
    BY <1>5, <2>1 DEF Unread, PaymentStates, HasOverview
  <2> QED BY <1>1, <1>2, <2>1, <2>2, AnsweredInv
<1> QED BY <1>3, <1>4, <1>5 DEF ServeBadly

-----------------------------------------------------------------------------
\* The actions that no request carries.

LEMMA ReloadInv == ASSUME Inv, SavedInv, Reload PROVE Inv' /\ SavedInv'
<1>1. page' \in Page /\ ~page'.loaded
  BY WizardConstants DEF Reload, Inv, Typed, Page, PaymentStates
<1>2. SameStored /\ UNCHANGED overlap /\ window' = None
  BY DEF Reload, SameStored, Inv, Typed
<1>3a. Setback \/ UNCHANGED setbacks
  BY DEF Reload
<1>3b. Rest
  BY <1>2, <1>3a, WizardConstants DEF Rest, Inv, Typed, Setback, WizardConstants
<1>3. ASSUME NEW f \in Flows
      PROVE  /\ Sound(flows'[f]) /\ flows'[f] \in Flow
             /\ CarriesDraft(flows'[f]) =>
                  /\ CarriesDraft(flows[f]) /\ flows'[f].pc = flows[f].pc
                  /\ flows'[f].req = flows[f].req /\ flows'[f].sent = flows[f].sent
                  /\ flows'[f].got = flows[f].got /\ flows'[f].reply = flows[f].reply
  <2>1. flows'[f] = IF flows[f].pc = "sent"
                    THEN [flows[f] EXCEPT !.kind = "gone", !.stage = None] ELSE Idle
    BY DEF Reload
  <2>2. Sound(flows[f])
    BY DEF Inv
  <2>3. CASE flows[f].pc # "sent"
    BY <2>1, <2>3, IdleSound
  <2>4. CASE flows[f].pc = "sent"
    <3>1. PICK q : q = flows'[f]
      OBVIOUS
    <3>2. /\ q \in Flow /\ q.pc = "sent" /\ q.kind = "gone" /\ q.req = flows[f].req
          /\ q.sent = flows[f].sent /\ q.got = flows[f].got /\ q.reply = flows[f].reply
      BY <2>1, <2>2, <2>4, <3>1 DEF Sound, Flow, Kinds
    <3>3. q.req \in Requests
      BY <2>2, <2>4, <3>2 DEF Sound, Asked, Kinds, Requests
    <3>4. Sound(q)
      BY <2>2, <2>4, <3>2, <3>3 DEF Sound, Answers, Asked, Kinds, Viewing
    <3> QED BY <2>4, <3>1, <3>2, <3>4 DEF CarriesDraft
  <2> QED BY <2>3, <2>4
<1>4. flows' \in [Flows -> Flow]
  BY <1>3 DEF Reload
<1> QED BY <1>1, <1>2, <1>3, <1>3b, <1>4, EndStep

LEMMA EditInv == ASSUME Inv, SavedInv, NEW t \in Texts, Edit(t) PROVE Inv' /\ SavedInv'
<1>1. Set([page EXCEPT !.draft.text = t, !.dirty = TRUE])
  BY DEF Edit
<1>2. PICK p : p = [page EXCEPT !.draft.text = t, !.dirty = TRUE]
  OBVIOUS
<1>3. p \in Page /\ p.dirty
  BY <1>2 DEF Inv, Typed, Page, Draft
<1>4. page' \in Page /\ page'.dirty
  BY <1>1, <1>2, <1>3, SetPage
<1>5. Rest /\ SameStored /\ UNCHANGED <<flows, overlap>>
  BY WizardConstants DEF Edit, Rest, SameStored, Inv, Typed, Setback, WizardConstants
<1>6. flows' \in [Flows -> Flow] /\ \A f \in Flows : Sound(flows'[f])
  BY <1>5 DEF Inv, Typed
<1> QED BY <1>4, <1>5, <1>6, EndStep

\* A page that sets a state like its own.
LEMMA SetLike ==
  ASSUME Inv, NEW p, Like(page, p), Set(p)
  PROVE  Like(page, page')
BY SetPage, LikeLike DEF Like

LEMMA NavigateInv ==
  ASSUME Inv, SavedInv, NEW step \in Steps, Navigate(step)
  PROVE  Inv' /\ SavedInv'
<1>1. PICK p : p = IF step = "publish" /\ ~Verified(page.draft)
                   THEN [page EXCEPT !.step = "funding"]
                   ELSE [page EXCEPT !.step = step, !.dirty = TRUE]
  OBVIOUS
<1>2. Like(page, p)
  BY <1>1 DEF Inv, Typed, Like, Page, Steps
<1>3. Like(page, page')
  BY <1>1, <1>2, SetLike DEF Navigate
<1>4. Rest /\ SameStored /\ UNCHANGED <<flows, overlap>>
  BY Rests DEF Navigate, SameStored, Inv, Typed
<1> QED BY <1>3, <1>4, PageStep

LEMMA BackInv == ASSUME Inv, SavedInv, Back PROVE Inv' /\ SavedInv'
<1>1. PICK p : p = [page EXCEPT !.step = "funding"]
  OBVIOUS
<1>2. Like(page, p)
  BY <1>1 DEF Inv, Typed, Like, Page, Steps
<1>3. Like(page, page')
  BY <1>1, <1>2, SetLike DEF Back
<1>4. Rest /\ SameStored /\ UNCHANGED <<flows, overlap>>
  BY Rests DEF Back, InTime, SameStored, Inv, Typed
<1> QED BY <1>3, <1>4, PageStep

LEMMA CloseInv == ASSUME Inv, SavedInv, Close PROVE Inv' /\ SavedInv'
<1>1. Like(page, [page EXCEPT !.error = TRUE])
  BY PageOps DEF Inv, Typed
<1>2. Like(page, page')
  BY <1>1, SetLike DEF Close
<1>3. Rest /\ SameStored /\ UNCHANGED <<flows, overlap>>
  BY WizardConstants DEF Close, Rest, SameStored, Inv, Typed, Setback, WizardConstants
<1> QED BY <1>2, <1>3, PageStep

LEMMA MineInv == ASSUME Inv, SavedInv, Mine PROVE Inv' /\ SavedInv'
<1>1. SameStored
  BY StageType DEF Mine, SameStored, Inv, Typed, Stages
<1>2. Rest /\ UNCHANGED <<flows, overlap>>
  BY Rests DEF Mine
<1>3. Like(page, page')
  BY PageOps DEF Mine, Inv, Typed
<1> QED BY <1>1, <1>2, <1>3, PageStep

-----------------------------------------------------------------------------
\* The handlers that start.

LEMMA StartInv ==
  ASSUME Inv, SavedInv, NEW f \in Flows, NEW kind \in Kinds \ {"gone"},
         NEW req \in Requests, req \in Asked[kind], req = "get" => kind \notin Viewing,
         Like(page, page'), Become(f, New(kind, req)), UNCHANGED <<window, server>>,
         UNCHANGED setbacks \/ Setback
  PROVE  Inv' /\ SavedInv'
<1>1. Sound(New(kind, req)) /\ New(kind, req).pc = "sent"
  BY NewSound
<1>2. Rest /\ SameStored
  BY Rests DEF SameStored, Inv, Typed
<1> QED BY <1>1, <1>2, FlowStep

LEMMA LoadInv == ASSUME Inv, SavedInv, NEW f \in Flows, Load(f) PROVE Inv' /\ SavedInv'
<1>1. Like(page, page')
  BY PageOps DEF Load, Inv, Typed
<1> QED BY <1>1, StartInv DEF Load, Kinds, Requests, Asked, Viewing

LEMMA AutosaveInv ==
  ASSUME Inv, SavedInv, NEW f \in Flows, Autosave(f) PROVE Inv' /\ SavedInv'
<1>1. Like(page, page')
  BY DEF Autosave, Like, Inv, Typed, Page
<1> QED BY <1>1, StartInv DEF Autosave, Kinds, Requests, Asked, Viewing

LEMMA BusyLike == ASSUME Inv, Set(Busy(page)) PROVE Like(page, page')
BY PageOps, SetLike DEF Inv, Typed

LEMMA InTimes == InTime => UNCHANGED setbacks \/ Setback
BY DEF InTime

LEMMA SaveInv ==
  ASSUME Inv, SavedInv, NEW f \in Flows, NEW kind \in {"save", "continue"}, Save(f, kind)
  PROVE  Inv' /\ SavedInv'
<1>1. UNCHANGED setbacks \/ Setback
  BY InTimes DEF Save
<1> QED BY <1>1, BusyLike, StartInv DEF Save, Kinds, Requests, Asked, Viewing

LEMMA ClickInv ==
  ASSUME Inv, SavedInv, NEW f \in Flows, NEW kind \in Kinds \ {"gone"},
         NEW req \in Requests, req \in Asked[kind], req = "get" => kind \notin Viewing,
         Click(f, kind, req)
  PROVE  Inv' /\ SavedInv'
BY BusyLike, InTimes, StartInv DEF Click

LEMMA ButtonInv ==
  ASSUME Inv, SavedInv, NEW f \in Flows,
         Preflight(f) \/ RecoverApproval(f) \/ Reconcile(f) \/ ContinueToPublish(f)
  PROVE  Inv' /\ SavedInv'
<1>1. ASSUME Preflight(f) PROVE Inv' /\ SavedInv'
  BY <1>1, ClickInv DEF Preflight, Kinds, Requests, Asked, Viewing
<1>2. ASSUME RecoverApproval(f) PROVE Inv' /\ SavedInv'
  BY <1>2, ClickInv DEF RecoverApproval, Kinds, Requests, Asked, Viewing
<1>3. ASSUME Reconcile(f) PROVE Inv' /\ SavedInv'
  BY <1>3, ClickInv DEF Reconcile, Kinds, Requests, Asked, Viewing
<1>4. ASSUME ContinueToPublish(f) PROVE Inv' /\ SavedInv'
  BY <1>4, ClickInv DEF ContinueToPublish, Kinds, Requests, Asked, Viewing
<1> QED BY <1>1, <1>2, <1>3, <1>4

LEMMA ApproveInv == ASSUME Inv, SavedInv, NEW f \in Flows, Approve(f) PROVE Inv' /\ SavedInv'
<1>1. CASE Ready(page.draft)
  <2>1. PICK req \in {"approve", "overview"} : Click(f, "approve", req)
    BY <1>1 DEF Approve
  <2> QED BY <2>1, ClickInv DEF Kinds, Requests, Asked, Viewing
<1>2. CASE ~Ready(page.draft)
  <2>1. Set(ToForm(page)) /\ InTime /\ UNCHANGED <<window, flows, server, overlap>>
    BY <1>2 DEF Approve
  <2>2. Like(page, page')
    BY <2>1, PageOps, SetLike DEF Inv, Typed
  <2>3. Rest /\ SameStored
    BY <2>1, InTimes, Rests DEF SameStored, Inv, Typed
  <2> QED BY <2>1, <2>2, <2>3, PageStep
<1> QED BY <1>1, <1>2

\* A handler that asks for the next request of its own kind.
LEMMA AgainSound ==
  ASSUME NEW q \in Flow, q.kind \in Kinds \ {"gone"}, NEW req \in Requests,
         q.sent \in Form, req \in Asked[q.kind],
         req = "get" /\ q.kind \in Viewing => q.state \in PaymentStates
  PROVE  /\ Sound(Asks(q, req)) /\ Asks(q, req).pc = "sent" /\ Asks(q, req).req = req
         /\ Asks(q, req).sent = q.sent
<1>1. q = [q EXCEPT !.kind = q.kind]
  BY DEF Flow
<1> QED BY <1>1, AsksSound

LEMMA AskFundSound ==
  ASSUME NEW q \in Flow, q.kind = "fund", q.sent \in Form
  PROVE  Sound(AskFund(q)) /\ AskFund(q).pc # "answered" /\ ~CarriesDraft(AskFund(q))
<1>1. /\ Sound(Asks(q, "fund")) /\ Asks(q, "fund").pc = "sent" /\ Asks(q, "fund").req = "fund"
  BY AgainSound DEF Kinds, Requests, Asked, Viewing
<1> QED BY <1>1, IdleSound DEF AskFund, CarriesDraft

LEMMA NewFund ==
  ASSUME Inv
  PROVE  Sound(AskFund(New("fund", "fund"))) /\ AskFund(New("fund", "fund")).pc # "answered"
<1>1. /\ Sound(New("fund", "fund")) /\ New("fund", "fund").kind = "fund"
      /\ New("fund", "fund").sent \in Form
  BY NewSound DEF Kinds, Requests, Asked, Viewing
<1> QED BY <1>1, AskFundSound DEF Sound

LEMMA FundInv == ASSUME Inv, SavedInv, NEW f \in Flows, Fund(f) PROVE Inv' /\ SavedInv'
<1>1. Like(page, page')
  BY PinnedLike, SetLike DEF Fund, Inv, Typed
<1>2. Rest /\ SameStored
  BY InTimes, Rests DEF Fund, SameStored, Inv, Typed
<1> QED BY <1>1, <1>2, NewFund, FlowStep DEF Fund

LEMMA PipelineInv ==
  ASSUME Inv, SavedInv, NEW f \in Flows, NEW p, Like(page, p), NEW stage \in Stage,
         NEW d \in Form, EnterPipeline(f, p, stage, d), SameStored, Rest
  PROVE  Inv' /\ SavedInv'
<1>1. CASE p.pipeline = stage
  <2>1. Set(p) /\ UNCHANGED <<flows, overlap>>
    BY <1>1 DEF EnterPipeline
  <2> QED BY <2>1, SetLike, PageStep
<1>2. CASE p.pipeline # stage
  <2>1. PICK r : r = [p EXCEPT !.pipeline = stage]
    OBVIOUS
  <2>2. Set(Busy(r)) /\ Become(f, Pipeline(stage, d))
    BY <1>2, <2>1 DEF EnterPipeline
  <2>3. r \in Page /\ Like(page, r)
    BY <2>1 DEF Like, Page
  <2>4. Like(page, page')
    BY <2>2, <2>3, PageOps, LikeLike, SetLike
  <2>5. PICK n : n = New("pipeline", "reconcile")
    OBVIOUS
  <2>6. Sound(n) /\ n.pc = "sent" /\ n.req = "reconcile" /\ n.kind = "pipeline"
    BY <2>5, NewSound DEF Kinds, Requests, Asked, Viewing
  <2>7. PICK q : q = Pipeline(stage, d)
    OBVIOUS
  <2>8. q = [n EXCEPT !.stage = stage, !.sent = d, !.left = Polls]
    BY <2>5, <2>7 DEF Pipeline
  <2>9. /\ q \in Flow /\ q.pc = "sent" /\ q.req = "reconcile" /\ q.kind = "pipeline"
        /\ q.sent = d
    <3>1. n \in Flow /\ Polls \in 0..Polls
      BY <2>6, WizardConstants DEF Sound, WizardConstants
    <3> QED BY <2>6, <2>8, <3>1 DEF Flow
  <2>10. Sound(q)
    BY <2>9 DEF Sound, Answers, Kinds, Asked
  <2> QED BY <2>2, <2>4, <2>7, <2>9, <2>10, FlowStep
<1> QED BY <1>1, <1>2

LEMMA ResumeInv == ASSUME Inv, SavedInv, NEW f \in Flows, Resume(f) PROVE Inv' /\ SavedInv'
<1>1. PICK p : p = [page EXCEPT !.resumed = @ \cup {ResumeKey}]
  OBVIOUS
<1>2. p \in Page /\ Like(page, p) /\ p.draft = page.draft
  BY <1>1 DEF Resume, ResumeDue, Inv, Typed, Page, Like
<1>3. Rest /\ SameStored /\ UNCHANGED <<window, server, setbacks>>
  BY Rests DEF Resume, SameStored, Inv, Typed
<1>4. Fields(page.draft) \in Form
  BY DEF Inv, Typed, Page, Draft, Form, Fields
<1>5. page.state \in {"APPROVED", "FUNDING_PENDING", "FUNDED_VERIFIED"}
  BY DEF Resume, ResumeDue
<1>6. CASE page.state = "APPROVED"
  <2>1. Set(Pinned(p, p.draft, New("fund", "fund"))) /\ Become(f, AskFund(New("fund", "fund")))
    BY <1>1, <1>6, Zenon DEF Resume
  <2>2. Like(page, page')
    BY <1>2, <2>1, PinnedLike, LikeLike, SetLike
  <2> QED BY <1>3, <2>1, <2>2, NewFund, FlowStep
<1>7. CASE page.state = "FUNDING_PENDING"
  <2>1. EnterPipeline(f, p, "funding", Fields(page.draft))
    <3>1. EnterPipeline(f, p, "funding", Fields(p.draft))
      BY <1>1, <1>7, Zenon DEF Resume
    <3> QED BY <1>2, <3>1
  <2> QED BY <1>2, <1>3, <1>4, <2>1, PipelineInv DEF Stage
<1>8. CASE page.state = "FUNDED_VERIFIED"
  <2>1. IF Ready(p.draft) THEN Set(Busy(p)) /\ Become(f, New("publish", "publish"))
        ELSE Set(NeedsAttention(p)) /\ UNCHANGED <<flows, overlap>>
    BY <1>1, <1>8, Zenon DEF Resume
  <2>2. Like(page, Busy(p)) /\ Like(page, NeedsAttention(p))
    BY <1>2, PageOps, LikeLike
  <2>3. CASE Ready(p.draft)
    <3>1. Like(page, page')
      BY <2>1, <2>2, <2>3, SetLike
    <3> QED BY <1>3, <2>1, <2>3, <3>1, StartInv DEF Kinds, Requests, Asked, Viewing
  <2>4. CASE ~Ready(p.draft)
    <3>1. Like(page, page')
      BY <2>1, <2>2, <2>4, SetLike
    <3> QED BY <1>3, <2>1, <2>4, <3>1, PageStep
  <2> QED BY <2>3, <2>4
<1> QED BY <1>5, <1>6, <1>7, <1>8

LEMMA PublishClickInv ==
  ASSUME Inv, SavedInv, NEW f \in Flows, PublishClick(f) PROVE Inv' /\ SavedInv'
<1>1. Rest /\ SameStored /\ UNCHANGED <<window, server>> /\ InTime
  BY InTimes, Rests DEF PublishClick, SameStored, Inv, Typed
<1>2. CASE Set(Busy(page)) /\ Become(f, New("publish", "publish"))
  BY <1>1, <1>2, BusyLike, InTimes, StartInv DEF Kinds, Requests, Asked, Viewing
<1>3. CASE /\ Set(IF Ready(page.draft) THEN page ELSE ToForm(page))
           /\ UNCHANGED <<flows, overlap>>
  <2>1. Like(page, page) /\ Like(page, ToForm(page))
    BY PageOps DEF Inv, Typed
  <2>2. Like(page, page')
    BY <1>3, <2>1, SetLike
  <2> QED BY <1>1, <1>3, <2>2, PageStep
<1> QED BY <1>2, <1>3 DEF PublishClick

LEMMA ConfirmInv == ASSUME Inv, SavedInv, NEW f \in Flows, Confirm(f) PROVE Inv' /\ SavedInv'
<1>1. window.stage \in Stage /\ window.sent \in Form
  BY DEF Confirm, Inv, Typed
<1>2. Rest
  BY DEF Confirm, Rest, Inv, Typed
<1>3. PICK next : next = CASE window.stage = "approval" /\ server.draft.stage = "approving" -> "approved"
                [] window.stage = "funding" /\ server.draft.stage = "funding" -> "signed"
                [] OTHER -> None
  OBVIOUS
<1>4. next \in {"approved", "signed", None}
  BY <1>3, Zenon
<1>5. CASE next = None
  <2>1. Set([page EXCEPT !.error = TRUE]) /\ UNCHANGED <<server, flows, overlap>>
    BY <1>3, <1>5, Zenon DEF Confirm
  <2>2. Like(page, page') /\ SameStored
    BY <2>1, PageOps, SetLike DEF Inv, Typed, SameStored
  <2> QED BY <1>2, <2>1, <2>2, PageStep
<1>6. CASE next # None
  <2>1. /\ server' = [server EXCEPT !.draft.stage = next]
        /\ EnterPipeline(f, page, window.stage, window.sent)
    BY <1>3, <1>6, Zenon DEF Confirm
  <2>2. SameStored
    BY <1>4, <1>6, <2>1, StageType DEF SameStored, Inv, Typed, Stages
  <2>3. Like(page, page)
    BY PageOps DEF Inv, Typed
  <2> QED BY <1>1, <1>2, <2>1, <2>2, <2>3, PipelineInv
<1> QED BY <1>5, <1>6

LEMMA BalanceInv == ASSUME Inv, SavedInv, NEW f \in Flows, Balance(f) PROVE Inv' /\ SavedInv'
<1>1. PICK n : n = New("balance", "overview")
  OBVIOUS
<1>2. Sound(n) /\ n.req = "overview"
  BY <1>1, NewSound DEF Kinds, Requests, Asked, Viewing
<1>3. /\ flows' = [g \in Flows |-> IF g = f THEN n ELSE Superseded(flows[g])]
      /\ UNCHANGED <<page, window, server, overlap>> /\ (Setback \/ UNCHANGED setbacks)
  BY <1>1 DEF Balance
<1>4. Rest /\ SameStored
  BY <1>3, Rests DEF SameStored, Inv, Typed
<1>5. ASSUME NEW q, Sound(q)
      PROVE  Sound(Superseded(q)) /\ (CarriesDraft(Superseded(q)) => Superseded(q) = q)
  <2>1. CASE q.req = "overview" /\ q.kind = "balance"
    <3>1. Superseded(q) = Idle
      BY <2>1, Zenon DEF Superseded
    <3> QED BY <3>1, IdleSound
  <2>2. CASE q.req = "overview" /\ q.kind = "approve"
    <3>1. PICK r : r = Superseded(q)
      OBVIOUS
    <3>2. r = [q EXCEPT !.pc = "answered", !.reply = None, !.got = None]
      BY <2>2, <3>1, Zenon DEF Superseded, Refused
    <3>3. /\ r \in Flow /\ r.pc = "answered" /\ r.reply = None /\ r.req = q.req
          /\ r.kind = q.kind /\ r.sent = q.sent
      BY <1>5, <3>2 DEF Sound, Flow
    <3>4. q.pc # "idle"
      BY <1>5, <2>2, IdleSound, WizardConstants DEF Sound, WizardConstants, Idle, Flow
    <3>5. Sound(r)
      BY <1>5, <2>2, <3>3, <3>4 DEF Sound, Answers
    <3> QED BY <2>2, <3>1, <3>3, <3>5 DEF CarriesDraft
  <2>3. CASE ~(q.req = "overview" /\ q.kind \in {"balance", "approve"})
    <3>1. Superseded(q) = q
      BY <2>3, Zenon DEF Superseded
    <3> QED BY <1>5, <3>1
  <2> QED BY <2>1, <2>2, <2>3
<1>6. ASSUME NEW g \in Flows
      PROVE  /\ Sound(flows'[g]) /\ flows'[g] \in Flow
             /\ CarriesDraft(flows'[g]) => flows'[g] = flows[g]
  BY <1>2, <1>3, <1>5 DEF Inv, Sound, CarriesDraft
<1>7. flows' \in [Flows -> Flow]
  BY <1>3, <1>6
<1>8. Like(page, page')
  BY <1>3, PageOps DEF Inv, Typed
<1> QED BY <1>3, <1>4, <1>6, <1>7, <1>8, EndStep DEF Like

-----------------------------------------------------------------------------
\* The handlers that go on.

LEMMA GoesOnInv ==
  ASSUME Inv, SavedInv, NEW f \in Flows, NEW p, Like(page, p), NEW q, Sound(q),
         q.pc # "answered", GoesOn(f, p, q), UNCHANGED <<server, setbacks>>
  PROVE  Inv' /\ SavedInv'
<1>1. Like(page, page')
  BY SetLike DEF GoesOn
<1>2. Rest /\ SameStored
  BY Rests DEF GoesOn, SameStored, Inv, Typed
<1> QED BY <1>1, <1>2, FlowStep DEF GoesOn

LEMMA EndsInv ==
  ASSUME Inv, SavedInv, NEW f \in Flows, NEW p, Like(page, p), Ends(f, p),
         UNCHANGED <<server, setbacks>>
  PROVE  Inv' /\ SavedInv'
<1>1. Like(page, Released(p, flows[f]))
  BY PageOps, LikeLike DEF Like
<1>2. Like(page, page')
  BY <1>1, SetLike DEF Ends
<1>3. Rest /\ SameStored
  BY Rests DEF Ends, SameStored, Inv, Typed
<1> QED BY <1>2, <1>3, IdleSound, FlowStep DEF Ends

LEMMA OpensInv ==
  ASSUME Inv, SavedInv, NEW f \in Flows, NEW p, Like(page, p), NEW stage \in Stage,
         flows[f].sent \in Form, Opens(f, p, stage), UNCHANGED <<server, setbacks>>
  PROVE  Inv' /\ SavedInv'
<1>1. PICK r : r = Done(p)
  OBVIOUS
<1>2. Like(page, r)
  BY <1>1, PageOps, LikeLike DEF Like
<1>3. Like(page, Released(r, flows[f]))
  BY <1>2, PageOps, LikeLike DEF Like
<1>4. Like(page, page')
  BY <1>1, <1>3, SetLike DEF Opens
<1>5. Rest /\ SameStored
  BY DEF Opens, Rest, SameStored, Inv, Typed
<1> QED BY <1>4, <1>5, IdleSound, FlowStep DEF Opens

LEMMA GotGoesOn ==
  ASSUME Inv, SavedInv, NEW f \in Flows, CarriesDraft(flows[f]), NEW r \in Page,
         ~overlap => r.draft.text = server.draft.text, NEW p, Like(r, p),
         NEW q, Sound(q), ~CarriesDraft(q), q.pc # "answered",
         GoesOn(f, p, q), UNCHANGED <<server, setbacks>>
  PROVE  Inv' /\ SavedInv'
<1>1. page' \in Page /\ page'.draft = r.draft
  BY SetPage DEF GoesOn, Like
<1>2. Rest
  BY Rests DEF GoesOn
<1> QED BY <1>1, <1>2, GotStep DEF GoesOn

LEMMA GotEnds ==
  ASSUME Inv, SavedInv, NEW f \in Flows, CarriesDraft(flows[f]), NEW r \in Page,
         ~overlap => r.draft.text = server.draft.text, NEW p, Like(r, p),
         Ends(f, p), UNCHANGED <<server, setbacks>>
  PROVE  Inv' /\ SavedInv'
<1>1. Like(r, Released(p, flows[f]))
  BY PageOps, LikeLike DEF Like
<1>2. page' \in Page /\ page'.draft = r.draft
  BY <1>1, SetPage DEF Ends, Like
<1>3. Rest
  BY Rests DEF Ends
<1> QED BY <1>2, <1>3, IdleSound, GotStep DEF Ends

LEMMA WakeInv == ASSUME Inv, SavedInv, NEW f \in Flows, Wake(f) PROVE Inv' /\ SavedInv'
<1>1. Sound(flows[f]) /\ flows[f].pc = "asleep"
  BY DEF Wake, Inv
<1>2. /\ Sound(Asks(flows[f], "reconcile")) /\ Asks(flows[f], "reconcile").pc = "sent"
  BY <1>1, AgainSound DEF Sound, Kinds, Requests, Asked
<1>3. Like(page, Busy(page))
  BY PageOps DEF Inv, Typed
<1> QED BY <1>2, <1>3, GoesOnInv DEF Wake

\* A handler that was answered.
LEMMA GoOnFlow ==
  ASSUME Inv, NEW f \in Flows, flows[f].pc = "answered"
  PROVE  /\ Sound(flows[f]) /\ flows[f] \in Flow /\ flows[f].sent \in Form
         /\ flows[f].kind \in Kinds \ {"gone"} /\ flows[f].req \in Asked[flows[f].kind]
         /\ flows[f].req \in Requests
BY DEF Inv, Sound, Asked, Kinds, Requests

LEMMA FailsInv ==
  ASSUME Inv, SavedInv, NEW f \in Flows, flows[f].pc = "answered", Fails(f),
         UNCHANGED <<server, setbacks>>
  PROVE  Inv' /\ SavedInv'
<1>1. /\ Sound(flows[f]) /\ flows[f] \in Flow /\ flows[f].sent \in Form
      /\ flows[f].kind \in Kinds \ {"gone"} /\ flows[f].req \in Asked[flows[f].kind]
  BY GoOnFlow
<1>2. /\ page \in Page /\ Like(page, page) /\ Like(page, Shown(page)) /\ Like(page, Done(page))
      /\ Like(page, [page EXCEPT !.error = TRUE]) /\ Like(page, [page EXCEPT !.error = FALSE])
  BY PageOps DEF Inv, Typed
<1>3. CASE flows[f].kind = "autosave"
  <2>1. Ends(f, page)
    BY <1>3, Zenon DEF Fails
  <2> QED BY <1>2, <2>1, EndsInv
<1>4. CASE flows[f].kind = "load"
  <2>1. Ends(f, [page EXCEPT !.error = TRUE])
    BY <1>4, Zenon DEF Fails
  <2> QED BY <1>2, <2>1, EndsInv
<1>5. CASE flows[f].kind = "balance"
  <2>1. \E p \in {page, [page EXCEPT !.error = FALSE]} : Ends(f, p)
    BY <1>5, Zenon DEF Fails
  <2> QED BY <1>2, <2>1, EndsInv
<1>6. CASE flows[f].kind = "approve" /\ flows[f].req = "overview"
  <2>1. GoesOn(f, page, Asks(flows[f], "approve")) \/ Ends(f, Done(page))
    BY <1>6, Zenon DEF Fails
  <2>2. Sound(Asks(flows[f], "approve")) /\ Asks(flows[f], "approve").pc = "sent"
    BY <1>1, <1>6, AgainSound DEF Requests, Asked, Viewing
  <2> QED BY <1>2, <2>1, <2>2, GoesOnInv, EndsInv
<1>7. CASE flows[f].kind = "preflight" /\ flows[f].req = "save"
  <2>1. GoesOn(f, Shown(page), Asks(flows[f], "preflight"))
    BY <1>7, Zenon DEF Fails
  <2>2. Sound(Asks(flows[f], "preflight")) /\ Asks(flows[f], "preflight").pc = "sent"
    BY <1>1, <1>7, AgainSound DEF Requests, Asked, Viewing
  <2> QED BY <1>2, <2>1, <2>2, GoesOnInv
<1>8. CASE flows[f].kind = "verify"
  <2>1. Ends(f, [Shown(page) EXCEPT !.step = "funding"])
    BY <1>8, Zenon DEF Fails
  <2>2. Like(page, [Shown(page) EXCEPT !.step = "funding"])
    <3>1. PICK p : p = Shown(page)
      OBVIOUS
    <3>2. Like(page, p) /\ p \in Page
      BY <1>2, <3>1 DEF Like
    <3> QED BY <3>1, <3>2, PageOps, LikeLike DEF Steps
  <2> QED BY <2>1, <2>2, EndsInv
<1>9. CASE /\ flows[f].kind \notin {"autosave", "load", "balance", "verify"}
           /\ ~(flows[f].kind = "approve" /\ flows[f].req = "overview")
           /\ ~(flows[f].kind = "preflight" /\ flows[f].req = "save")
  <2>1. Ends(f, Shown(page))
    BY <1>9, Zenon DEF Fails
  <2> QED BY <1>2, <2>1, EndsInv
<1> QED BY <1>3, <1>4, <1>5, <1>6, <1>7, <1>8, <1>9

\* saveDraft shows the text that was sent, which is what the server stored.
LEMMA GotSaveInv ==
  ASSUME Inv, SavedInv, NEW f \in Flows, Answers(flows[f]), flows[f].req = "save", GotSave(f),
         UNCHANGED <<server, setbacks>>
  PROVE  Inv' /\ SavedInv'
<1>1. /\ Sound(flows[f]) /\ flows[f] \in Flow /\ flows[f].sent \in Form
      /\ flows[f].kind \in Kinds \ {"gone"} /\ flows[f].req \in Asked[flows[f].kind]
      /\ flows[f].got \in Draft
  BY GoOnFlow DEF Answers, Sound
<1>2. CarriesDraft(flows[f]) /\ (~overlap => flows[f].sent.text = server.draft.text)
  BY DEF Answers, CarriesDraft, SavedInv, Held
<1>3. page \in Page
  BY DEF Inv, Typed
<1>4. PICK r : r = SavedPage(flows[f])
  OBVIOUS
<1>5. r \in Page /\ r.draft.text = flows[f].sent.text
  <2>1. PICK d : d = Preserved(flows[f].got, flows[f].sent)
    OBVIOUS
  <2>2. d \in Draft /\ d.text = flows[f].sent.text
    BY <1>1, <2>1 DEF Preserved, Draft, Form
  <2>3. PICK p : p = Done(page)
    OBVIOUS
  <2>4. p \in Page
    BY <1>3, <2>3, PageOps DEF Like
  <2>5. r = [p EXCEPT !.draft = d, !.dirty = FALSE]
    BY <1>4, <2>1, <2>3 DEF SavedPage
  <2> QED BY <2>2, <2>4, <2>5 DEF Page
<1>6. \A step \in Steps : Like(r, [r EXCEPT !.step = step])
  BY <1>5, PageOps
<1>7. CASE flows[f].kind = "autosave"
  <2>1. Ends(f, IF SameForm(flows[f].sent) THEN [page EXCEPT !.dirty = FALSE] ELSE page)
    BY <1>7, Zenon DEF GotSave
  <2>2. CASE SameForm(flows[f].sent)
    <3>1. PICK p : p = [page EXCEPT !.dirty = FALSE]
      OBVIOUS
    <3>2. p \in Page /\ p.draft.text = flows[f].sent.text
      BY <1>3, <2>2, <3>1 DEF Page, SameForm
    <3>3. Like(p, p)
      BY <3>2, PageOps
    <3> QED BY <1>2, <2>1, <2>2, <3>1, <3>2, <3>3, GotEnds
  <2>3. CASE ~SameForm(flows[f].sent)
    <3>1. Like(page, page)
      BY <1>3, PageOps
    <3> QED BY <2>1, <2>3, <3>1, EndsInv
  <2> QED BY <2>2, <2>3
<1>8. CASE flows[f].kind = "save"
  <2>1. Ends(f, [r EXCEPT !.step = "form"])
    BY <1>4, <1>8, Zenon DEF GotSave
  <2> QED BY <1>2, <1>5, <1>6, <2>1, GotEnds DEF Steps
<1>9. CASE flows[f].kind = "continue"
  <2>1. PICK step \in {"funding"} \cup (IF Ready(flows[f].sent) THEN {} ELSE {"form"}) :
          Ends(f, [r EXCEPT !.step = step])
    BY <1>4, <1>9, Zenon DEF GotSave
  <2>2. step \in Steps
    BY <2>1 DEF Steps
  <2> QED BY <1>2, <1>5, <1>6, <2>1, <2>2, GotEnds
<1>10. CASE flows[f].kind = "preflight"
  <2>1. GoesOn(f, [r EXCEPT !.step = "funding"], Asks(flows[f], "preflight"))
    BY <1>4, <1>10, Zenon DEF GotSave
  <2>2. /\ Sound(Asks(flows[f], "preflight")) /\ Asks(flows[f], "preflight").pc = "sent"
        /\ ~CarriesDraft(Asks(flows[f], "preflight"))
    BY <1>1, <1>10, AgainSound DEF Requests, Asked, Viewing, CarriesDraft
  <2> QED BY <1>2, <1>5, <1>6, <2>1, <2>2, GotGoesOn DEF Steps
<1> QED BY <1>1, <1>7, <1>8, <1>9, <1>10 DEF Asked, Kinds

\* The pipeline decides on a page r that shows the draft it was answered.
LEMMA DecidesInv ==
  ASSUME Inv, SavedInv, NEW f \in Flows, Answers(flows[f]), flows[f].req = "get",
         flows[f].kind = "pipeline", NEW r \in Page,
         ~overlap => r.draft.text = server.draft.text, Decides(f, r),
         UNCHANGED <<server, setbacks>>
  PROVE  Inv' /\ SavedInv'
<1>1. /\ Sound(flows[f]) /\ flows[f] \in Flow /\ flows[f].sent \in Form /\ flows[f].pc # "idle"
  BY GoOnFlow DEF Answers
<1>2. CarriesDraft(flows[f])
  BY DEF Answers, CarriesDraft
<1>3. /\ Like(r, Busy(r)) /\ Like(r, NeedsAttention(r)) /\ Like(r, Done(r))
      /\ Like(r, Pinned(r, flows[f].sent, flows[f]))
  BY PageOps, PinnedLike
<1>4. CASE flows[f].stage = "approval" /\ flows[f].state = "APPROVED"
  <2>1. PICK q : q = [flows[f] EXCEPT !.kind = "fund"]
    OBVIOUS
  <2>2. q \in Flow /\ q.kind = "fund" /\ q.sent \in Form
    BY <1>1, <2>1 DEF Flow, Kinds
  <2>3. Sound(AskFund(q)) /\ AskFund(q).pc # "answered" /\ ~CarriesDraft(AskFund(q))
    BY <2>2, AskFundSound
  <2>4. GoesOn(f, Pinned(r, flows[f].sent, flows[f]), AskFund(q))
    BY <1>4, <2>1 DEF Decides, GoesOn
  <2> QED BY <1>2, <1>3, <2>3, <2>4, GotGoesOn
<1>5. CASE ~(flows[f].stage = "approval" /\ flows[f].state = "APPROVED")
           /\ flows[f].stage = "funding" /\ Verified(flows[f].got)
  <2>1. CASE Ready(flows[f].got)
    <3>1. PICK q : q = [flows[f] EXCEPT !.kind = "publish"]
      OBVIOUS
    <3>2. GoesOn(f, Busy(r), Asks(q, "publish"))
      BY <1>5, <2>1, <3>1 DEF Decides
    <3>3. /\ Sound(Asks(q, "publish")) /\ Asks(q, "publish").pc = "sent"
          /\ Asks(q, "publish").req = "publish"
      BY <1>1, <3>1, AsksSound DEF Kinds, Requests, Asked, Viewing
    <3>4. ~CarriesDraft(Asks(q, "publish"))
      BY <3>3 DEF CarriesDraft
    <3> QED BY <1>2, <1>3, <3>2, <3>3, <3>4, GotGoesOn
  <2>2. CASE ~Ready(flows[f].got)
    <3>1. Ends(f, NeedsAttention(r))
      BY <1>5, <2>2 DEF Decides
    <3> QED BY <1>2, <1>3, <3>1, GotEnds
  <2> QED BY <2>1, <2>2
<1>6. CASE ~(flows[f].stage = "approval" /\ flows[f].state = "APPROVED")
           /\ ~(flows[f].stage = "funding" /\ Verified(flows[f].got))
  <2>1. CASE MorePolls(flows[f])
    <3>1. PICK q : q = [flows[f] EXCEPT !.pc = "asleep", !.left = @ - 1, !.got = None,
                                        !.state = None, !.reply = None]
      OBVIOUS
    <3>2. GoesOn(f, Done(r), q)
      BY <1>6, <2>1, <3>1 DEF Decides
    <3>3. flows[f].left \in 0..Polls /\ flows[f].left > 0 /\ Polls \in Nat
      BY <1>1, <2>1, WizardConstants DEF MorePolls, Flow, WizardConstants
    <3>4. PICK left \in 0..Polls : left = flows[f].left - 1
      BY <3>3
    <3>5. q = [flows[f] EXCEPT !.pc = "asleep", !.left = left, !.got = None,
                               !.state = None, !.reply = None]
      BY <1>1, <3>1, <3>4 DEF Flow
    <3>6. /\ q \in Flow /\ q.pc = "asleep" /\ q.kind = flows[f].kind
          /\ q.req = flows[f].req /\ q.sent = flows[f].sent
      BY <1>1, <3>5 DEF Flow
    <3>7. Sound(q) /\ ~CarriesDraft(q)
      BY <1>1, <3>6 DEF Sound, Answers, CarriesDraft
    <3> QED BY <1>2, <1>3, <3>2, <3>6, <3>7, GotGoesOn
  <2>2. CASE ~MorePolls(flows[f])
    <3>1. Ends(f, Done(r))
      BY <1>6, <2>2 DEF Decides
    <3> QED BY <1>2, <1>3, <3>1, GotEnds
  <2> QED BY <2>1, <2>2
<1> QED BY <1>4, <1>5, <1>6

LEMMA GotDraftInv ==
  ASSUME Inv, SavedInv, NEW f \in Flows, Answers(flows[f]), flows[f].req = "get",
         GotDraft(f), UNCHANGED <<server, setbacks>>
  PROVE  Inv' /\ SavedInv'
<1>1. /\ Sound(flows[f]) /\ flows[f].kind \in Kinds \ {"gone"}
      /\ flows[f].req \in Asked[flows[f].kind] /\ flows[f].got \in Draft
      /\ flows[f].kind \in Viewing => flows[f].state \in PaymentStates
  BY GoOnFlow DEF Answers, Sound
<1>2. CarriesDraft(flows[f]) /\ (~overlap => flows[f].got.text = server.draft.text)
  BY DEF Answers, CarriesDraft, SavedInv, Held
<1>3. PICK r : r = [page EXCEPT !.draft = flows[f].got]
  OBVIOUS
<1>4. r \in Page /\ r.draft = flows[f].got
  BY <1>1, <1>3 DEF Inv, Typed, Page
<1>5. CASE flows[f].kind = "load"
  <2>1. PICK step \in Steps : Ends(f, Loaded(flows[f].got, step))
    BY <1>5, Zenon DEF GotDraft
  <2>2. PICK p : p = Loaded(flows[f].got, step)
    OBVIOUS
  <2>3. p \in Page /\ p.draft = flows[f].got
    BY <1>1, <2>2 DEF Loaded, Inv, Typed, Page, Steps
  <2>4. Like(p, p)
    BY <2>3, PageOps
  <2> QED BY <1>2, <2>1, <2>2, <2>3, <2>4, GotEnds
<1>6. CASE flows[f].kind \in Viewing
  <2>1. PICK p : p = Applied(r, flows[f].state)
    OBVIOUS
  <2>2. p \in Page /\ p.draft = flows[f].got /\ Like(p, Done(p))
    BY <1>1, <1>4, <1>6, <2>1, PageOps DEF Like
  <2>3. CASE flows[f].kind = "pipeline"
    <3>1. Decides(f, p)
      BY <1>3, <2>1, <2>3, Zenon DEF GotDraft
    <3> QED BY <1>2, <2>2, <2>3, <3>1, DecidesInv
  <2>4. CASE flows[f].kind \in {"reconcile", "recover"}
    <3>1. Ends(f, Done(p))
      BY <1>3, <2>1, <2>4, Zenon DEF GotDraft
    <3> QED BY <1>2, <2>2, <3>1, GotEnds
  <2> QED BY <1>6, <2>3, <2>4 DEF Viewing
<1>7. CASE flows[f].kind \in {"preflight", "publish"}
  <2>1. Ends(f, Done(r))
    BY <1>3, <1>7, Zenon DEF GotDraft
  <2> QED BY <1>2, <1>4, <2>1, PageOps, GotEnds
<1>8. CASE flows[f].kind = "verify"
  <2>1. PICK step \in Steps : step = IF Verified(flows[f].got) THEN "publish" ELSE "funding"
    BY DEF Steps
  <2>2. PICK p : p = Done(r)
    OBVIOUS
  <2>3. Ends(f, [p EXCEPT !.step = step])
    BY <1>3, <1>8, <2>1, <2>2, Zenon DEF GotDraft
  <2>4. Like(r, [p EXCEPT !.step = step])
    <3>1. Like(r, p) /\ p \in Page
      BY <1>4, <2>2, PageOps DEF Like
    <3> QED BY <3>1, PageOps, LikeLike
  <2> QED BY <1>2, <1>4, <2>3, <2>4, GotEnds
<1> QED BY <1>1, <1>5, <1>6, <1>7, <1>8 DEF Asked, Kinds, Viewing

LEMMA GotAnswerInv ==
  ASSUME Inv, SavedInv, NEW f \in Flows, Answers(flows[f]), flows[f].req \notin {"get", "save"},
         GotAnswer(f), UNCHANGED <<server, setbacks>>
  PROVE  Inv' /\ SavedInv'
<1>1. /\ Sound(flows[f]) /\ flows[f] \in Flow /\ flows[f].sent \in Form
      /\ flows[f].kind \in Kinds \ {"gone"} /\ flows[f].req \in Asked[flows[f].kind]
      /\ flows[f].req \in HasOverview => flows[f].state \in PaymentStates
  BY GoOnFlow DEF Answers, Sound
<1>2. page \in Page /\ Like(page, page) /\ Like(page, Busy(page))
  BY PageOps DEF Inv, Typed
<1>3. PICK kept : kept = Applied(page, flows[f].state)
  OBVIOUS
<1>4. ASSUME flows[f].req \in HasOverview
      PROVE  Like(page, kept) /\ Like(page, Done(kept))
  <2>1. Like(page, kept)
    BY <1>1, <1>2, <1>3, <1>4, PageOps
  <2>2. Like(kept, Done(kept))
    BY <2>1, PageOps DEF Like
  <2> QED BY <2>1, <2>2, LikeLike
<1>5. ASSUME flows[f].req # "approve", flows[f].req # "overview", flows[f].req # "fund"
      PROVE  Sound(Asks(flows[f], "get")) /\ Asks(flows[f], "get").pc = "sent"
  <2>1. /\ flows[f].kind \in {"preflight", "pipeline", "reconcile", "recover", "publish",
                              "verify"}
        /\ flows[f].kind \in Viewing => flows[f].req \in {"reconcile", "recover"}
    BY <1>1, <1>5 DEF Asked, Kinds, Viewing
  <2>2. /\ "get" \in Asked[flows[f].kind]
        /\ flows[f].kind \in Viewing => flows[f].state \in PaymentStates
    BY <1>1, <2>1 DEF Asked, HasOverview
  <2> QED BY <1>1, <2>2, AgainSound DEF Requests
<1>6. CASE flows[f].req = "overview"
  <2>1. flows[f].kind \in {"balance", "approve"}
    BY <1>1, <1>6 DEF Asked, Kinds
  <2>2. CASE flows[f].kind = "balance"
    <3>1. Ends(f, kept)
      BY <1>3, <1>6, <2>2, Zenon DEF GotAnswer
    <3> QED BY <1>4, <1>6, <3>1, EndsInv DEF HasOverview
  <2>3. CASE flows[f].kind = "approve"
    <3>1. GoesOn(f, kept, Asks(flows[f], "approve")) \/ Ends(f, Done(kept))
      BY <1>3, <1>6, <2>3, Zenon DEF GotAnswer
    <3>2. Sound(Asks(flows[f], "approve")) /\ Asks(flows[f], "approve").pc = "sent"
      BY <1>1, <2>3, AgainSound DEF Requests, Asked, Viewing
    <3> QED BY <1>4, <1>6, <3>1, <3>2, GoesOnInv, EndsInv DEF HasOverview
  <2> QED BY <2>1, <2>2, <2>3
<1>7. CASE flows[f].req = "preflight"
  <2>1. GoesOn(f, kept, Asks(flows[f], "get"))
    BY <1>3, <1>7, Zenon DEF GotAnswer
  <2> QED BY <1>4, <1>5, <1>7, <2>1, GoesOnInv DEF HasOverview
<1>8. CASE flows[f].req = "approve"
  <2>1. IF flows[f].reply = "already"
        THEN GoesOn(f, Busy(page), Asks([flows[f] EXCEPT !.kind = "preflight"], "save"))
        ELSE Opens(f, page, "approval")
    BY <1>8, Zenon DEF GotAnswer
  <2>2. CASE flows[f].reply = "already"
    <3>1. PICK q : q = [flows[f] EXCEPT !.kind = "preflight"]
      OBVIOUS
    <3>2. Sound(Asks(q, "save")) /\ Asks(q, "save").pc = "sent"
      BY <1>1, <3>1, AsksSound DEF Kinds, Requests, Asked, Viewing
    <3> QED BY <1>2, <2>1, <2>2, <3>1, <3>2, GoesOnInv
  <2>3. CASE flows[f].reply # "already"
    BY <1>1, <1>2, <2>1, <2>3, OpensInv DEF Stage
  <2> QED BY <2>2, <2>3
<1>9. CASE flows[f].req = "fund"
  <2>1. Opens(f, kept, "funding")
    BY <1>3, <1>9, Zenon DEF GotAnswer
  <2> QED BY <1>1, <1>4, <1>9, <2>1, OpensInv DEF HasOverview, Stage
<1>10. CASE flows[f].req = "reconcile"
  <2>1. PICK p : p = [page EXCEPT !.snapshot = @ \/ flows[f].stage # "approval"]
    OBVIOUS
  <2>2. GoesOn(f, p, Asks(flows[f], "get"))
    BY <1>10, <2>1, Zenon DEF GotAnswer
  <2>3. Like(page, p)
    BY <1>2, <2>1 DEF Like, Page
  <2> QED BY <1>5, <1>10, <2>2, <2>3, GoesOnInv
<1>11. CASE flows[f].req \in {"recover", "publish", "verify"}
  <2>1. GoesOn(f, page, Asks(flows[f], "get"))
    BY <1>11, Zenon DEF GotAnswer
  <2> QED BY <1>2, <1>5, <1>11, <2>1, GoesOnInv
<1> QED BY <1>1, <1>6, <1>7, <1>8, <1>9, <1>10, <1>11 DEF Asked, Kinds

LEMMA GoOnInv == ASSUME Inv, SavedInv, NEW f \in Flows, GoOn(f) PROVE Inv' /\ SavedInv'
<1>1. flows[f].pc = "answered" /\ UNCHANGED <<server, setbacks>>
  BY DEF GoOn
<1>2. CASE flows[f].reply = None
  <2>1. Fails(f)
    BY <1>2, Zenon DEF GoOn
  <2> QED BY <1>1, <2>1, FailsInv
<1>3. CASE flows[f].reply # None /\ flows[f].req = "save"
  <2>1. GotSave(f)
    BY <1>3, Zenon DEF GoOn
  <2> QED BY <1>1, <1>3, <2>1, GotSaveInv DEF Answers
<1>4. CASE flows[f].reply # None /\ flows[f].req = "get"
  <2>1. GotDraft(f)
    BY <1>4, Zenon DEF GoOn
  <2> QED BY <1>1, <1>4, <2>1, GotDraftInv DEF Answers
<1>5. CASE flows[f].reply # None /\ flows[f].req \notin {"save", "get"}
  <2>1. GotAnswer(f)
    BY <1>5, Zenon DEF GoOn
  <2> QED BY <1>1, <1>5, <2>1, GotAnswerInv DEF Answers
<1> QED BY <1>2, <1>3, <1>4, <1>5

-----------------------------------------------------------------------------
\* The theorems.

LEMMA NextInv == Inv /\ SavedInv /\ [Next]_vars => Inv' /\ SavedInv'
<1> SUFFICES ASSUME Inv, SavedInv, [Next]_vars PROVE Inv' /\ SavedInv'
  OBVIOUS
<1>1. ASSUME NEW f \in Flows,
             \/ Load(f) \/ Resume(f) \/ Autosave(f) \/ Save(f, "save") \/ Save(f, "continue")
             \/ Preflight(f) \/ Approve(f) \/ Fund(f) \/ RecoverApproval(f) \/ Reconcile(f)
             \/ ContinueToPublish(f) \/ Balance(f) \/ PublishClick(f)
             \/ Serve(f) \/ ServeBadly(f) \/ GoOn(f) \/ Wake(f) \/ Confirm(f)
      PROVE  Inv' /\ SavedInv'
  BY <1>1, LoadInv, ResumeInv, AutosaveInv, SaveInv, ButtonInv, ApproveInv, FundInv,
     BalanceInv, PublishClickInv, ServeInv, ServeBadlyInv, GoOnInv, WakeInv, ConfirmInv
<1>2. ASSUME Reload \/ (\E t \in Texts : Edit(t)) \/ Back \/ Close \/ Mine
      PROVE  Inv' /\ SavedInv'
  BY <1>2, ReloadInv, EditInv, BackInv, CloseInv, MineInv
<1>3. ASSUME NEW step \in Steps, Navigate(step) PROVE Inv' /\ SavedInv'
  BY <1>3, NavigateInv
<1>4. ASSUME ComeTooNear \/ UNCHANGED vars PROVE Inv' /\ SavedInv'
  <2>1. /\ UNCHANGED <<page, window, flows, server, overlap>>
        /\ UNCHANGED setbacks \/ Setback
    BY <1>4 DEF vars, ComeTooNear
  <2>2. SameStored /\ Rest /\ Like(page, page')
    BY <2>1, PageOps, Rests DEF SameStored, Inv, Typed
  <2> QED BY <2>1, <2>2, PageStep
<1> QED BY <1>1, <1>2, <1>3, <1>4 DEF Next

\* In every reachable state a handler of the page holds what its next step
\* needs, and a request that carries the draft agrees with the page before it is
\* served, and with the store after.
THEOREM InvHolds == Spec => [](Inv /\ SavedInv)
<1>1. Init => Inv /\ SavedInv
  BY InitInv
<1>2. Inv /\ SavedInv /\ [Next]_vars => (Inv /\ SavedInv)'
  BY NextInv
<1> QED BY <1>1, <1>2, PTL DEF Spec

\* Types: a pipeline never polls more often than it has delays, a handler holds
\* the answers of its own requests, and a page keeps the keys it resumed with.
THEOREM TypeCorrect == Spec => []TypeOK
<1> DEFINE Past == past \subseteq {Deadlines[t] : t \in Texts}
<1>1. Init => Past
  BY DEF Init
<1>2. Past /\ [Next]_vars => Past'
  BY DEF Next, ComeTooNear, vars
<1>3. Inv /\ SavedInv /\ Past => TypeOK
  BY DEF Inv, Typed, TypeOK
<1> QED BY <1>1, <1>2, <1>3, InvHolds, PTL DEF Spec

\* A page that shows no unsaved changes shows what the server has stored, however
\* many handlers save, autosave and read the draft in any order, unless two of
\* them carried it at once or one carried the text of an older closure.
THEOREM SavedIsStoredHolds == Spec => []SavedIsStored
<1>1. Inv /\ SavedInv => SavedIsStored
  BY DEF SavedInv, SavedIsStored
<1> QED BY <1>1, InvHolds, PTL
=============================================================================
