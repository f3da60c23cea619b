--------------------------- MODULE FundingProofs ---------------------------
(***************************************************************************)
(* Theorems about funding and publication for any number of overlapping    *)
(* requests, of any kind, whatever steps fail.                             *)
(*                                                                         *)
(* Nearly every patch of the draft writes what its request read earlier: a *)
(* draft, the chain's answer, Circle's answer.  The strengthening, Sound,  *)
(* says that those copies are as credible as the draft itself.  It lasts   *)
(* because the chain, Circle's transaction and the verification record     *)
(* only ever say more (Progress).                                          *)
(***************************************************************************)
EXTENDS Funding, TLAPS

\* The draft d claims no more than the chain, the record and Circle bear out.
Credible(d) ==
  /\ d.pub # "draft" \/ d.es = "verified" \/ d.event => escrow # None
  /\ d.pub = "live" => record
  /\ d.hash => HasHash

\* So does the result v of a verification.
Borne(v) ==
  /\ v.funded \/ v.verified \/ v.event => escrow # None
  /\ v.hash => HasHash

\* The steps at which a request still needs the draft, the draft read for the
\* verification or the overview, and the result of the verification.
OverviewSteps == {"overview", "overviewAttempts", "promote", "saveApproved", "savePromoted",
                  "recordPromoted", "savePreflight"}
ApprovalSteps == {"askApproval", "settleApproval", "preflight", "createApproval"}
ReconcileSteps == {"persist", "lookup", "persistComplete", "markReconciled"}
NeedsDraft(q) ==
  \/ q.pc \in {"evidence", "resume", "decide", "createFunding", "settleApproval",
               "askApproval", "savePreflight", "save"}
  \/ q.kind = "fund" /\ q.pc \in {"verify", "await", "readChain"}
  \/ q.kind \in {"preflight", "approve"} /\ q.pc \in OverviewSteps
NeedsInner == {"overviewAttempts", "promote", "readChain", "saveVerified", "restore"}
NeedsResult == {"saveVerified", "saveRecord", "readRestored", "restore", "decide"}

\* What the local variables of a request are worth, step by step.
Sound(q) ==
  /\ NeedsDraft(q) => q.draft \in Draft /\ Credible(q.draft)
  /\ q.pc \in NeedsInner => q.inner \in Draft /\ Credible(q.inner)
  /\ q.pc \in NeedsResult => q.result \in Result /\ Borne(q.result)
  /\ q.pc = "saveRecord" => q.result.verified
  /\ q.pc \in {"savePromoted", "recordPromoted"} => fundCall.state = "MINED"
  /\ q.pc = "goLive" => record
  /\ q.pc = "createApproval" => q.kind = "approve"
  /\ q.pc \in ReconcileSteps => q.kind = "reconcile"
  /\ q.pc \in {"persistFunding", "persist", "lookup", "persistComplete"} =>
       fundCall.state # "ABSENT"
  /\ q.pc \in {"persistComplete", "markReconciled"} /\ q.outcome = "hash" => HasHash
  /\ q.leader # None => q.pc = "await"
  /\ q.pc = "settleApproval" => q.outcome \in {"granted", "active", "none"}
  /\ q.kind = "approve" /\ q.pc \in ApprovalSteps \cup OverviewSteps => q.amount # 0

\* The chain, Circle's challenges and the attempts agree with each other.
Consistent ==
  /\ escrow # None <=> fundCall.state = "MINED"
  /\ fundCall.state # "ABSENT" => fundCall.terms \in Terms
  /\ apprCall.state # "ABSENT" => apprCall.terms \in Amounts
  /\ fundAttempt.status # "ABSENT" => fundCall.state # "ABSENT"
  /\ fundAttempt.hash => HasHash
  /\ record => escrow # None

\* Everything but the requests.
Rest ==
  /\ draft \in Draft /\ Credible(draft)
  /\ record \in BOOLEAN
  /\ fundAttempt \in FundingAttempt /\ apprAttempt \in AttemptStatuses
  /\ started \in 0..MaxRequests
  /\ fundCall \in [state : CallStates, terms : Terms \cup {None}]
  /\ apprCall \in [state : CallStates, terms : Amounts \cup {None}]
  /\ allowance \in Nat
  /\ escrow \in Terms \cup {None}
  /\ Consistent

Inv ==
  /\ Rest
  /\ requests \in [Requests -> RequestLocals]
  /\ \A r \in Requests : Sound(requests[r])

\* What a step may do to everything a request may rely on.
Progress ==
  /\ escrow # None => escrow' # None
  /\ record => record'
  /\ fundCall.state # "ABSENT" => fundCall'.state # "ABSENT"
  /\ HasHash => HasHash'
  /\ fundCall.state = "MINED" => fundCall'.state = "MINED"

-----------------------------------------------------------------------------
\* What a request relies on lasts.
LEMMA SoundStays ==
  ASSUME NEW q, Sound(q), Progress
  PROVE  Sound(q)'
BY DEF Progress, Sound, NeedsDraft, Credible, Borne

LEMMA IdleSound == Idle \in RequestLocals /\ Sound(Idle)
BY DEF Idle, RequestLocals, Steps, Sound, NeedsDraft, NeedsInner, NeedsResult, OverviewSteps, ReconcileSteps,
       ApprovalSteps

\* Reading cleans a draft at most.
LEMMA ReadGood ==
  ASSUME Inv
  PROVE  Read \in Draft /\ Credible(Read)
<1>1. draft \in Draft /\ Credible(draft)
  BY DEF Inv, Rest
<1>2. Clean(draft) \in Draft /\ Credible(Clean(draft))
  BY <1>1 DEF Clean, Draft, FundingStatuses, Credible
<1> QED BY <1>1, <1>2 DEF Read, Sanitized

\* A step of one request.
LEMMA MovesTo ==
  ASSUME Inv, NEW r \in Requests, NEW q \in RequestLocals, Become(r, q), Sound(q)', Progress, Rest'
  PROVE  Inv'
<1>1. requests' \in [Requests -> RequestLocals]
  BY DEF Inv, Become
<1>2. ASSUME NEW s \in Requests PROVE Sound(requests[s])'
  <2>1. PICK o : o = requests[s]
    OBVIOUS
  <2>2. Sound(o)'
    BY <2>1, SoundStays DEF Inv
  <2>3. requests'[s] = IF s = r THEN q ELSE o
    BY <2>1 DEF Inv, Become
  <2> QED BY <2>2, <2>3
<1> QED BY <1>1, <1>2 DEF Inv

\* To where it is sound already.
LEMMA MoveInv ==
  ASSUME Inv, NEW r \in Requests, NEW q \in RequestLocals, Become(r, q), Sound(q), Progress, Rest'
  PROVE  Inv'
BY SoundStays, MovesTo

\* One that only reads.
LEMMA ReadsInv ==
  ASSUME Inv, NEW r \in Requests, NEW q \in RequestLocals, Become(r, q), Sound(q),
         OnlyRequests, started' \in 0..MaxRequests
  PROVE  Inv'
<1>1. Progress /\ Rest'
  BY DEF Inv, OnlyRequests, attempts, outside, Progress, Rest, Consistent, Credible, HasHash
<1> QED BY <1>1, MoveInv

\* One that saves the draft d.
LEMMA SavesInv ==
  ASSUME Inv, NEW r \in Requests, NEW q \in RequestLocals, Become(r, q), Sound(q),
         NEW d \in Draft, Credible(d), draft' = d, OnlyDraft, UNCHANGED started
  PROVE  Inv'
<1>1. Progress /\ Rest'
  BY DEF Inv, OnlyDraft, attempts, outside, Progress, Rest, Consistent, Credible, HasHash
<1> QED BY <1>1, MoveInv

\* One that replaces the attempt to fund by a.
LEMMA AttemptsInv ==
  ASSUME Inv, NEW r \in Requests, NEW q \in RequestLocals, Become(r, q), Sound(q),
         NEW a \in FundingAttempt, fundAttempt' = a, a.hash => HasHash, fundCall.state # "ABSENT",
         UNCHANGED <<draft, record, apprAttempt, outside, started>>
  PROVE  Inv'
<1>1. Progress /\ Rest'
  BY DEF Inv, outside, Progress, Rest, Consistent, Credible, HasHash
<1> QED BY <1>1, MoveInv

\* One that records the verification, once the contract holds the prizes.
LEMMA RecordsInv ==
  ASSUME Inv, NEW r \in Requests, NEW q \in RequestLocals, Become(r, q), Sound(q)',
         record' = TRUE, escrow # None, UNCHANGED <<draft, attempts, outside, started>>
  PROVE  Inv'
<1>1. Progress /\ Rest'
  BY DEF Inv, attempts, outside, Progress, Rest, Consistent, Credible, HasHash
<1> QED BY <1>1, MovesTo

\* A request that ends.
LEMMA FinishInv ==
  ASSUME Inv, NEW r \in Requests, Finish(r), OnlyRequests, UNCHANGED started
  PROVE  Inv'
BY IdleSound, ReadsInv DEF Finish, Inv, Rest

-----------------------------------------------------------------------------
\* The overview, for a route that it ends.
LEMMA OverviewSound ==
  ASSUME NEW kind \in {"overview", "fund", "reconcile", "recover"}
  PROVE  Overview(kind) \in RequestLocals /\ Sound(Overview(kind))
BY DEF Overview, Idle, RequestLocals, AllKinds, Steps, Sound, NeedsDraft, NeedsInner, NeedsResult,
       OverviewSteps, ReconcileSteps, ApprovalSteps

\* What follows the overview needs no more than it did.
LEMMA AfterOverviewSound ==
  ASSUME NEW q \in RequestLocals, Sound(q), q.pc \in OverviewSteps, NEW ready \in BOOLEAN
  PROVE  AfterOverview(q, ready) \in RequestLocals /\ Sound(AfterOverview(q, ready))
<1> DEFINE n == [q EXCEPT !.pc = "savePreflight", !.inner = None, !.yes = ready]
<1>1. CASE q.kind \in {"preflight", "approve"}
  <2>0. "savePreflight" \in Steps
    BY DEF Steps
  <2>1. /\ n \in RequestLocals /\ n.pc = "savePreflight" /\ n.kind = q.kind
        /\ n.draft = q.draft /\ n.amount = q.amount /\ n.leader = q.leader
    BY <2>0 DEF RequestLocals
  <2>2. AfterOverview(q, ready) = n
    BY <1>1 DEF AfterOverview
  <2> HIDE DEF n
  <2> QED BY <1>1, <2>1, <2>2 DEF Sound, NeedsDraft, NeedsInner, NeedsResult, OverviewSteps, ReconcileSteps,
                                  ApprovalSteps
<1>2. CASE q.kind \notin {"preflight", "approve"}
  BY <1>2, IdleSound DEF AfterOverview
<1> QED BY <1>1, <1>2

\* A request in the overview that takes another of its steps.
LEMMA GoOverview ==
  ASSUME Inv, NEW r \in Requests, requests[r].pc \in OverviewSteps,
         NEW step \in {"promote", "saveApproved", "savePromoted", "recordPromoted"},
         step = "promote" => requests[r].pc \in NeedsInner,
         step \in {"savePromoted", "recordPromoted"} => fundCall.state = "MINED"
  PROVE  LET q == [requests[r] EXCEPT !.pc = step] IN q \in RequestLocals /\ Sound(q)
<1> DEFINE q == [requests[r] EXCEPT !.pc = step]
<1>1. requests[r] \in RequestLocals /\ Sound(requests[r])
  BY DEF Inv
<1>2. /\ q \in RequestLocals /\ q.pc = step /\ q.kind = requests[r].kind
      /\ q.draft = requests[r].draft /\ q.inner = requests[r].inner
      /\ q.amount = requests[r].amount /\ q.leader = requests[r].leader
  BY <1>1 DEF RequestLocals, Steps
<1> HIDE DEF q
<1>3. Sound(q)
  BY <1>1, <1>2 DEF Sound, NeedsDraft, NeedsInner, NeedsResult, OverviewSteps, ReconcileSteps, ApprovalSteps
<1> QED BY <1>2, <1>3 DEF q

\* The reading steps of the overview.
LEMMA OverviewReads ==
  ASSUME Inv, NEW r \in Requests, ReadOverview(r) \/ ReadAttempts(r) \/ ReadReceipt(r),
         UNCHANGED started
  PROVE  Inv'
<1>0. requests[r] \in RequestLocals /\ Sound(requests[r]) /\ started' \in 0..MaxRequests
  BY DEF Inv, Rest
<1>1. CASE ReadOverview(r)
  <2>8. PICK d \in Draft : d = Read /\ Credible(d)
    BY ReadGood
  <2>0. PICK enough \in BOOLEAN : enough = (allowance >= Read.amount)
    <3>0. Read.amount \in Nat /\ allowance \in Nat
      BY ReadGood, FundingConstants DEF FundingConstants, Draft, Inv, Rest
    <3>1. (allowance >= Read.amount) \in BOOLEAN
      BY <3>0, SMT
    <3> QED BY <3>1, Zenon
  <2> DEFINE q == [requests[r] EXCEPT !.pc = "overviewAttempts", !.inner = d,
                                      !.yes = enough]
  <2>9. "overviewAttempts" \in Steps
    BY DEF Steps
  <2>1. Become(r, q) /\ OnlyRequests /\ requests[r].pc = "overview"
    BY <1>1, <2>0, <2>8 DEF ReadOverview, At
  <2>2. /\ q \in RequestLocals /\ q.pc = "overviewAttempts" /\ q.kind = requests[r].kind
        /\ q.draft = requests[r].draft /\ q.inner = d
        /\ q.amount = requests[r].amount /\ q.leader = requests[r].leader
    BY <1>0, <2>9 DEF RequestLocals
  <2> HIDE DEF q
  <2>3. Sound(q)
    BY <1>0, <2>8, <2>1, <2>2
       DEF Sound, NeedsDraft, NeedsInner, NeedsResult, OverviewSteps, ReconcileSteps, ApprovalSteps
  <2> QED BY <1>0, <2>1, <2>2, <2>3, ReadsInv
<1>2. CASE ReadAttempts(r)
  <2>1. OnlyRequests /\ requests[r].pc = "overviewAttempts" /\ requests[r].pc \in OverviewSteps
    BY <1>2 DEF ReadAttempts, At, OverviewSteps
  <2>2. \/ Go(r, "promote") \/ Go(r, "saveApproved")
        \/ \E ready \in BOOLEAN : Become(r, AfterOverview(requests[r], ready))
    BY <1>2, Zenon DEF ReadAttempts
  <2>3. CASE Go(r, "promote") \/ Go(r, "saveApproved")
    BY <1>0, <2>1, <2>3, GoOverview, ReadsInv DEF Go, NeedsInner
  <2>4. ASSUME NEW ready \in BOOLEAN, Become(r, AfterOverview(requests[r], ready)) PROVE Inv'
    BY <1>0, <2>1, <2>4, AfterOverviewSound, ReadsInv
  <2> QED BY <2>2, <2>3, <2>4
<1>3. CASE ReadReceipt(r)
  <2>1. OnlyRequests /\ requests[r].pc = "promote" /\ requests[r].pc \in OverviewSteps
    BY <1>3 DEF ReadReceipt, At, OverviewSteps
  <2>2. \/ Finish(r)
        \/ (fundCall.state = "MINED" /\ Go(r, "savePromoted"))
        \/ Become(r, AfterOverview(requests[r], FALSE))
    BY <1>3, Zenon DEF ReadReceipt
  <2>3. CASE Finish(r)
    BY <2>1, <2>3, FinishInv
  <2>4. CASE fundCall.state = "MINED" /\ Go(r, "savePromoted")
    BY <1>0, <2>1, <2>4, GoOverview, ReadsInv DEF Go
  <2>5. CASE Become(r, AfterOverview(requests[r], FALSE))
    BY <1>0, <2>1, <2>5, AfterOverviewSound, ReadsInv
  <2> QED BY <2>2, <2>3, <2>4, <2>5
<1> QED BY <1>1, <1>2, <1>3

\* The saving steps of the overview.
LEMMA OverviewSaves ==
  ASSUME Inv, NEW r \in Requests, SaveApproved(r) \/ SavePromoted(r) \/ RecordPromoted(r),
         UNCHANGED started
  PROVE  Inv'
<1>0. /\ requests[r] \in RequestLocals /\ Sound(requests[r])
      /\ draft \in Draft /\ Credible(draft) /\ Consistent
  BY DEF Inv, Rest
<1>1. CASE SaveApproved(r)
  <2> DEFINE d == [draft EXCEPT !.fs = "approved"]
  <2>1. d \in Draft /\ Credible(d)
    BY <1>0 DEF Draft, FundingStatuses, Credible
  <2>2. draft' = d /\ OnlyDraft /\ Become(r, AfterOverview(requests[r], FALSE))
        /\ requests[r].pc \in OverviewSteps
    BY <1>1 DEF SaveApproved, At, OverviewSteps
  <2> HIDE DEF d
  <2> QED BY <1>0, <2>1, <2>2, AfterOverviewSound, SavesInv
<1>2. CASE SavePromoted(r)
  <2> DEFINE d == [draft EXCEPT !.fs = "funded", !.es = "verified", !.pub = "ready-to-publish",
                            !.tx = TRUE, !.hash = TRUE, !.event = TRUE]
  <2>1. requests[r].pc = "savePromoted" /\ fundCall.state = "MINED" /\ escrow # None
    BY <1>0, <1>2 DEF SavePromoted, At, Sound, Consistent
  <2>2. d \in Draft /\ d.pub = "ready-to-publish"
    BY <1>0 DEF Draft, FundingStatuses
  <2>3. draft' = d /\ OnlyDraft /\ Go(r, "recordPromoted")
    BY <1>2 DEF SavePromoted
  <2> HIDE DEF d
  <2>4. Credible(d)
    BY <2>1, <2>2 DEF Credible, HasHash
  <2> QED BY <2>1, <2>2, <2>3, <2>4, GoOverview, SavesInv DEF Go, OverviewSteps
<1>3. CASE RecordPromoted(r)
  <2>1. requests[r].pc = "recordPromoted" /\ escrow # None /\ requests[r].pc \in OverviewSteps
    BY <1>0, <1>3 DEF RecordPromoted, At, Sound, Consistent, OverviewSteps
  <2>2. PICK q : q = AfterOverview(requests[r], FALSE)
    OBVIOUS
  <2>3. q \in RequestLocals /\ Sound(q)
    BY <1>0, <2>1, <2>2, AfterOverviewSound
  <2>4. Progress
    BY <1>0, <1>3 DEF RecordPromoted, outside, Progress, HasHash
  <2>5. Sound(q)'
    BY <2>3, <2>4, SoundStays
  <2> QED BY <1>3, <2>1, <2>2, <2>3, <2>5, RecordsInv DEF RecordPromoted
<1> QED BY <1>1, <1>2, <1>3

-----------------------------------------------------------------------------
\* Some requests move at once, and nothing else does.
LEMMA MovesInv ==
  ASSUME Inv, requests' \in [Requests -> RequestLocals], OnlyRequests, UNCHANGED started,
         \A r \in Requests : Sound(requests'[r])
  PROVE  Inv'
<1>1. Progress /\ Rest'
  BY DEF Inv, OnlyRequests, attempts, outside, Progress, Rest, Consistent, Credible, HasHash
<1>2. ASSUME NEW r \in Requests PROVE Sound(requests[r])'
  <2>1. PICK q : q = requests'[r]
    OBVIOUS
  <2>2. Sound(q)'
    BY <1>1, <2>1, SoundStays
  <2> QED BY <2>1, <2>2
<1> QED BY <1>1, <1>2 DEF Inv

\* What the chain says of a credible draft.
LEMMA VerificationBorne ==
  ASSUME Inv, NEW d \in Draft, Credible(d)
  PROVE  Verification(d) \in Result /\ Borne(Verification(d))
<1> DEFINE v == Verification(d)
<1>1. /\ v.funded = (escrow # None) /\ v.verified = FundedAs(d)
      /\ v.hash = (d.hash \/ escrow # None) /\ v.event = (escrow # None)
  BY DEF Verification
<1>2. /\ d.hash \in BOOLEAN /\ d.appr \in BOOLEAN /\ d.amount \in Amounts /\ d.dates \in Dates
      /\ d.amount \in Nat /\ allowance \in Nat
  BY FundingConstants DEF FundingConstants, Draft, Inv, Rest
<1>3. /\ (allowance >= d.amount) \in BOOLEAN
      /\ FundedAs(d) \in BOOLEAN
  BY <1>2, SMT DEF FundedAs
<1>4. v \in Result
  <2>1. /\ (escrow # None) \in BOOLEAN /\ (d.hash \/ escrow # None) \in BOOLEAN
        /\ (d.appr \/ allowance >= d.amount) \in BOOLEAN
    BY <1>2, <1>3, Zenon
  <2> QED BY <1>2, <1>3, <2>1, Zenon DEF Verification, Result
<1>5. FundedAs(d) => escrow # None
  BY <1>2, FundingConstants DEF FundingConstants, FundedAs
<1>6. d.hash \/ escrow # None => HasHash
  BY DEF Credible, Inv, Rest, Consistent, HasHash
<1> HIDE DEF v
<1>7. Borne(v)
  BY <1>1, <1>5, <1>6 DEF Borne
<1> QED BY <1>4, <1>7 DEF v

\* A request begins to read, or waits for one that does.
LEMMA StartVerificationInv ==
  ASSUME Inv, NEW r \in Requests, StartVerification(r), UNCHANGED started
  PROVE  Inv'
<1>0. /\ requests[r] \in RequestLocals /\ Sound(requests[r]) /\ started' \in 0..MaxRequests
      /\ requests[r].pc = "verify" /\ OnlyRequests
  BY DEF Inv, Rest, StartVerification, At
<1>1. "readChain" \in Steps /\ "await" \in Steps
  BY DEF Steps
<1>2. CASE Become(r, [requests[r] EXCEPT !.pc = "readChain", !.inner = Read])
  <2>1. PICK d \in Draft : d = Read /\ Credible(d)
    BY ReadGood
  <2> DEFINE q == [requests[r] EXCEPT !.pc = "readChain", !.inner = d]
  <2>2. /\ q \in RequestLocals /\ q.pc = "readChain" /\ q.kind = requests[r].kind
        /\ q.draft = requests[r].draft /\ q.inner = d /\ q.leader = requests[r].leader
    BY <1>0, <1>1 DEF RequestLocals
  <2>3. Become(r, q)
    BY <1>2, <2>1
  <2> HIDE DEF q
  <2>4. Sound(q)
    BY <1>0, <2>1, <2>2
       DEF Sound, NeedsDraft, NeedsInner, NeedsResult, OverviewSteps, ReconcileSteps, ApprovalSteps
  <2> QED BY <1>0, <2>2, <2>3, <2>4, ReadsInv
<1>3. ASSUME NEW l \in Requests, Become(r, [requests[r] EXCEPT !.pc = "await", !.leader = l])
      PROVE  Inv'
  <2> DEFINE q == [requests[r] EXCEPT !.pc = "await", !.leader = l]
  <2>2. /\ q \in RequestLocals /\ q.pc = "await" /\ q.kind = requests[r].kind
        /\ q.draft = requests[r].draft
    BY <1>0, <1>1 DEF RequestLocals
  <2>3. Become(r, q)
    BY <1>3
  <2> HIDE DEF q
  <2>4. Sound(q)
    BY <1>0, <2>2
       DEF Sound, NeedsDraft, NeedsInner, NeedsResult, OverviewSteps, ReconcileSteps, ApprovalSteps
  <2> QED BY <1>0, <2>2, <2>3, <2>4, ReadsInv
<1> QED BY <1>2, <1>3 DEF StartVerification

\* Every request that waited gets the same answer.
LEMMA ReadChainInv ==
  ASSUME Inv, NEW r \in Requests, ReadChain(r), UNCHANGED started
  PROVE  Inv'
<1>1. PICK d \in Draft : d = requests[r].inner /\ Credible(d)
  BY DEF Inv, Sound, ReadChain, At, NeedsInner
<1>2. PICK v \in Result : v = Verification(d) /\ Borne(v)
  BY <1>1, VerificationBorne
<1> DEFINE fund(q) == [q EXCEPT !.pc = "decide", !.inner = None, !.leader = None, !.result = v]
           other(q) == [q EXCEPT !.pc = "saveVerified", !.inner = d, !.leader = None, !.result = v]
           found(q) == IF q.kind = "fund" THEN fund(q) ELSE other(q)
<1>3. "decide" \in Steps /\ "saveVerified" \in Steps
  BY DEF Steps
<1>4. ASSUME NEW q \in RequestLocals, Sound(q), q.pc \in {"readChain", "await"}
      PROVE  found(q) \in RequestLocals /\ Sound(found(q))
  <2>1. CASE q.kind = "fund"
    <3>1. /\ fund(q) \in RequestLocals /\ fund(q).pc = "decide" /\ fund(q).kind = q.kind
          /\ fund(q).draft = q.draft /\ fund(q).result = v /\ fund(q).leader = None
      BY <1>3 DEF RequestLocals
    <3>2. q.draft \in Draft /\ Credible(q.draft)
      BY <1>4, <2>1 DEF Sound, NeedsDraft
    <3> HIDE DEF fund
    <3>3. Sound(fund(q))
      BY <1>2, <2>1, <3>1, <3>2
         DEF Sound, NeedsDraft, NeedsInner, NeedsResult, OverviewSteps, ReconcileSteps, ApprovalSteps
    <3> QED BY <2>1, <3>1, <3>3
  <2>2. CASE q.kind # "fund"
    <3>1. /\ other(q) \in RequestLocals /\ other(q).pc = "saveVerified" /\ other(q).kind = q.kind
          /\ other(q).inner = d /\ other(q).result = v /\ other(q).leader = None
      BY <1>3 DEF RequestLocals
    <3> HIDE DEF other
    <3>3. Sound(other(q))
      BY <1>1, <1>2, <2>2, <3>1
         DEF Sound, NeedsDraft, NeedsInner, NeedsResult, OverviewSteps, ReconcileSteps, ApprovalSteps
    <3> QED BY <2>2, <3>1, <3>3
  <2> QED BY <2>1, <2>2
<1>5. /\ requests' = [p \in Requests |->
           IF p = r \/ requests[p].leader = r THEN found(requests[p]) ELSE requests[p]]
      /\ OnlyRequests /\ requests[r].pc = "readChain"
  BY <1>1, <1>2 DEF ReadChain, At, OnlyRequests, attempts
<1> HIDE DEF found
<1>6. ASSUME NEW p \in Requests
      PROVE  requests'[p] \in RequestLocals /\ Sound(requests'[p])
  <2>1. requests[p] \in RequestLocals /\ Sound(requests[p])
    BY DEF Inv
  <2>2. p = r \/ requests[p].leader = r => requests[p].pc \in {"readChain", "await"}
    BY <1>5, <2>1, FundingConstants DEF FundingConstants, Sound
  <2> QED BY <1>4, <1>5, <2>1, <2>2
<1> QED BY <1>5, <1>6, MovesInv

\* What comes after the verification has been saved.
LEMMA AfterVerifiedSound ==
  ASSUME NEW q \in RequestLocals, Sound(q), q.pc \in {"saveVerified", "saveRecord"}
  PROVE  /\ AfterVerified(q) \in RequestLocals
         /\ \/ Sound(AfterVerified(q))
            \/ /\ AfterVerified(q) = [Idle EXCEPT !.pc = "goLive", !.kind = "publish"]
               /\ q.result.verified
<1> DEFINE live == [Idle EXCEPT !.pc = "goLive", !.kind = "publish"]
           restored == [q EXCEPT !.pc = "readRestored", !.inner = None]
           pending == [Idle EXCEPT !.pc = "markPending", !.kind = "reconcile",
                                   !.outcome = q.outcome]
<1>1. /\ AfterVerified(q) \in {live, restored, pending, Overview("reconcile"), Idle}
      /\ AfterVerified(q) = live => q.result.verified \/ live \in {restored, pending, Overview("reconcile"), Idle}
  BY Zenon DEF AfterVerified
<1>2. live \in RequestLocals
  BY DEF Idle, RequestLocals, Steps, AllKinds
<1>3. "readRestored" \in Steps
  BY DEF Steps
<1>4. /\ restored \in RequestLocals /\ restored.pc = "readRestored" /\ restored.kind = q.kind
      /\ restored.result = q.result /\ restored.leader = q.leader
  BY <1>3 DEF RequestLocals
<1>5. /\ pending \in RequestLocals /\ pending.pc = "markPending" /\ pending.kind = "reconcile"
      /\ pending.leader = None
  <2>1. q.outcome \in {None, "none", "id", "tx", "hash", "granted", "active"}
    BY DEF RequestLocals
  <2> QED BY <2>1 DEF Idle, RequestLocals, Steps, AllKinds
<1> HIDE DEF live, restored, pending
<1>6. Sound(restored) /\ Sound(pending)
  BY <1>4, <1>5 DEF Sound, NeedsDraft, NeedsInner, NeedsResult, OverviewSteps, ReconcileSteps, ApprovalSteps
<1> QED BY <1>1, <1>2, <1>4, <1>5, <1>6, OverviewSound, IdleSound DEF live

\* The verification is written to the draft.
LEMMA SaveVerifiedInv ==
  ASSUME Inv, NEW r \in Requests, SaveVerified(r), UNCHANGED started
  PROVE  Inv'
<1> DEFINE q == requests[r]
<1>1. /\ q \in RequestLocals /\ Sound(q) /\ q.pc = "saveVerified" /\ OnlyDraft
      /\ draft \in Draft /\ Credible(draft)
  BY DEF Inv, Rest, SaveVerified, At
<1>2. PICK d \in Draft, v \in Result : d = q.inner /\ v = q.result /\ Credible(d) /\ Borne(v)
  BY <1>1 DEF Sound, NeedsInner, NeedsResult
<1> DEFINE new == [draft EXCEPT
                  !.appr = v.appr, !.hash = v.hash, !.event = v.event \/ d.event,
                  !.fs = IF v.verified THEN "funded" ELSE d.fs,
                  !.es = IF v.verified THEN "verified" ELSE d.es,
                  !.dates = IF v.verified THEN d.dates ELSE @,
                  !.pub = IF v.verified THEN "ready-to-publish" ELSE @]
<1>3. draft' \in {draft, new}
  BY <1>2 DEF SaveVerified
<1>4. new \in Draft /\ Credible(new)
  <2>0. /\ v.appr \in BOOLEAN /\ v.hash \in BOOLEAN /\ d.fs \in FundingStatuses
        /\ "funded" \in FundingStatuses
        /\ d.es \in {"not-created", "pending", "locked", "verified"} /\ d.dates \in Dates
    BY DEF Result, Draft, FundingStatuses
  <2>1. PICK e \in BOOLEAN : e = (v.event \/ d.event)
    <3>1. (v.event \/ d.event) \in BOOLEAN
      BY Zenon
    <3> QED BY <3>1, Zenon
  <2>2. CASE v.verified
    <3>1. new = [draft EXCEPT !.appr = v.appr, !.hash = v.hash, !.event = e, !.fs = "funded",
                              !.es = "verified", !.dates = d.dates, !.pub = "ready-to-publish"]
      BY <2>1, <2>2
    <3>2. new \in Draft
      <4> HIDE DEF new
      <4> QED BY <1>1, <2>0, <3>1 DEF Draft
    <3> QED BY <1>1, <1>2, <2>2, <3>1, <3>2 DEF Draft, Credible, Borne
  <2>3. CASE ~v.verified
    <3>1. new = [draft EXCEPT !.appr = v.appr, !.hash = v.hash, !.event = e, !.fs = d.fs,
                              !.es = d.es]
      BY <1>1, <2>1, <2>3 DEF Draft
    <3>2. new \in Draft
      <4> HIDE DEF new
      <4> QED BY <1>1, <2>0, <3>1 DEF Draft
    <3>3. new.pub = draft.pub /\ new.es = d.es /\ new.event = e /\ new.hash = v.hash
      BY <1>1, <3>1 DEF Draft
    <3> HIDE DEF new
    <3> QED BY <1>1, <1>2, <2>1, <3>2, <3>3 DEF Credible, Borne
  <2> QED BY <2>2, <2>3
<1> HIDE DEF new
<1>5. CASE v.verified
  <2>0. "saveRecord" \in Steps
    BY DEF Steps
  <2> DEFINE n == [q EXCEPT !.pc = "saveRecord"]
  <2>1. Become(r, n)
    BY <1>2, <1>5 DEF SaveVerified, Go
  <2>2. /\ n \in RequestLocals /\ n.pc = "saveRecord" /\ n.kind = q.kind /\ n.result = v
        /\ n.leader = q.leader
    BY <1>1, <1>2, <2>0 DEF RequestLocals
  <2> HIDE DEF n, q
  <2>3. Sound(n)
    BY <1>1, <1>2, <1>5, <2>2
       DEF Sound, NeedsDraft, NeedsInner, NeedsResult, OverviewSteps, ReconcileSteps, ApprovalSteps
  <2> QED BY <1>1, <1>3, <1>4, <2>1, <2>2, <2>3, SavesInv
<1>6. CASE ~v.verified
  <2>1. Become(r, AfterVerified(q))
    BY <1>2, <1>6 DEF SaveVerified
  <2>2. AfterVerified(q) \in RequestLocals /\ Sound(AfterVerified(q))
    BY <1>1, <1>2, <1>6, AfterVerifiedSound
  <2> HIDE DEF q
  <2> QED BY <1>1, <1>3, <1>4, <2>1, <2>2, SavesInv
<1> QED BY <1>5, <1>6

\* Then the record of it; only with the record does a challenge go live.
LEMMA SaveRecordInv ==
  ASSUME Inv, NEW r \in Requests, SaveRecord(r), UNCHANGED started
  PROVE  Inv'
<1>1. /\ requests[r] \in RequestLocals /\ Sound(requests[r]) /\ requests[r].pc = "saveRecord"
  BY DEF Inv, SaveRecord, At
<1>2. escrow # None
  BY <1>1 DEF Sound, NeedsResult, Borne
<1>3. PICK q : q = AfterVerified(requests[r])
  OBVIOUS
<1>4. q \in RequestLocals
  BY <1>1, <1>3, AfterVerifiedSound
<1>5. Progress
  BY DEF SaveRecord, outside, Progress, HasHash
<1>6. Sound(q)'
  <2>1. CASE Sound(q)
    BY <1>5, <2>1, SoundStays
  <2>2. CASE q = [Idle EXCEPT !.pc = "goLive", !.kind = "publish"]
    <3>1. q.pc = "goLive" /\ q.kind = "publish" /\ q.leader = None
      BY <2>2 DEF Idle
    <3> QED BY <3>1 DEF SaveRecord, Sound, NeedsDraft, NeedsInner, NeedsResult, OverviewSteps, ReconcileSteps,
                        ApprovalSteps
  <2> QED BY <1>1, <1>3, <2>1, <2>2, AfterVerifiedSound
<1> QED BY <1>2, <1>3, <1>4, <1>6, RecordsInv DEF SaveRecord

-----------------------------------------------------------------------------
\* A request that keeps its locals and goes on to a step that needs few of them.
LEMMA GoSound ==
  ASSUME Inv, NEW r \in Requests, requests[r].pc # "await",
         NEW step \in {"markFunding", "markApproval", "lookup", "markReconciled", "verify"},
         step \in ReconcileSteps \cup {"verify"} => requests[r].kind = "reconcile",
         step = "lookup" => fundCall.state # "ABSENT",
         step = "markReconciled" /\ requests[r].outcome = "hash" => HasHash
  PROVE  [requests[r] EXCEPT !.pc = step] \in RequestLocals
         /\ Sound([requests[r] EXCEPT !.pc = step])
<1> DEFINE q == [requests[r] EXCEPT !.pc = step]
<1>1. requests[r] \in RequestLocals /\ Sound(requests[r]) /\ step \in Steps
  BY DEF Inv, Steps
<1>2. /\ q \in RequestLocals /\ q.pc = step /\ q.kind = requests[r].kind
      /\ q.outcome = requests[r].outcome /\ q.leader = requests[r].leader
  BY <1>1 DEF RequestLocals
<1> HIDE DEF q
<1>3. Sound(q)
  BY <1>1, <1>2
     DEF Sound, NeedsDraft, NeedsInner, NeedsResult, OverviewSteps, ReconcileSteps, ApprovalSteps
<1> QED BY <1>2, <1>3 DEF q

\* A request that starts, or starts over, with its kind only.
LEMMA FreshSound ==
  ASSUME NEW kind \in AllKinds,
         NEW step \in {"verify", "goLive", "persistFunding", "persist", "persistApproval", "preflight"},
         step = "verify" => kind # "fund",
         step = "preflight" => kind # "approve",
         step = "persist" => kind = "reconcile",
         step = "goLive" => record,
         step \in {"persistFunding", "persist"} => fundCall.state # "ABSENT"
  PROVE  [Idle EXCEPT !.pc = step, !.kind = kind] \in RequestLocals
         /\ Sound([Idle EXCEPT !.pc = step, !.kind = kind])
<1> DEFINE q == [Idle EXCEPT !.pc = step, !.kind = kind]
<1>1. step \in Steps
  BY DEF Steps
<1>2. q \in RequestLocals /\ q.pc = step /\ q.kind = kind /\ q.leader = None
  BY <1>1 DEF RequestLocals, Idle
<1> HIDE DEF q
<1>3. Sound(q)
  BY <1>2
     DEF Sound, NeedsDraft, NeedsInner, NeedsResult, OverviewSteps, ReconcileSteps, ApprovalSteps
<1> QED BY <1>2, <1>3 DEF q

\* A request goes live with evidence it trusts or after verifying for itself.
LEMMA PublishInv ==
  ASSUME Inv, NEW r \in Requests, ReadEvidence(r) \/ GoLive(r), UNCHANGED started
  PROVE  Inv'
<1>0. /\ requests[r] \in RequestLocals /\ Sound(requests[r]) /\ started' \in 0..MaxRequests
      /\ draft \in Draft /\ Credible(draft) /\ Consistent
  BY DEF Inv, Rest
<1>1. CASE ReadEvidence(r)
  <2>1. OnlyRequests
    BY <1>1 DEF ReadEvidence
  <2>2. \/ Finish(r)
        \/ Become(r, [Idle EXCEPT !.pc = "verify", !.kind = "publish"])
        \/ (record /\ Become(r, [Idle EXCEPT !.pc = "goLive", !.kind = "publish"]))
    BY <1>1 DEF ReadEvidence, Trusted, Finish, Idle
  <2>3. "publish" \in AllKinds
    BY DEF AllKinds
  <2>4. CASE Finish(r)
    BY <2>1, <2>4, FinishInv
  <2>5. CASE Become(r, [Idle EXCEPT !.pc = "verify", !.kind = "publish"])
    BY <1>0, <2>1, <2>3, <2>5, FreshSound, ReadsInv
  <2>6. CASE record /\ Become(r, [Idle EXCEPT !.pc = "goLive", !.kind = "publish"])
    BY <1>0, <2>1, <2>3, <2>6, FreshSound, ReadsInv
  <2> QED BY <2>2, <2>4, <2>5, <2>6
<1>2. CASE GoLive(r)
  <2> DEFINE d == [draft EXCEPT !.fs = "live", !.es = "verified", !.event = TRUE, !.pub = "live"]
  <2>1. record /\ escrow # None
    BY <1>0, <1>2 DEF GoLive, At, Sound, Consistent
  <2>2. d \in Draft /\ d.hash = draft.hash
    BY <1>0 DEF Draft, FundingStatuses
  <2>3. draft' = d /\ OnlyDraft /\ Become(r, Idle)
    BY <1>2 DEF GoLive, Finish
  <2> HIDE DEF d
  <2>4. Credible(d)
    BY <1>0, <2>1, <2>2 DEF Credible
  <2> QED BY <2>2, <2>3, <2>4, IdleSound, SavesInv
<1> QED BY <1>1, <1>2

-----------------------------------------------------------------------------
\* What Circle answers about the challenge to fund.
LEMMA PersistedGood ==
  ASSUME Inv, NEW status \in AttemptStatuses, NEW a \in Persisted(status)
  PROVE  a \in FundingAttempt /\ (a.hash => HasHash)
<1>1. HasTx \in BOOLEAN /\ HasHash \in BOOLEAN
  BY DEF HasTx, HasHash
<1>2. PICK t \in BOOLEAN, h \in BOOLEAN : t = HasTx /\ h = HasHash
  BY <1>1
<1>3. /\ a \in {[status |-> "PENDING", tx |-> FALSE, hash |-> FALSE],
                [status |-> status, tx |-> t, hash |-> FALSE],
                [status |-> status, tx |-> t, hash |-> h]}
      /\ "PENDING" \in AttemptStatuses
  BY <1>2 DEF Persisted, AttemptStatuses
<1>4. a \in FundingAttempt
  <2>1. \A s \in AttemptStatuses, x, y \in BOOLEAN : [status |-> s, tx |-> x, hash |-> y] \in FundingAttempt
    BY DEF FundingAttempt
  <2> QED BY <1>3, <2>1, Zenon
<1>5. a.hash = FALSE \/ a.hash = h
  BY <1>3
<1> QED BY <1>2, <1>4, <1>5

LEMMA CircleStatusType == ASSUME NEW call PROVE CircleStatus(call) \in AttemptStatuses
<1>1. CircleStatus(call) \in {"PENDING", "FAILED", "COMPLETE"}
  BY Zenon DEF CircleStatus
<1> QED BY <1>1 DEF AttemptStatuses

\* An active attempt is resumed with the draft that was read.
LEMMA ResumeFundingInv ==
  ASSUME Inv, NEW r \in Requests, ResumeFunding(r), UNCHANGED started
  PROVE  Inv'
<1>1. PICK d \in Draft : d = requests[r].draft /\ Credible(d)
  BY DEF Inv, ResumeFunding, At, Sound, NeedsDraft
<1> DEFINE new == [draft EXCEPT !.fs = "funding-pending", !.tx = d.tx, !.hash = d.hash]
<1>2. draft \in Draft /\ Credible(draft) /\ d.tx \in BOOLEAN /\ d.hash \in BOOLEAN
  BY DEF Inv, Rest, Draft
<1>3. /\ new \in Draft /\ new.pub = draft.pub /\ new.es = draft.es /\ new.event = draft.event
      /\ new.hash = d.hash
  BY <1>2 DEF Draft, FundingStatuses
<1>4. draft' = new /\ OnlyDraft /\ Become(r, Overview("fund"))
  BY <1>1 DEF ResumeFunding
<1> HIDE DEF new
<1>5. Credible(new)
  BY <1>1, <1>2, <1>3 DEF Credible
<1> QED BY <1>3, <1>4, <1>5, OverviewSound, SavesInv

\* A challenge that is funded already is marked so; otherwise Circle is asked.
LEMMA DecideFundingInv ==
  ASSUME Inv, NEW r \in Requests, DecideFunding(r), UNCHANGED started
  PROVE  Inv'
<1> DEFINE q == requests[r]
<1>1. /\ q \in RequestLocals /\ Sound(q) /\ q.pc = "decide" /\ OnlyDraft
      /\ draft \in Draft /\ Credible(draft)
  BY DEF Inv, Rest, DecideFunding, At
<1>2. PICK d \in Draft, v \in Result : d = q.draft /\ v = q.result /\ Credible(d) /\ Borne(v)
  BY <1>1 DEF Sound, NeedsDraft, NeedsResult
<1>3. /\ v.hash \in BOOLEAN /\ v.event \in BOOLEAN /\ d.hash \in BOOLEAN /\ d.event \in BOOLEAN
      /\ d.fs \in FundingStatuses /\ "funded" \in FundingStatuses
      /\ d.es \in {"not-created", "pending", "locked", "verified"}
  BY DEF Result, Draft, FundingStatuses
<1> DEFINE new == [draft EXCEPT !.fs = IF v.verified THEN "funded" ELSE d.fs,
                                !.es = IF v.verified THEN "verified" ELSE d.es,
                                !.hash = v.hash \/ d.hash, !.event = v.event \/ d.event,
                                !.pub = IF v.verified THEN "ready-to-publish" ELSE @]
           asks == [q EXCEPT !.pc = "createFunding", !.result = None]
<1>4. \/ draft' = new /\ Finish(r)
      \/ draft' = draft /\ (Finish(r) \/ Become(r, asks))
  BY <1>2 DEF DecideFunding
<1>5. new \in Draft /\ Credible(new)
  <2>1. PICK e \in BOOLEAN, h \in BOOLEAN : e = (v.event \/ d.event) /\ h = (v.hash \/ d.hash)
    <3>1. (v.event \/ d.event) \in BOOLEAN /\ (v.hash \/ d.hash) \in BOOLEAN
      BY Zenon
    <3> QED BY <3>1, Zenon
  <2>2. CASE v.verified
    <3>1. new = [draft EXCEPT !.fs = "funded", !.es = "verified", !.hash = h, !.event = e,
                              !.pub = "ready-to-publish"]
      BY <2>1, <2>2
    <3>2. new \in Draft /\ new.pub = "ready-to-publish" /\ new.hash = h
      <4> HIDE DEF new
      <4> QED BY <1>1, <1>3, <3>1 DEF Draft
    <3> HIDE DEF new
    <3> QED BY <1>2, <2>1, <2>2, <3>2 DEF Credible, Borne
  <2>3. CASE ~v.verified
    <3>1. new = [draft EXCEPT !.fs = d.fs, !.es = d.es, !.hash = h, !.event = e]
      BY <1>1, <2>1, <2>3 DEF Draft
    <3>2. /\ new \in Draft /\ new.pub = draft.pub /\ new.es = d.es /\ new.event = e
          /\ new.hash = h
      <4> HIDE DEF new
      <4> QED BY <1>1, <1>3, <3>1 DEF Draft
    <3> HIDE DEF new
    <3> QED BY <1>1, <1>2, <2>1, <3>2 DEF Credible, Borne
  <2> QED BY <2>2, <2>3
<1>6. asks \in RequestLocals /\ Sound(asks)
  <2>0. "createFunding" \in Steps
    BY DEF Steps
  <2>1. /\ asks \in RequestLocals /\ asks.pc = "createFunding" /\ asks.draft = q.draft
        /\ asks.leader = q.leader
    BY <1>1, <2>0 DEF RequestLocals
  <2> HIDE DEF asks, q
  <2>2. Sound(asks)
    BY <1>1, <1>2, <2>1
       DEF Sound, NeedsDraft, NeedsInner, NeedsResult, OverviewSteps, ReconcileSteps, ApprovalSteps
  <2> QED BY <2>1, <2>2
<1> HIDE DEF new, asks
<1> QED BY <1>1, <1>4, <1>5, <1>6, IdleSound, SavesInv DEF Finish

\* Circle makes the challenge once, for the terms of a draft.
LEMMA CreateFundingInv ==
  ASSUME Inv, NEW r \in Requests, CreateFunding(r), UNCHANGED started
  PROVE  Inv'
<1>1. PICK d \in Draft : d = requests[r].draft
  BY DEF Inv, CreateFunding, At, Sound, NeedsDraft
<1>2. PICK terms \in Terms : fundCall' = WithCall(fundCall, terms)
  BY <1>1 DEF CreateFunding, Draft, Terms
<1>3. /\ fundCall'.state # "ABSENT" /\ fundCall'.terms \in Terms
      /\ fundCall' \in [state : CallStates, terms : Terms \cup {None}]
      /\ fundCall.state # "ABSENT" => fundCall' = fundCall
      /\ fundCall.state = "ABSENT" => fundCall'.state = "CREATED"
  BY <1>2 DEF WithCall, Inv, Rest, Consistent, CallStates
<1>4. UNCHANGED <<draft, record, fundAttempt, apprAttempt, apprCall, allowance, escrow>>
  BY DEF CreateFunding, attempts
<1>5. Rest'
  BY <1>3, <1>4 DEF Inv, Rest, Consistent, Credible, HasHash
<1>6. Progress
  BY <1>3, <1>4 DEF Progress, HasHash
<1> DEFINE q == [Idle EXCEPT !.pc = "persistFunding", !.kind = "fund"]
<1>7. q \in RequestLocals /\ q.pc = "persistFunding" /\ q.kind = "fund" /\ q.leader = None
  BY DEF Idle, RequestLocals, Steps, AllKinds
<1>8. Become(r, q)
  BY DEF CreateFunding
<1> HIDE DEF q
<1>9. PICK n : n = q
  OBVIOUS
<1>10. Sound(n)'
  BY <1>3, <1>7, <1>9
     DEF Sound, NeedsDraft, NeedsInner, NeedsResult, OverviewSteps, ReconcileSteps, ApprovalSteps
<1> QED BY <1>5, <1>6, <1>7, <1>8, <1>9, <1>10, MovesTo

\* The attempt is stored, and the draft marked.
LEMMA MarkFundingInv ==
  ASSUME Inv, NEW r \in Requests, PersistFunding(r) \/ MarkFunding(r), UNCHANGED started
  PROVE  Inv'
<1>1. CASE PersistFunding(r)
  <2>1. requests[r].pc = "persistFunding" /\ fundCall.state # "ABSENT"
    BY <1>1 DEF Inv, Sound, PersistFunding, At
  <2>2. PICK a \in FundingAttempt : fundAttempt' = a /\ (a.hash => HasHash)
    BY <1>1, PersistedGood DEF PersistFunding, AttemptStatuses
  <2> QED BY <1>1, <2>1, <2>2, GoSound, AttemptsInv DEF PersistFunding, Go, ReconcileSteps
<1>2. CASE MarkFunding(r)
  <2> DEFINE d == [draft EXCEPT !.fs = "funding-pending"]
  <2>1. d \in Draft /\ Credible(d)
    BY DEF Inv, Rest, Draft, FundingStatuses, Credible
  <2>2. draft' = d /\ OnlyDraft /\ Become(r, Overview("fund"))
    BY <1>2 DEF MarkFunding
  <2> HIDE DEF d
  <2> QED BY <2>1, <2>2, OverviewSound, SavesInv
<1> QED BY <1>1, <1>2

-----------------------------------------------------------------------------
\* The attempt becomes what Circle says of the challenge.
LEMMA PersistReconciledInv ==
  ASSUME Inv, NEW r \in Requests, PersistReconciled(r) \/ PersistComplete(r), UNCHANGED started
  PROVE  Inv'
<1>0. requests[r] \in RequestLocals /\ Sound(requests[r]) /\ Consistent
  BY DEF Inv, Rest
<1>1. CASE PersistReconciled(r)
  <2>1. /\ requests[r].pc = "persist" /\ fundCall.state # "ABSENT"
        /\ requests[r].kind = "reconcile"
    BY <1>0, <1>1 DEF Sound, ReconcileSteps, PersistReconciled, At
  <2>2. PICK a \in FundingAttempt : fundAttempt' = a /\ (a.hash => HasHash)
    BY <1>1, PersistedGood, CircleStatusType DEF PersistReconciled
  <2> QED BY <1>1, <2>1, <2>2, GoSound, AttemptsInv DEF PersistReconciled, Go
<1>2. CASE PersistComplete(r)
  <2>1. /\ requests[r].pc = "persistComplete" /\ requests[r].kind = "reconcile"
        /\ requests[r].outcome = "hash" => HasHash
        /\ fundCall.state # "ABSENT"
    BY <1>0, <1>2 DEF Sound, ReconcileSteps, PersistComplete, At
  <2>2. PICK h \in BOOLEAN : /\ fundAttempt' = [status |-> "COMPLETE", tx |-> TRUE, hash |-> h]
                             /\ h => HasHash
    <3>1. (requests[r].outcome = "hash") \in BOOLEAN /\ HasHash \in BOOLEAN
      BY DEF HasHash
    <3>2. PICK h \in {requests[r].outcome = "hash", HasHash} :
            fundAttempt' = [status |-> "COMPLETE", tx |-> TRUE, hash |-> h]
      BY <1>2 DEF PersistComplete
    <3> QED BY <2>1, <3>1, <3>2, Zenon
  <2>3. [status |-> "COMPLETE", tx |-> TRUE, hash |-> h] \in FundingAttempt
    BY DEF FundingAttempt, AttemptStatuses
  <2> QED BY <1>2, <2>1, <2>2, <2>3, GoSound, AttemptsInv DEF PersistComplete, Go
<1> QED BY <1>1, <1>2

\* What Circle knows of the transaction.
LEMMA LookupInv ==
  ASSUME Inv, NEW r \in Requests, Lookup(r), UNCHANGED started
  PROVE  Inv'
<1>1. /\ requests[r] \in RequestLocals /\ Sound(requests[r]) /\ requests[r].pc = "lookup"
      /\ fundCall.state # "ABSENT" /\ requests[r].kind = "reconcile" /\ requests[r].leader = None
      /\ OnlyRequests /\ started' \in 0..MaxRequests /\ fundCall.state \in CallStates
  BY DEF Inv, Rest, Lookup, At, Sound, ReconcileSteps
<1>2. Lookups \subseteq {"none", "id", "tx", "hash"} /\ ("hash" \in Lookups => HasHash)
  <2>1. CASE fundCall.state \in {"CREATED", "DENIED"}
    BY <2>1, Zenon DEF Lookups
  <2>2. CASE fundCall.state = "SIGNED"
    <3>1. Lookups = {"none", "id", "tx"}
      <4>1. fundCall.state \notin {"CREATED", "DENIED"}
        BY <2>2
      <4> QED BY <2>2, <4>1, Zenon DEF Lookups
    <3> QED BY <3>1
  <2>3. CASE fundCall.state \in {"SENT", "MINED", "REVERTED"}
    <3>1. Lookups = {"id", "hash"}
      <4>1. fundCall.state \notin {"CREATED", "DENIED"} /\ fundCall.state # "SIGNED"
        BY <2>3
      <4> QED BY <4>1, Zenon DEF Lookups
    <3> QED BY <2>3, <3>1 DEF HasHash
  <2> QED BY <1>1, <2>1, <2>2, <2>3 DEF CallStates
<1> DEFINE q(found) == [requests[r] EXCEPT !.outcome = found,
                    !.pc = IF found \in {"none", "id"} THEN "verify" ELSE "persistComplete"]
<1>3. PICK found \in Lookups : Become(r, q(found))
  BY DEF Lookup
<1>4. PICK step \in {"verify", "persistComplete"} :
        step = IF found \in {"none", "id"} THEN "verify" ELSE "persistComplete"
  OBVIOUS
<1> DEFINE n == [requests[r] EXCEPT !.outcome = found, !.pc = step]
<1>5. q(found) = n
  BY <1>4
<1>6. step \in Steps /\ found \in {"none", "id", "tx", "hash"} /\ (found = "hash" => HasHash)
  BY <1>2, <1>3 DEF Steps
<1>7. /\ n \in RequestLocals /\ n.pc = step /\ n.outcome = found /\ n.kind = "reconcile"
      /\ n.leader = None
  BY <1>1, <1>6 DEF RequestLocals
<1> HIDE DEF n
<1>8. Sound(n)
  BY <1>1, <1>4, <1>6, <1>7
     DEF Sound, NeedsDraft, NeedsInner, NeedsResult, OverviewSteps, ReconcileSteps, ApprovalSteps
<1> QED BY <1>1, <1>3, <1>5, <1>7, <1>8, ReadsInv

\* The draft becomes what the lookup says, and is verified if there is a hash.
LEMMA MarkReconciledInv ==
  ASSUME Inv, NEW r \in Requests, MarkReconciled(r), UNCHANGED started
  PROVE  Inv'
<1>1. /\ requests[r] \in RequestLocals /\ Sound(requests[r]) /\ requests[r].pc = "markReconciled"
      /\ requests[r].kind = "reconcile" /\ OnlyDraft /\ draft \in Draft /\ Credible(draft)
      /\ requests[r].outcome = "hash" => HasHash
  BY DEF Inv, Rest, MarkReconciled, At, Sound, ReconcileSteps
<1>2. CASE requests[r].outcome = "hash"
  <2> DEFINE d == [draft EXCEPT !.tx = TRUE, !.hash = TRUE, !.fs = "funded", !.es = "locked"]
  <2>1. draft' = d /\ Go(r, "verify")
    BY <1>2 DEF MarkReconciled
  <2>2. /\ d \in Draft /\ d.pub = draft.pub /\ d.event = draft.event /\ d.es = "locked"
    BY <1>1 DEF Draft, FundingStatuses
  <2> HIDE DEF d
  <2>3. Credible(d)
    BY <1>1, <1>2, <2>2 DEF Credible
  <2> QED BY <1>1, <2>1, <2>2, <2>3, GoSound, SavesInv DEF Go
<1>3. CASE requests[r].outcome # "hash"
  <2> DEFINE d == [draft EXCEPT !.tx = TRUE, !.hash = FALSE, !.fs = "funding-pending",
                                !.es = "pending"]
  <2>1. draft' = d /\ Become(r, Overview("reconcile"))
    BY <1>3 DEF MarkReconciled
  <2>2. /\ d \in Draft /\ d.pub = draft.pub /\ d.event = draft.event /\ d.es = "pending"
        /\ d.hash = FALSE
    BY <1>1 DEF Draft, FundingStatuses
  <2> HIDE DEF d
  <2>3. Credible(d)
    BY <1>1, <2>2 DEF Credible
  <2> QED BY <1>1, <2>1, <2>2, <2>3, OverviewSound, SavesInv
<1> QED BY <1>2, <1>3

\* The draft is read again for what could not be verified.
LEMMA ReadRestoredInv ==
  ASSUME Inv, NEW r \in Requests, ReadRestored(r), UNCHANGED started
  PROVE  Inv'
<1>1. /\ requests[r] \in RequestLocals /\ Sound(requests[r]) /\ requests[r].pc = "readRestored"
      /\ OnlyRequests /\ started' \in 0..MaxRequests
  BY DEF Inv, Rest, ReadRestored, At
<1>2. PICK d \in Draft : d = Read /\ Credible(d)
  BY ReadGood
<1>3. "restore" \in Steps
  BY DEF Steps
<1> DEFINE q == [requests[r] EXCEPT !.pc = "restore", !.inner = d]
<1>4. Become(r, q)
  BY <1>2 DEF ReadRestored
<1>5. /\ q \in RequestLocals /\ q.pc = "restore" /\ q.inner = d /\ q.result = requests[r].result
      /\ q.leader = requests[r].leader
  BY <1>1, <1>3 DEF RequestLocals
<1> HIDE DEF q
<1>6. Sound(q)
  BY <1>1, <1>2, <1>5
     DEF Sound, NeedsDraft, NeedsInner, NeedsResult, OverviewSteps, ReconcileSteps, ApprovalSteps
<1> QED BY <1>1, <1>4, <1>5, <1>6, ReadsInv

\* It is written back with what the chain said.
LEMMA RestoreInv ==
  ASSUME Inv, NEW r \in Requests, Restore(r), UNCHANGED started
  PROVE  Inv'
<1> DEFINE q == requests[r]
<1>1. /\ q \in RequestLocals /\ Sound(q) /\ q.pc = "restore" /\ OnlyDraft
      /\ draft \in Draft
  BY DEF Inv, Rest, Restore, At
<1>2. PICK d \in Draft, v \in Result : d = q.inner /\ v = q.result /\ Credible(d) /\ Borne(v)
  BY <1>1 DEF Sound, NeedsInner, NeedsResult
<1>3. PICK a \in BOOLEAN, h \in BOOLEAN, e \in BOOLEAN :
        a = (v.appr \/ d.appr) /\ h = (v.hash \/ d.hash) /\ e = (v.event \/ d.event)
  <2>1. (v.appr \/ d.appr) \in BOOLEAN /\ (v.hash \/ d.hash) \in BOOLEAN
        /\ (v.event \/ d.event) \in BOOLEAN
    BY Zenon
  <2> QED BY <2>1, Zenon
<1>4. PICK fs \in {"approved", "ready"}, es \in {"locked", "not-created"} :
        /\ fs = IF v.allowance >= d.amount THEN "approved" ELSE "ready"
        /\ es = IF v.hash THEN "locked" ELSE "not-created"
  OBVIOUS
<1> DEFINE new == [draft EXCEPT !.appr = a, !.hash = h, !.event = e, !.fs = fs, !.es = es,
                                !.pub = "draft"]
<1>5. draft' = new
  BY <1>2, <1>3, <1>4 DEF Restore
<1>11. {"approved", "ready"} \subseteq FundingStatuses
  BY DEF FundingStatuses
<1>6. /\ new \in Draft /\ new.pub = "draft" /\ new.es = es /\ new.event = e /\ new.hash = h
  BY <1>1, <1>11 DEF Draft
<1> HIDE DEF new
<1>7. Credible(new)
  BY <1>2, <1>3, <1>4, <1>6 DEF Credible, Borne
<1> DEFINE n == [Idle EXCEPT !.pc = "markPending", !.kind = q.kind, !.outcome = q.outcome]
<1>8. Become(r, Overview("reconcile")) \/ Become(r, n)
  BY DEF Restore
<1>9. n \in RequestLocals /\ n.pc = "markPending" /\ n.leader = None
  <2>1. /\ q.outcome \in {None, "none", "id", "tx", "hash", "granted", "active"}
        /\ q.kind \in AllKinds \cup {None}
    BY <1>1 DEF RequestLocals
  <2> HIDE DEF q
  <2> QED BY <2>1 DEF Idle, RequestLocals, Steps
<1> HIDE DEF n
<1>10. Sound(n)
  BY <1>9
     DEF Sound, NeedsDraft, NeedsInner, NeedsResult, OverviewSteps, ReconcileSteps, ApprovalSteps
<1> QED BY <1>1, <1>5, <1>6, <1>7, <1>8, <1>9, <1>10, OverviewSound, SavesInv

\* And marked as pending.
LEMMA MarkPendingInv ==
  ASSUME Inv, NEW r \in Requests, MarkPending(r), UNCHANGED started
  PROVE  Inv'
<1>1. draft \in Draft /\ Credible(draft) /\ OnlyDraft /\ Become(r, Overview("reconcile"))
  BY DEF Inv, Rest, MarkPending
<1>2. PICK x \in BOOLEAN : x = (draft.tx \/ requests[r].outcome = "id")
  <2>1. (draft.tx \/ requests[r].outcome = "id") \in BOOLEAN
    BY Zenon
  <2> QED BY <2>1, Zenon
<1> DEFINE d == [draft EXCEPT !.fs = "funding-pending", !.es = "pending", !.tx = x]
<1>3. draft' = d
  BY <1>1, <1>2 DEF MarkPending, Draft
<1>4. /\ d \in Draft /\ d.pub = draft.pub /\ d.es = "pending" /\ d.event = draft.event
      /\ d.hash = draft.hash
  BY <1>1 DEF Draft, FundingStatuses
<1> HIDE DEF d
<1>5. Credible(d)
  BY <1>1, <1>4 DEF Credible
<1> QED BY <1>1, <1>3, <1>4, <1>5, OverviewSound, SavesInv

-----------------------------------------------------------------------------
\* Circle is asked about the approvals it made.
LEMMA AskApprovalInv ==
  ASSUME Inv, NEW r \in Requests, AskApproval(r), UNCHANGED started
  PROVE  Inv'
<1>1. /\ requests[r] \in RequestLocals /\ Sound(requests[r]) /\ requests[r].pc = "askApproval"
  BY DEF Inv, AskApproval, At
<1>2. apprAttempt' \in AttemptStatuses
  BY CircleStatusType DEF AskApproval, Inv, Rest
<1>3. PICK found \in {"granted", "active", "none"} :
        found = IF allowance >= requests[r].amount THEN "granted"
                ELSE IF Active(apprAttempt') THEN "active" ELSE "none"
  OBVIOUS
<1>4. PICK known \in BOOLEAN : known = (Active(apprAttempt') /\ apprCall.state = "MINED")
  <2>1. (Active(apprAttempt') /\ apprCall.state = "MINED") \in BOOLEAN
    BY Zenon
  <2> QED BY <2>1, Zenon
<1>5. "settleApproval" \in Steps
  BY DEF Steps
<1> DEFINE q == [requests[r] EXCEPT !.pc = "settleApproval", !.outcome = found, !.yes = known]
<1>6. Become(r, q)
  BY <1>3, <1>4 DEF AskApproval
<1>7. /\ q \in RequestLocals /\ q.pc = "settleApproval" /\ q.outcome = found
      /\ q.kind = requests[r].kind /\ q.draft = requests[r].draft /\ q.amount = requests[r].amount
      /\ q.leader = requests[r].leader
  BY <1>1, <1>5 DEF RequestLocals
<1> HIDE DEF q
<1>8. Sound(q)
  BY <1>1, <1>7
     DEF Sound, NeedsDraft, NeedsInner, NeedsResult, OverviewSteps, ReconcileSteps, ApprovalSteps
<1>9. Progress /\ Rest'
  BY <1>2 DEF AskApproval, Inv, outside, Progress, Rest, Consistent, Credible, HasHash
<1> QED BY <1>6, <1>7, <1>8, <1>9, MoveInv

\* The funding status follows the allowance and the attempts.
LEMMA SettleApprovalInv ==
  ASSUME Inv, NEW r \in Requests, SettleApproval(r), UNCHANGED started
  PROVE  Inv'
<1> DEFINE q == requests[r]
<1>1. /\ q \in RequestLocals /\ Sound(q) /\ q.pc = "settleApproval" /\ OnlyDraft
      /\ draft \in Draft /\ Credible(draft) /\ q.outcome \in {"granted", "active", "none"}
  BY DEF Inv, Rest, SettleApproval, At, Sound
<1>2. PICK known \in BOOLEAN : known = (q.yes \/ q.draft.appr)
  <2>1. (q.yes \/ q.draft.appr) \in BOOLEAN
    BY Zenon
  <2> QED BY <2>1, Zenon
<1>3. \/ draft' = [draft EXCEPT !.fs = "approved", !.appr = known]
      \/ draft' = [draft EXCEPT !.fs = "approval-pending", !.appr = known]
      \/ draft' = [draft EXCEPT !.fs = "ready"]
  <2>1. CASE q.outcome = "granted"
    BY <1>2, <2>1, Zenon DEF SettleApproval
  <2>2. CASE q.outcome = "active"
    <3>1. q.outcome # "granted"
      BY <2>2
    <3> QED BY <1>2, <2>2, <3>1, Zenon DEF SettleApproval
  <2>3. CASE q.outcome = "none"
    <3>1. q.outcome # "granted" /\ q.outcome # "active"
      BY <2>3
    <3> QED BY <2>3, <3>1, Zenon DEF SettleApproval
  <2> QED BY <1>1, <2>1, <2>2, <2>3
<1>4. /\ draft' \in Draft /\ draft'.pub = draft.pub /\ draft'.es = draft.es
      /\ draft'.event = draft.event /\ draft'.hash = draft.hash
  BY <1>1, <1>3 DEF Draft, FundingStatuses
<1>5. PICK d \in Draft : draft' = d /\ Credible(d)
  BY <1>1, <1>4 DEF Credible
<1> DEFINE n == [Idle EXCEPT !.pc = "preflight", !.kind = q.kind, !.amount = q.amount]
<1>6. Become(r, Overview("recover")) \/ Become(r, Idle) \/ Become(r, n)
  BY DEF SettleApproval
<1>7. n \in RequestLocals /\ n.pc = "preflight" /\ n.kind = q.kind /\ n.amount = q.amount
      /\ n.leader = None
  <2>1. q.amount \in Amounts \cup {0} /\ q.kind \in AllKinds \cup {None}
    BY <1>1 DEF RequestLocals
  <2> HIDE DEF q
  <2> QED BY <2>1 DEF Idle, RequestLocals, Steps
<1> HIDE DEF n, q
<1>8. Sound(n)
  BY <1>1, <1>7
     DEF Sound, NeedsDraft, NeedsInner, NeedsResult, OverviewSteps, ReconcileSteps, ApprovalSteps
<1> QED BY <1>1, <1>5, <1>6, <1>7, <1>8, OverviewSound, IdleSound, SavesInv

\* The draft that is read here is saved after the overview.
LEMMA ReadPreflightInv ==
  ASSUME Inv, NEW r \in Requests, ReadPreflight(r), UNCHANGED started
  PROVE  Inv'
<1>1. /\ requests[r] \in RequestLocals /\ Sound(requests[r]) /\ requests[r].pc = "preflight"
      /\ OnlyRequests /\ started' \in 0..MaxRequests
  BY DEF Inv, Rest, ReadPreflight, At
<1>2. PICK d \in Draft : d = Read /\ Credible(d)
  BY ReadGood
<1>3. "overview" \in Steps
  BY DEF Steps
<1> DEFINE q == [requests[r] EXCEPT !.pc = "overview", !.draft = d]
<1>4. Become(r, q)
  BY <1>2 DEF ReadPreflight
<1>5. /\ q \in RequestLocals /\ q.pc = "overview" /\ q.draft = d /\ q.kind = requests[r].kind
      /\ q.amount = requests[r].amount /\ q.leader = requests[r].leader
  BY <1>1, <1>3 DEF RequestLocals
<1> HIDE DEF q
<1>6. Sound(q)
  BY <1>1, <1>2, <1>5
     DEF Sound, NeedsDraft, NeedsInner, NeedsResult, OverviewSteps, ReconcileSteps, ApprovalSteps
<1> QED BY <1>1, <1>4, <1>5, <1>6, ReadsInv

\* All of its funding is saved, whatever was saved since.
LEMMA SavePreflightInv ==
  ASSUME Inv, NEW r \in Requests, SavePreflight(r), UNCHANGED started
  PROVE  Inv'
<1> DEFINE q == requests[r]
<1>1. /\ q \in RequestLocals /\ Sound(q) /\ q.pc = "savePreflight" /\ OnlyDraft
      /\ draft \in Draft /\ Credible(draft)
  BY DEF Inv, Rest, SavePreflight, At
<1>2. PICK d \in Draft : d = q.draft /\ Credible(d)
  BY <1>1 DEF Sound, NeedsDraft
<1>3. /\ d.fs \in FundingStatuses /\ "ready" \in FundingStatuses
      /\ d.es \in {"not-created", "pending", "locked", "verified"}
      /\ d.appr \in BOOLEAN /\ d.tx \in BOOLEAN /\ d.hash \in BOOLEAN /\ d.event \in BOOLEAN
  BY DEF Draft, FundingStatuses
<1>4. PICK fs \in FundingStatuses : fs = IF q.yes THEN "ready" ELSE d.fs
  BY <1>3
<1> DEFINE new == [draft EXCEPT !.fs = fs, !.es = d.es, !.appr = d.appr, !.tx = d.tx,
                                !.hash = d.hash, !.event = d.event]
<1>5. draft' = new
  BY <1>2, <1>4 DEF SavePreflight
<1>6. /\ new \in Draft /\ new.pub = draft.pub /\ new.es = d.es /\ new.event = d.event
      /\ new.hash = d.hash
  BY <1>1, <1>3 DEF Draft
<1> HIDE DEF new
<1>7. Credible(new)
  BY <1>1, <1>2, <1>6 DEF Credible
<1> DEFINE n == [Idle EXCEPT !.pc = "createApproval", !.kind = q.kind, !.amount = q.amount]
<1>8. Become(r, Idle) \/ (q.kind = "approve" /\ Become(r, n))
  BY DEF SavePreflight
<1>9. n \in RequestLocals /\ n.pc = "createApproval" /\ n.kind = q.kind /\ n.amount = q.amount
      /\ n.leader = None
  <2>1. q.amount \in Amounts \cup {0} /\ q.kind \in AllKinds \cup {None}
    BY <1>1 DEF RequestLocals
  <2> HIDE DEF q
  <2> QED BY <2>1 DEF Idle, RequestLocals, Steps
<1> HIDE DEF n, q
<1>10. q.kind = "approve" => Sound(n)
  BY <1>1, <1>9
     DEF Sound, NeedsDraft, NeedsInner, NeedsResult, OverviewSteps, ReconcileSteps, ApprovalSteps
<1> QED BY <1>1, <1>5, <1>6, <1>7, <1>8, <1>9, <1>10, IdleSound, SavesInv

\* Circle makes the approval once, the attempt is stored and the draft marked.
LEMMA CreateApprovalInv ==
  ASSUME Inv, NEW r \in Requests,
         CreateApproval(r) \/ PersistApproval(r) \/ MarkApproval(r), UNCHANGED started
  PROVE  Inv'
<1>0. requests[r] \in RequestLocals /\ Sound(requests[r])
  BY DEF Inv
<1>1. CASE CreateApproval(r)
  <2>1. PICK amount \in Amounts : apprCall' = WithCall(apprCall, amount)
    BY <1>0, <1>1 DEF CreateApproval, At, Sound, ApprovalSteps, RequestLocals
  <2>2. /\ apprCall'.state # "ABSENT" => apprCall'.terms \in Amounts
        /\ apprCall' \in [state : CallStates, terms : Amounts \cup {None}]
    BY <2>1 DEF WithCall, Inv, Rest, Consistent, CallStates
  <2>3. UNCHANGED <<draft, record, fundAttempt, apprAttempt, fundCall, allowance, escrow>>
        /\ Become(r, [Idle EXCEPT !.pc = "persistApproval", !.kind = "approve"])
    BY <1>1 DEF CreateApproval, attempts
  <2>4. Rest'
    BY <2>2, <2>3 DEF Inv, Rest, Consistent, Credible, HasHash
  <2>5. Progress
    BY <2>3 DEF Progress, HasHash
  <2>6. "approve" \in AllKinds
    BY DEF AllKinds
  <2> QED BY <2>3, <2>4, <2>5, <2>6, FreshSound, MoveInv
<1>2. CASE PersistApproval(r)
  <2>1. Progress /\ Rest'
    BY <1>2 DEF PersistApproval, Inv, outside, Progress, Rest, Consistent, Credible, HasHash,
                AttemptStatuses
  <2> QED BY <1>2, <2>1, GoSound, MoveInv DEF PersistApproval, Go, At, ReconcileSteps
<1>3. CASE MarkApproval(r)
  <2> DEFINE d == [draft EXCEPT !.fs = "approval-pending"]
  <2>1. d \in Draft /\ Credible(d)
    BY DEF Inv, Rest, Draft, FundingStatuses, Credible
  <2>2. draft' = d /\ OnlyDraft /\ Become(r, Idle)
    BY <1>3 DEF MarkApproval, Finish
  <2> HIDE DEF d
  <2> QED BY <2>1, <2>2, IdleSound, SavesInv
<1> QED BY <1>1, <1>2, <1>3

\* A page saves the draft it loaded, with new terms.
LEMMA SavePageInv ==
  ASSUME Inv, NEW r \in Requests, SavePage(r), UNCHANGED started
  PROVE  Inv'
<1>1. PICK d \in Draft : d = requests[r].draft /\ Credible(d)
  BY DEF Inv, SavePage, At, Sound, NeedsDraft
<1>2. PICK amount \in Amounts, dates \in Dates :
        draft' = [d EXCEPT !.amount = amount, !.dates = dates]
  BY <1>1 DEF SavePage, Terms
<1> DEFINE new == [d EXCEPT !.amount = amount, !.dates = dates]
<1>3. /\ new \in Draft /\ new.pub = d.pub /\ new.es = d.es /\ new.event = d.event
      /\ new.hash = d.hash
  BY DEF Draft
<1>4. draft' = new /\ OnlyDraft /\ Become(r, Idle)
  BY <1>2 DEF SavePage, Finish
<1> HIDE DEF new
<1>5. Credible(new)
  BY <1>1, <1>3 DEF Credible
<1> QED BY <1>3, <1>4, <1>5, IdleSound, SavesInv

-----------------------------------------------------------------------------
\* A request begins with a draft it has read, or with none.
LEMMA StartInv ==
  ASSUME Inv, NEW r \in Requests, Start(r)
  PROVE  Inv'
<1>1. PICK d \in Draft : d = Read /\ Credible(d)
  BY ReadGood
<1>2. ASSUME NEW q \in RequestLocals, Sound(q), Begin(r, q) PROVE Inv'
  <2>1. started' \in 0..MaxRequests
    BY <1>2, FundingConstants DEF FundingConstants, Begin, Inv, Rest
  <2> QED BY <1>2, <2>1, ReadsInv DEF Begin
<1>3. ASSUME NEW kind \in {"publish", "fund", "save"}, NEW x \in Draft, Credible(x),
             NEW step \in {"evidence", "resume", "save", "verify"},
             step = "verify" => kind = "fund",
             Begin(r, [Idle EXCEPT !.pc = step, !.kind = kind, !.draft = x])
      PROVE  Inv'
  <2> DEFINE q == [Idle EXCEPT !.pc = step, !.kind = kind, !.draft = x]
  <2>1. step \in Steps /\ kind \in AllKinds
    BY DEF Steps, AllKinds
  <2>2. q \in RequestLocals /\ q.pc = step /\ q.kind = kind /\ q.draft = x /\ q.leader = None
    BY <2>1 DEF RequestLocals, Idle
  <2>3. Begin(r, q)
    BY <1>3
  <2> HIDE DEF q
  <2>4. Sound(q)
    BY <1>3, <2>2
       DEF Sound, NeedsDraft, NeedsInner, NeedsResult, OverviewSteps, ReconcileSteps, ApprovalSteps
  <2> QED BY <1>2, <2>2, <2>3, <2>4
<1>4. CASE StartOverview(r)
  BY <1>2, <1>4, OverviewSound DEF StartOverview
<1>5. CASE StartVerify(r)
  BY <1>2, <1>5, FreshSound DEF StartVerify, AllKinds
<1>6. CASE StartPublish(r)
  <2>1. Begin(r, [Idle EXCEPT !.pc = "evidence", !.kind = "publish", !.draft = d])
    BY <1>1, <1>6 DEF StartPublish
  <2> QED BY <1>1, <1>3, <2>1
<1>7. CASE StartFund(r)
  <2>1. PICK x \in Draft, step \in {"resume", "verify"} :
          /\ Credible(x)
          /\ Begin(r, [Idle EXCEPT !.kind = "fund", !.draft = x, !.pc = step])
    <3>1. CASE ~Active(fundAttempt.status)
      BY <1>1, <1>7, <3>1 DEF StartFund
    <3>2. CASE Active(fundAttempt.status)
      <4>1. PICK t \in BOOLEAN, h \in BOOLEAN :
              t = (d.tx \/ fundAttempt.tx) /\ h = (d.hash \/ fundAttempt.hash)
        <5>1. (d.tx \/ fundAttempt.tx) \in BOOLEAN /\ (d.hash \/ fundAttempt.hash) \in BOOLEAN
          BY Zenon
        <5> QED BY <5>1, Zenon
      <4> DEFINE x == [d EXCEPT !.tx = t, !.hash = h]
      <4>2. x = [Read EXCEPT !.tx = @ \/ fundAttempt.tx, !.hash = @ \/ fundAttempt.hash]
        BY <1>1, <4>1 DEF Draft
      <4>3. x \in Draft /\ x.pub = d.pub /\ x.es = d.es /\ x.event = d.event /\ x.hash = h
        BY DEF Draft
      <4>4. Begin(r, [Idle EXCEPT !.kind = "fund", !.draft = x, !.pc = "resume"])
        BY <1>7, <3>2, <4>2 DEF StartFund
      <4> HIDE DEF x
      <4>5. Credible(x)
        BY <1>1, <4>1, <4>3 DEF Credible, Inv, Rest, Consistent
      <4> QED BY <4>3, <4>4, <4>5
    <3> QED BY <3>1, <3>2
  <2>2. [Idle EXCEPT !.kind = "fund", !.draft = x, !.pc = step]
          = [Idle EXCEPT !.pc = step, !.kind = "fund", !.draft = x]
    BY DEF Idle
  <2> QED BY <1>3, <2>1, <2>2
<1>8. CASE StartReconcile(r)
  <2>1. "reconcile" \in AllKinds /\ fundCall.state # "ABSENT"
    BY <1>8 DEF AllKinds, StartReconcile, Inv, Rest, Consistent
  <2> QED BY <1>2, <1>8, <2>1, FreshSound DEF StartReconcile
<1>9. CASE StartPreflight(r)
  <2>1. "preflight" \in AllKinds
    BY DEF AllKinds
  <2> QED BY <1>2, <1>9, <2>1, FreshSound DEF StartPreflight
<1>10. CASE LoadPage(r)
  <2>1. Begin(r, [Idle EXCEPT !.pc = "save", !.kind = "save", !.draft = d])
    BY <1>1, <1>10 DEF LoadPage
  <2> QED BY <1>1, <1>3, <2>1
<1>11. ASSUME NEW kind \in {"approve", "recover"}, StartApproval(r, kind) PROVE Inv'
  <2>1. Begin(r, [Idle EXCEPT !.pc = "askApproval", !.kind = kind, !.draft = d,
                              !.amount = d.amount])
    BY <1>1, <1>11 DEF StartApproval
  <2> DEFINE q == [Idle EXCEPT !.pc = "askApproval", !.kind = kind, !.draft = d,
                               !.amount = d.amount]
  <2>2. /\ "askApproval" \in Steps /\ kind \in AllKinds /\ d.amount \in Amounts
        /\ d.amount # 0
    BY FundingConstants DEF FundingConstants, Steps, AllKinds, Draft
  <2>3. /\ q \in RequestLocals /\ q.pc = "askApproval" /\ q.kind = kind /\ q.draft = d
        /\ q.amount = d.amount /\ q.leader = None
    BY <2>2 DEF RequestLocals, Idle
  <2> HIDE DEF q
  <2>4. Sound(q)
    BY <1>1, <2>2, <2>3
       DEF Sound, NeedsDraft, NeedsInner, NeedsResult, OverviewSteps, ReconcileSteps, ApprovalSteps
  <2> QED BY <1>2, <2>1, <2>3, <2>4 DEF q
<1> QED BY <1>4, <1>5, <1>6, <1>7, <1>8, <1>9, <1>10, <1>11 DEF Start

-----------------------------------------------------------------------------
\* What happens outside leaves the requests alone.
LEMMA OutsideInv ==
  ASSUME Inv, DecideApproval \/ DecideFundCall \/ SendFunding \/ MineFunding, UNCHANGED started
  PROVE  Inv'
<1>1. /\ fundCall \in [state : CallStates, terms : Terms \cup {None}]
      /\ apprCall \in [state : CallStates, terms : Amounts \cup {None}]
      /\ allowance \in Nat /\ Consistent
  BY DEF Inv, Rest
<1>2. Amounts \subseteq Nat /\ None \notin Terms
  BY FundingConstants DEF FundingConstants, Terms
<1>3. Progress /\ Rest' /\ UNCHANGED requests
  <2>1. CASE DecideApproval
    <3>1. /\ apprCall' \in [state : CallStates, terms : Amounts \cup {None}]
          /\ apprCall'.terms = apprCall.terms /\ apprCall.terms \in Amounts /\ allowance' \in Nat
          /\ UNCHANGED <<draft, record, fundAttempt, apprAttempt, requests, fundCall, escrow>>
      BY <1>1, <1>2, <2>1 DEF DecideApproval, attempts, CallStates, Consistent
    <3> QED BY <3>1 DEF Inv, Progress, Rest, Consistent, Credible, HasHash
  <2>2. CASE DecideFundCall \/ SendFunding
    <3>1. /\ fundCall' \in [state : CallStates, terms : Terms \cup {None}]
          /\ fundCall'.terms = fundCall.terms /\ fundCall'.state \in {"DENIED", "SIGNED", "SENT"}
          /\ fundCall.state \in {"CREATED", "SIGNED"}
          /\ UNCHANGED <<draft, record, fundAttempt, apprAttempt, requests, apprCall, allowance, escrow>>
      BY <1>1, <2>2 DEF DecideFundCall, SendFunding, attempts, CallStates
    <3> QED BY <3>1 DEF Inv, Progress, Rest, Consistent, Credible, HasHash
  <2>3. CASE MineFunding
    <3>1. fundCall.terms \in Terms /\ fundCall.terms.amount \in Nat /\ fundCall.state = "SENT"
      BY <1>1, <1>2, <2>3 DEF MineFunding, Consistent, Terms
    <3>2. /\ fundCall' \in [state : CallStates, terms : Terms \cup {None}]
          /\ fundCall'.terms = fundCall.terms /\ fundCall'.state \in {"MINED", "REVERTED"}
          /\ fundCall'.state = "MINED" => escrow' = fundCall.terms
          /\ fundCall'.state = "REVERTED" => escrow' = escrow
          /\ UNCHANGED <<draft, record, fundAttempt, apprAttempt, requests, apprCall>>
      BY <1>1, <2>3 DEF MineFunding, attempts, CallStates
    <3>3. allowance' \in Nat
      BY <1>1, <2>3, <3>1 DEF MineFunding
    <3> QED BY <1>2, <3>1, <3>2, <3>3 DEF Inv, Progress, Rest, Consistent, Credible, HasHash
  <2> QED BY <2>1, <2>2, <2>3
<1>4. ASSUME NEW r \in Requests PROVE Sound(requests[r])'
  <2>1. PICK q : q = requests[r]
    OBVIOUS
  <2>2. Sound(q)'
    BY <1>3, <2>1, SoundStays DEF Inv
  <2> QED BY <1>3, <2>1, <2>2
<1> QED BY <1>3, <1>4 DEF Inv

\* A request that is cut off ends, with those that wait for it.
LEMMA AbortInv ==
  ASSUME Inv, NEW r \in Requests, Abort(r), UNCHANGED started
  PROVE  Inv'
<1>1. ASSUME NEW p \in Requests
      PROVE  requests'[p] \in RequestLocals /\ Sound(requests'[p])
  BY IdleSound DEF Abort, Inv
<1>2. requests' \in [Requests -> RequestLocals]
  BY <1>1 DEF Abort
<1> QED BY <1>1, <1>2, MovesInv DEF Abort

LEMMA StepInv ==
  ASSUME Inv, NEW r \in Requests, Step(r), UNCHANGED started
  PROVE  Inv'
BY OverviewReads, OverviewSaves, StartVerificationInv, ReadChainInv, SaveVerifiedInv,
   SaveRecordInv, PublishInv, ResumeFundingInv, DecideFundingInv, CreateFundingInv,
   MarkFundingInv, PersistReconciledInv, LookupInv, MarkReconciledInv, ReadRestoredInv,
   RestoreInv, MarkPendingInv, AskApprovalInv, SettleApprovalInv, ReadPreflightInv,
   SavePreflightInv, CreateApprovalInv, SavePageInv DEF Step

LEMMA NextInv == Inv /\ [Next]_vars => Inv'
<1> SUFFICES ASSUME Inv, [Next]_vars PROVE Inv'
  OBVIOUS
<1>1. CASE UNCHANGED vars
  <2>1. Progress /\ Rest' /\ UNCHANGED requests
    BY <1>1 DEF vars, Inv, Progress, Rest, Consistent, Credible, HasHash
  <2>2. ASSUME NEW r \in Requests PROVE Sound(requests[r])'
    <3>1. PICK q : q = requests[r]
      OBVIOUS
    <3>2. Sound(q)'
      BY <2>1, <3>1, SoundStays DEF Inv
    <3> QED BY <2>1, <3>1, <3>2
  <2> QED BY <2>1, <2>2 DEF Inv
<1> QED BY <1>1, StartInv, StepInv, AbortInv, OutsideInv DEF Next

LEMMA InitInv == Init => Inv
<1> SUFFICES ASSUME Init PROVE Inv
  OBVIOUS
<1>1. requests \in [Requests -> RequestLocals] /\ \A r \in Requests : Sound(requests[r])
  BY IdleSound DEF Init
<1>2. PICK terms \in Terms : draft = NewDraft(terms)
  BY DEF Init
<1>3. draft \in Draft /\ Credible(draft)
  BY <1>2 DEF NewDraft, Draft, Terms, FundingStatuses, Credible
<1>4. /\ NoAttempt \in FundingAttempt /\ NoAttempt.status = "ABSENT" /\ NoAttempt.hash = FALSE
      /\ "ABSENT" \in AttemptStatuses
  BY DEF NoAttempt, FundingAttempt, AttemptStatuses
<1>5. /\ NoCall \in [state : CallStates, terms : Terms \cup {None}]
      /\ NoCall \in [state : CallStates, terms : Amounts \cup {None}]
      /\ NoCall.state = "ABSENT"
  BY DEF NoCall, CallStates
<1>6. 0 \in 0..MaxRequests /\ 0 \in Nat
  BY FundingConstants DEF FundingConstants
<1>7. Rest
  BY <1>3, <1>4, <1>5, <1>6 DEF Init, Rest, Consistent
<1> QED BY <1>1, <1>7 DEF Inv

\* Whatever the requests do, the copies they hold stay as credible as the draft.
THEOREM InvHolds == Spec => []Inv
BY InitInv, NextInv, PTL DEF Spec

\* Every variable keeps its type.
THEOREM TypeCorrect == Spec => []TypeOK
<1>1. Inv => TypeOK
  BY DEF Inv, Rest, TypeOK
<1> QED BY <1>1, InvHolds, PTL

\* However late anything is saved, a draft that is ready to publish or live, or
\* that says its escrow or its event is verified, is of a challenge whose prizes
\* the contract holds; so is one with a verification record.
THEOREM VerifiedIsFundedHolds == Spec => []VerifiedIsFunded
<1>1. Inv => VerifiedIsFunded
  BY DEF Inv, Rest, Consistent, Credible, VerifiedIsFunded
<1> QED BY <1>1, InvHolds, PTL

\* Nothing goes live without its verification record.
THEOREM LiveHasRecordHolds == Spec => []LiveHasRecord
<1>1. Inv => LiveHasRecord
  BY DEF Inv, Rest, Credible, LiveHasRecord
<1> QED BY <1>1, InvHolds, PTL

\* No hash is stored that Circle has not reported.
THEOREM HashesAreRealHolds == Spec => []HashesAreReal
<1>1. Inv => HashesAreReal
  BY DEF Inv, Rest, Consistent, Credible, HashesAreReal
<1> QED BY <1>1, InvHolds, PTL
=============================================================================
