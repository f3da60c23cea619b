---------------------------- MODULE WalletsProofs ----------------------------
(***************************************************************************)
(* Theorems about the registry of scoped wallets for any number of scopes, *)
(* accounts, wallets and overlapping requests.                             *)
(*                                                                         *)
(* What a page is given comes from a table, from an old copy of a table or *)
(* from what a request found at Circle some steps ago.  The strengthening, *)
(* Inv, says of every row in all of these places that it Fits: Circle only *)
(* ever makes wallets and puts them live, so a row that fits goes on       *)
(* fitting.  That a brand keeps its wallet needs more: all rows that could *)
(* ever be written for its scope agree (OneClaim).                         *)
(***************************************************************************)
EXTENDS Wallets, FiniteSetTheorems, TLAPS

Request == [step : Steps, scope : Scopes \cup Accounts \cup {None},
            row : Row \cup {None}, verified : BOOLEAN, taken : SUBSET Wallets,
            copy : Copy \cup {None}, next : Steps]

\* A row that may be given out to account a: its wallet is one of the account
\* and is live at Circle.
Fits(a, row) == row # None => row \in Row /\ row.live /\ row.wallet \in Usable(a)

\* Every row of the two tables, stored or in somebody's memory, fits.
TablesFit(rows, records) ==
  /\ \A s \in Scopes : Fits(workload.owner[s], rows[s])
  /\ \A a \in Accounts : Fits(a, records[a])

RequestFits(q) ==
  /\ Fits(OwnerOf(q.scope), q.row)
  /\ q.step \in {"writeLegacy", "writeScoped"} => TablesFit(q.copy.mapping, q.copy.legacy)

\* The steps of a request for a scope, and those that use the row it holds.
ScopeSteps == {"list", "legacy", "migrate", "upsert", "answer", "taken", "candidates"}
RowSteps == {"migrate", "upsert", "answer"}

\* What a request has in hand at each of its steps.
Placed(q) ==
  /\ q.row # None => q.scope # None
  /\ q.step \in ScopeSteps => q.scope \in Scopes
  /\ q.step \in {"find", "add"} => q.scope \in Accounts
  /\ q.step \in RowSteps => q.row \in Row
  /\ q.step \in {"writeLegacy", "writeScoped"} =>
       /\ q.copy \in Copy /\ q.next \in {"idle", "upsert", "answer"}
       /\ q.next # "idle" => q.scope \in Scopes /\ q.row \in Row

\* Nobody records a wallet before it is live.
NoEarlyRecords == FALSE \notin workload.spike

Sound(q) == q \in Request /\ Placed(q) /\ (NoEarlyRecords => RequestFits(q))

Inv ==
  /\ TypeOK
  /\ \A p \in Procs : Sound(requests[p])
  /\ NoEarlyRecords => TablesFit(mapping, legacy)
  /\ AnswersAreLive

-----------------------------------------------------------------------------
\* What the types say of the constants and the workload.
LEMMA WorkloadFacts ==
  ASSUME TypeOK
  PROVE  /\ workload.owner \in [Scopes -> Accounts]
         /\ workload.expected \in [Scopes -> Wallets \cup {None}]
         /\ workload.spike \subseteq BOOLEAN /\ workload.faults \in Nat
         /\ \A s \in Scopes : OwnerOf(s) = workload.owner[s]
         /\ \A a \in Accounts : OwnerOf(a) = a
         /\ OwnerOf(None) = None /\ None \notin Accounts
BY WalletConstants DEF WalletConstants, TypeOK, OwnerOf

\* A wallet that counts for an account is one that Circle made.
LEMMA UsableWasMade ==
  ASSUME TypeOK, NEW a \in Accounts, NEW w \in Usable(a)
  PROVE  w \in Wallets /\ circle[w].key # None /\ circle[w].live
BY WorkloadFacts DEF Usable, Listed

\* Circle makes new wallets and puts wallets live; it takes nothing back.
CircleGrows ==
  \A w \in Wallets :
    /\ circle[w].key # None => circle'[w].key = circle[w].key
    /\ circle[w].live => circle'[w].live

LEMMA FitsStays ==
  ASSUME TypeOK, CircleGrows, UNCHANGED workload,
         NEW a \in Accounts, NEW row, Fits(a, row)
  PROVE  Fits(a, row)'
<1>1. SUFFICES ASSUME row # None, row.wallet \in Usable(a) PROVE row.wallet \in Usable(a)'
  BY DEF Fits
<1>2. /\ row.wallet \in Wallets /\ circle[row.wallet].key # None /\ circle[row.wallet].live
  BY <1>1, UsableWasMade
<1>3. OwnerOf(circle[row.wallet].key) = a
  BY <1>1 DEF Usable, Listed
<1>4. circle'[row.wallet].key = circle[row.wallet].key /\ circle'[row.wallet].live
  BY <1>2 DEF CircleGrows
<1> QED BY <1>2, <1>3, <1>4 DEF Usable, Listed, OwnerOf

LEMMA TablesFitStay ==
  ASSUME TypeOK, CircleGrows, UNCHANGED workload,
         NEW rows, NEW records, TablesFit(rows, records)
  PROVE  TablesFit(rows, records)'
BY WorkloadFacts, FitsStays DEF TablesFit

\* A request that does not move stays sound while Circle grows.
LEMMA SoundStays ==
  ASSUME TypeOK, CircleGrows, UNCHANGED workload, NEW q, Sound(q)
  PROVE  Sound(q)'
<1>1. q \in Request /\ Placed(q)
  BY DEF Sound
<1>2. ASSUME NoEarlyRecords PROVE RequestFits(q)'
  <2>1. RequestFits(q)
    BY <1>2 DEF Sound
  <2>2. q.step \in {"writeLegacy", "writeScoped"} => TablesFit(q.copy.mapping, q.copy.legacy)'
    BY <2>1, TablesFitStay DEF RequestFits
  <2>3. Fits(OwnerOf(q.scope), q.row)'
    <3>1. CASE q.row = None
      BY <3>1 DEF Fits
    <3>2. CASE q.row # None
      <4>1. OwnerOf(q.scope) \in Accounts
        BY <1>1, <3>2, WorkloadFacts DEF Request, Placed
      <4>2. Fits(OwnerOf(q.scope), q.row)
        BY <2>1 DEF RequestFits
      <4> QED BY <4>1, <4>2, FitsStays DEF OwnerOf
    <3> QED BY <3>1, <3>2
  <2> QED BY <2>2, <2>3 DEF RequestFits
<1> QED BY <1>1, <1>2 DEF Sound, NoEarlyRecords, Placed

-----------------------------------------------------------------------------
LEMMA IdleSound ==
  ASSUME TypeOK
  PROVE  Sound(Idle)
<1>1. Idle \in Request /\ Idle.row = None /\ Idle.copy = None /\ Idle.step = "idle"
  BY DEF Idle, Request, Steps
<1> QED BY <1>1 DEF Sound, Placed, RequestFits, Fits, ScopeSteps, RowSteps

LEMMA InitInv == Init => Inv
<1> SUFFICES ASSUME Init PROVE Inv
  OBVIOUS
<1> USE WalletConstants DEF WalletConstants
<1>1. \A w \in Wallets :
        circle[w] \in [key : Scopes \cup Accounts \cup {None}, live : BOOLEAN]
  <2> SUFFICES ASSUME NEW w \in Wallets
               PROVE  circle[w] \in [key : Scopes \cup Accounts \cup {None}, live : BOOLEAN]
    OBVIOUS
  <2> DEFINE of == {s \in Scopes : workload.expected[s] = w}
  <2>1. circle[w] = [key |-> IF of = {} THEN None ELSE workload.owner[CHOOSE s \in of : TRUE],
                     live |-> of # {}]
    BY DEF Init
  <2>2. of # {} => (CHOOSE s \in of : TRUE) \in Scopes
    OBVIOUS
  <2>3. workload.owner \in [Scopes -> Accounts]
    BY DEF Init
  <2> QED BY <2>1, <2>2, <2>3
<1>2. TypeOK
  <2>1. circle \in [Wallets -> [key : Scopes \cup Accounts \cup {None}, live : BOOLEAN]]
    BY <1>1 DEF Init
  <2>2. Idle \in Request
    BY DEF Idle, Request, Steps
  <2>3. workload.faults \in Nat /\ 0 \in 0..workload.faults
    BY DEF Init
  <2> QED BY <2>1, <2>2, <2>3 DEF Init, TypeOK, Request
<1>3. \A p \in Procs : Sound(requests[p])
  BY <1>2, IdleSound DEF Init
<1>4. TablesFit(mapping, legacy)
  BY DEF Init, TablesFit, Fits
<1>5. AnswersAreLive
  BY DEF Init, AnswersAreLive
<1> QED BY <1>2, <1>3, <1>4, <1>5 DEF Inv

\* A step of request p that leaves Circle alone: what has to be shown of it.
LEMMA RequestStep ==
  ASSUME Inv, NEW p \in Procs, NEW q, Sound(q), Become(p, q),
         UNCHANGED <<workload, circle, offered>>,
         mapping' \in [Scopes -> Row \cup {None}], legacy' \in [Accounts -> Row \cup {None}],
         shown' \in [Scopes -> Wallets \cup {None}], faults' \in 0..workload.faults,
         NoEarlyRecords => TablesFit(mapping', legacy'),
         NoEarlyRecords => \A s \in Scopes : shown'[s] # None => shown'[s] \in Usable(workload.owner[s])
  PROVE  Inv'
<1>1. CircleGrows
  BY DEF CircleGrows
<1>2. requests' = [requests EXCEPT ![p] = q] /\ requests \in [Procs -> Request]
  BY DEF Become, Inv, TypeOK, Request
<1>3. \A o \in Procs : Sound(requests'[o])
  BY <1>2 DEF Inv
<1>4. \A o \in Procs : Sound(requests[o])'
  BY <1>1, <1>3, SoundStays DEF Inv
<1>5. TypeOK'
  BY <1>2 DEF Inv, TypeOK, Sound, Request
<1>6. NoEarlyRecords' => TablesFit(mapping, legacy)'
  BY <1>1, TablesFitStay DEF Inv, NoEarlyRecords
<1>7. AnswersAreLive'
  BY DEF AnswersAreLive, NoEarlyRecords, Usable, Listed, OwnerOf
<1> QED BY <1>4, <1>5, <1>6, <1>7 DEF Inv

\* One that writes nothing.
LEMMA QuietStep ==
  ASSUME Inv, NEW p \in Procs, NEW q, Sound(q), Become(p, q), OnlyRequests
  PROVE  Inv'
BY RequestStep DEF Inv, TypeOK, OnlyRequests, AnswersAreLive, NoEarlyRecords, Usable

\* One that ends.
LEMMA FinishStep ==
  ASSUME Inv, NEW p \in Procs, Finish(p), OnlyRequests
  PROVE  Inv'
BY IdleSound, QuietStep DEF Finish, Inv

-----------------------------------------------------------------------------
\* Requests for a scope.

LEMMA ArriveInv ==
  ASSUME Inv, NEW p \in Procs, NEW s, NEW step, Arrive(p, s, step),
         \/ s \in Scopes /\ step \in {"list", "taken"}
         \/ s \in Scopes /\ step = "answer" /\ mapping[s] # None
         \/ s \in Accounts /\ step = "find"
  PROVE  Inv'
<1> DEFINE q == [Idle EXCEPT !.scope = s, !.step = step,
                             !.row = IF step = "answer" THEN mapping[s] ELSE None]
<1>1. /\ q \in Request /\ q.scope = s /\ q.step = step /\ q.copy = None
      /\ q.row = IF step = "answer" THEN mapping[s] ELSE None
      /\ q.row \in Row \cup {None}
  <2>1. (IF step = "answer" THEN mapping[s] ELSE None) \in Row \cup {None}
    BY DEF Inv, TypeOK
  <2> QED BY <2>1 DEF Idle, Request, Steps
<1>2. Placed(q)
  BY <1>1, WalletConstants DEF WalletConstants, Placed, ScopeSteps, RowSteps
<1>3. NoEarlyRecords => RequestFits(q)
  <2>1. CASE step = "answer"
    BY <1>1, <2>1, WorkloadFacts DEF Inv, TablesFit, RequestFits
  <2>2. CASE step # "answer"
    BY <1>1, <2>2 DEF RequestFits, Fits
  <2> QED BY <2>1, <2>2
<1>4. Sound(q)
  BY <1>1, <1>2, <1>3 DEF Sound
<1> QED BY <1>4, QuietStep DEF Arrive

LEMMA AskInv ==
  ASSUME Inv, NEW p \in Procs, Ask(p)
  PROVE  Inv'
<1>1. CASE \E s \in Scopes : AskAccount(p, s) \/ AskStatus(p, s)
  BY <1>1, ArriveInv, Zenon DEF AskAccount, AskStatus
<1>2. CASE \E s \in Scopes : AskRecord(p, workload.owner[s])
  BY <1>2, ArriveInv, WorkloadFacts DEF AskRecord, Inv
<1> QED BY <1>1, <1>2 DEF Ask

\* A request that goes on with a row that fits.
LEMMA TakeRowStep ==
  ASSUME Inv, NEW p \in Procs, OnlyRequests,
         NEW row \in Row, NEW q \in Request, Become(p, q),
         q.step \in RowSteps, q.scope \in Scopes, q.scope = Scope(p), q.row = row,
         NoEarlyRecords => Fits(workload.owner[q.scope], row)
  PROVE  Inv'
<1>1. Placed(q)
  BY WalletConstants DEF WalletConstants, Placed, ScopeSteps, RowSteps
<1>2. NoEarlyRecords => RequestFits(q)
  BY WorkloadFacts DEF Inv, RequestFits, RowSteps
<1> QED BY <1>1, <1>2, QuietStep DEF Sound

\* What a scope takes at Circle is usable: the wallet expected, or the only one.
LEMMA VerifiedAre ==
  ASSUME NEW s \in Scopes, NEW w \in VerifiedWallets(s)
  PROVE  /\ w \in Usable(workload.owner[s])
         /\ workload.expected[s] # None => w = workload.expected[s]
         /\ workload.expected[s] = None => Usable(workload.owner[s]) = {w}
BY DEF VerifiedWallets

LEMMA ListCircleInv ==
  ASSUME Inv, NEW p \in Procs, ListCircle(p)
  PROVE  Inv'
<1>1. requests[p] \in Request /\ Scope(p) \in Scopes /\ requests[p].step = "list"
  BY DEF Inv, Sound, Placed, ScopeSteps, ListCircle, At, Scope
<1>2. CASE VerifiedWallets(Scope(p)) = {}
  <2> DEFINE q == [requests[p] EXCEPT !.step = "legacy"]
  <2>1. /\ q \in Request /\ q.step = "legacy" /\ q.scope = Scope(p)
        /\ q.row = requests[p].row /\ q.copy = requests[p].copy
    BY <1>1 DEF Request, Steps, Scope
  <2>2. Sound(q)
    BY <1>1, <2>1, WalletConstants DEF WalletConstants, Inv, Sound, Placed, RequestFits, ScopeSteps, RowSteps, Scope
  <2> QED BY <1>2, <2>2, QuietStep DEF ListCircle, Go
<1>3. ASSUME NEW w \in VerifiedWallets(Scope(p)),
             Become(p, [requests[p] EXCEPT !.step = "migrate", !.verified = TRUE,
                                           !.row = [wallet |-> w, live |-> circle[w].live]])
      PROVE  Inv'
  <2> DEFINE row == [wallet |-> w, live |-> circle[w].live]
             q == [requests[p] EXCEPT !.step = "migrate", !.verified = TRUE, !.row = row]
  <2>1. w \in Usable(workload.owner[Scope(p)])
    BY <1>1, <1>3, VerifiedAre
  <2>2. w \in Wallets /\ circle[w].live
    BY <2>1, <1>1, WorkloadFacts, UsableWasMade DEF Inv
  <2>3. row \in Row /\ Fits(workload.owner[Scope(p)], row)
    BY <2>1, <2>2 DEF Row, Fits, Inv, TypeOK
  <2>4. /\ q \in Request /\ q.step = "migrate" /\ q.scope = Scope(p)
        /\ q.row = row
    BY <1>1, <2>3 DEF Request, Steps, Scope
  <2> QED BY <1>1, <1>3, <2>3, <2>4, TakeRowStep DEF ListCircle, RowSteps
<1> QED BY <1>2, <1>3 DEF ListCircle

LEMMA ReadLegacyInv ==
  ASSUME Inv, NEW p \in Procs, ReadLegacy(p)
  PROVE  Inv'
<1>1. requests[p] \in Request /\ Scope(p) \in Scopes
  BY DEF Inv, Sound, Placed, ScopeSteps, ReadLegacy, At, Scope
<1>2. Account(p) = workload.owner[Scope(p)] /\ Account(p) \in Accounts
  BY <1>1, WorkloadFacts DEF Inv, Account
<1>3. CASE legacy[Account(p)] = None
  BY <1>3, FinishStep DEF ReadLegacy
<1>4. CASE legacy[Account(p)] # None
  <2> DEFINE row == legacy[Account(p)]
             q == [requests[p] EXCEPT !.step = "migrate", !.row = row]
  <2>1. row \in Row /\ (NoEarlyRecords => Fits(workload.owner[Scope(p)], row))
    BY <1>2, <1>4 DEF Inv, TypeOK, TablesFit
  <2>2. /\ q \in Request /\ q.step = "migrate" /\ q.scope = Scope(p)
        /\ q.row = row
    BY <1>1, <2>1 DEF Request, Steps, Scope
  <2>3. Become(p, q)
    BY <1>4 DEF ReadLegacy
  <2> QED BY <1>1, <2>1, <2>2, <2>3, TakeRowStep DEF ReadLegacy, RowSteps
<1> QED BY <1>3, <1>4

-----------------------------------------------------------------------------
\* What the store writes.

LEMMA StoredFits ==
  ASSUME Inv
  PROVE  Stored \in Copy /\ (NoEarlyRecords => TablesFit(Stored.mapping, Stored.legacy))
BY DEF Inv, TypeOK, Stored, Copy

\* A request that is about to write a copy in which every row fits.
LEMMA SavingStep ==
  ASSUME Inv, NEW p \in Procs, OnlyRequests, NEW copy \in Copy,
         NEW q \in Request, q.scope = Scope(p), q.scope # None,
         NEW next \in {"idle", "upsert", "answer"}, Become(p, Saving(q, copy, next)),
         next # "idle" => q.scope \in Scopes /\ q.row \in Row,
         NoEarlyRecords => Fits(OwnerOf(q.scope), q.row) /\ TablesFit(copy.mapping, copy.legacy)
  PROVE  Inv'
<1> DEFINE none == \A a \in Accounts : copy.legacy[a] = None
           n == Saving(q, copy, next)
<1>1. /\ n \in Request /\ n.scope = q.scope /\ n.row = q.row /\ n.copy = copy /\ n.next = next
      /\ n.step \in {"writeLegacy", "writeScoped"}
  BY DEF Saving, Request, Steps
<1>2. Placed(n)
  BY <1>1 DEF Placed, ScopeSteps, RowSteps
<1>3. NoEarlyRecords => RequestFits(n)
  BY <1>1 DEF RequestFits
<1> QED BY <1>1, <1>2, <1>3, QuietStep DEF Sound

LEMMA UpsertInv ==
  ASSUME Inv, NEW p \in Procs, Upsert(p)
  PROVE  Inv'
<1> DEFINE q == requests[p]
           copy == [Stored EXCEPT !.mapping[q.scope] = q.row]
<1>1. q \in Request /\ q.scope \in Scopes /\ q.row \in Row
      /\ (NoEarlyRecords => Fits(workload.owner[q.scope], q.row))
  BY WorkloadFacts DEF Inv, Sound, Placed, RequestFits, ScopeSteps, RowSteps, Upsert, At
<1>2. copy \in Copy
      /\ copy.legacy = legacy
      /\ \A s \in Scopes : copy.mapping[s] = IF s = q.scope THEN q.row ELSE mapping[s]
  BY <1>1 DEF Stored, Copy, Inv, TypeOK
<1>3. NoEarlyRecords => TablesFit(copy.mapping, copy.legacy)
  BY <1>1, <1>2 DEF TablesFit, Inv
<1>4. q.scope # None /\ OwnerOf(q.scope) = workload.owner[q.scope]
  BY <1>1, WalletConstants, WorkloadFacts DEF WalletConstants, Inv
<1>5. Become(p, Saving(q, copy, "answer")) /\ OnlyRequests
  BY DEF Upsert
<1> HIDE DEF copy
<1> QED BY <1>1, <1>2, <1>3, <1>4, <1>5, SavingStep DEF Scope

LEMMA MigrateInv ==
  ASSUME Inv, NEW p \in Procs, Migrate(p)
  PROVE  Inv'
<1> DEFINE r == requests[p]
           s == Scope(p)
           old == legacy[Account(p)]
<1>1. r \in Request /\ s \in Scopes /\ s = r.scope /\ r.row \in Row /\ r.step = "migrate"
  BY DEF Inv, Sound, Placed, ScopeSteps, RowSteps, Migrate, At, Scope
<1>2. NoEarlyRecords => Fits(workload.owner[s], r.row) /\ Fits(OwnerOf(s), r.row)
  BY <1>1, WorkloadFacts DEF Inv, Sound, RequestFits
<1>3. OnlyRequests
  BY DEF Migrate
<1>4. CASE mapping[s] # None
  <2>1. mapping[s] \in Row /\ (NoEarlyRecords => Fits(workload.owner[s], mapping[s]))
    BY <1>1, <1>4 DEF Inv, TypeOK, TablesFit
  <2>2. \/ Finish(p)
        \/ Become(p, [r EXCEPT !.step = "answer", !.row = mapping[s]])
    BY <1>4 DEF Migrate
  <2> DEFINE q == [r EXCEPT !.step = "answer", !.row = mapping[s]]
  <2>3. q \in Request /\ q.step = "answer" /\ q.scope = s /\ q.row = mapping[s]
    BY <1>1, <2>1 DEF Request, Steps
  <2> QED BY <1>1, <1>3, <2>1, <2>2, <2>3, TakeRowStep, FinishStep DEF RowSteps
<1>5. CASE mapping[s] = None /\ old = None
  <2> DEFINE q == [r EXCEPT !.step = "upsert"]
  <2>1. Finish(p) \/ Become(p, q)
    BY <1>5 DEF Migrate
  <2>2. q \in Request /\ q.step = "upsert" /\ q.scope = s /\ q.row = r.row
    BY <1>1 DEF Request, Steps
  <2> QED BY <1>1, <1>2, <1>3, <2>1, <2>2, TakeRowStep, FinishStep DEF RowSteps
<1>6. CASE mapping[s] = None /\ old # None
  <2> DEFINE moved == [Stored EXCEPT !.mapping[s] = r.row]
  <2>1. \/ \E next \in {"idle", "answer"} : Become(p, Saving(r, moved, next))
        \/ \E next \in {"idle", "upsert"} : Become(p, Saving(r, Stored, next))
    BY <1>6, Zenon DEF Migrate
  <2>2. /\ moved \in Copy /\ moved.legacy = legacy
        /\ \A t \in Scopes : moved.mapping[t] = IF t = s THEN r.row ELSE mapping[t]
    BY <1>1 DEF Stored, Copy, Inv, TypeOK
  <2>3. NoEarlyRecords => TablesFit(moved.mapping, moved.legacy)
    BY <1>1, <1>2, <2>2 DEF TablesFit, Inv
  <2>4. s # None
    BY <1>1, WalletConstants DEF WalletConstants
  <2> HIDE DEF moved
  <2> QED BY <1>1, <1>2, <1>3, <2>1, <2>2, <2>3, <2>4, StoredFits, SavingStep
<1> QED BY <1>4, <1>5, <1>6

\* What is in the table after an upsert fits if what is written and what was
\* there does.
LEMMA UpsertedFits ==
  ASSUME NEW K, NEW table \in [K -> Row \cup {None}], NEW copy \in [K -> Row \cup {None}]
  PROVE  /\ Upserted(table, copy) \in [K -> Row \cup {None}]
         /\ \A k \in K : Upserted(table, copy)[k] \in {table[k], copy[k]}
BY DEF Upserted

LEMMA WriteLegacyInv ==
  ASSUME Inv, NEW p \in Procs, WriteLegacy(p)
  PROVE  Inv'
<1> DEFINE r == requests[p]
           q == [r EXCEPT !.step = "writeScoped"]
           new == Upserted(legacy, r.copy.legacy)
<1>1. r \in Request /\ r.step = "writeLegacy" /\ r.copy \in Copy
      /\ r.next \in {"idle", "upsert", "answer"}
      /\ (r.next # "idle" => r.scope \in Scopes /\ r.row \in Row)
      /\ (r.row # None => r.scope # None)
  BY DEF Inv, Sound, Placed, WriteLegacy, At
<1>2. /\ q \in Request /\ q.step = "writeScoped" /\ q.scope = r.scope /\ q.row = r.row
      /\ q.copy = r.copy /\ q.next = r.next
  BY <1>1 DEF Request, Steps
<1>3. Placed(q)
  BY <1>1, <1>2 DEF Placed, ScopeSteps, RowSteps
<1>4. Sound(q)
  BY <1>1, <1>2, <1>3 DEF Inv, Sound, RequestFits
<1>5. legacy' = new /\ Become(p, q)
  BY DEF WriteLegacy, Go
<1>6. /\ new \in [Accounts -> Row \cup {None}]
      /\ \A a \in Accounts : new[a] \in {legacy[a], r.copy.legacy[a]}
  BY <1>1, UpsertedFits DEF Inv, TypeOK, Copy
<1> HIDE DEF new, q
<1>7. NoEarlyRecords => TablesFit(mapping', legacy')
  <2>1. NoEarlyRecords => TablesFit(r.copy.mapping, r.copy.legacy) /\ TablesFit(mapping, legacy)
    BY <1>1 DEF Inv, Sound, RequestFits
  <2>2. NoEarlyRecords => \A a \in Accounts : Fits(a, new[a])
    BY <1>6, <2>1 DEF TablesFit
  <2> QED BY <1>5, <2>1, <2>2 DEF TablesFit, WriteLegacy
<1> QED BY <1>4, <1>5, <1>6, <1>7, RequestStep DEF WriteLegacy, Inv, TypeOK, AnswersAreLive, NoEarlyRecords, Usable

LEMMA WriteScopedInv ==
  ASSUME Inv, NEW p \in Procs, WriteScoped(p)
  PROVE  Inv'
<1> DEFINE r == requests[p]
           rows == Upserted(mapping, r.copy.mapping)
           q == [r EXCEPT !.step = r.next, !.copy = None, !.next = "idle"]
<1>1. r \in Request /\ r.copy \in Copy /\ r.next \in {"idle", "upsert", "answer"}
      /\ (r.next # "idle" => r.scope \in Scopes /\ r.row \in Row)
      /\ (r.row # None => r.scope # None) /\ r.step = "writeScoped"
  BY DEF Inv, Sound, Placed, WriteScoped, At
<1>2. /\ rows \in [Scopes -> Row \cup {None}]
      /\ \A s \in Scopes : rows[s] \in {mapping[s], r.copy.mapping[s]}
  BY <1>1, UpsertedFits DEF Inv, TypeOK, Copy
<1>3. NoEarlyRecords => TablesFit(rows, legacy)
  <2>1. NoEarlyRecords => TablesFit(r.copy.mapping, r.copy.legacy) /\ TablesFit(mapping, legacy)
    BY <1>1 DEF Inv, Sound, RequestFits
  <2> QED BY <1>2, <2>1 DEF TablesFit
<1>4. Sound(q) \/ r.next = "idle"
  <2>1. /\ q \in Request /\ q.step = r.next /\ q.scope = r.scope /\ q.row = r.row
    BY <1>1 DEF Request, Steps
  <2>2. r.next # "idle" => Placed(q)
    BY <1>1, <2>1 DEF Placed, ScopeSteps, RowSteps
  <2> QED BY <1>1, <2>1, <2>2 DEF Inv, Sound, RequestFits
<1>5. /\ mapping' = rows \/ mapping' = mapping
      /\ UNCHANGED <<workload, legacy, circle, offered, shown, faults>>
  BY DEF WriteScoped
<1>6. Finish(p) \/ (Become(p, q) /\ r.next # "idle")
  BY DEF WriteScoped
<1>7. NoEarlyRecords => TablesFit(mapping', legacy')
  BY <1>3, <1>5 DEF Inv
<1> HIDE DEF rows, q
<1>8. \E n : Sound(n) /\ Become(p, n)
  BY <1>4, <1>6, IdleSound DEF Finish, Inv
<1>9. mapping' \in [Scopes -> Row \cup {None}]
  BY <1>2, <1>5 DEF Inv, TypeOK
<1> QED BY <1>5, <1>7, <1>8, <1>9, RequestStep DEF Inv, TypeOK, AnswersAreLive, NoEarlyRecords, Usable

LEMMA AnswerInv ==
  ASSUME Inv, NEW p \in Procs, Answer(p)
  PROVE  Inv'
<1> DEFINE r == requests[p]
<1>1. r \in Request /\ r.scope \in Scopes /\ r.row \in Row
      /\ (NoEarlyRecords => Fits(workload.owner[r.scope], r.row))
  BY WorkloadFacts DEF Inv, Sound, Placed, RequestFits, ScopeSteps, RowSteps, Answer, At
<1>2. shown' \in {[shown EXCEPT ![r.scope] = r.row.wallet], shown}
  BY DEF Answer, Scope
<1>3. shown' \in [Scopes -> Wallets \cup {None}]
  BY <1>1, <1>2 DEF Inv, TypeOK, Row
<1>4. NoEarlyRecords => \A s \in Scopes : shown'[s] # None => shown'[s] \in Usable(workload.owner[s])
  <2>1. NoEarlyRecords => \A s \in Scopes : shown[s] # None => shown[s] \in Usable(workload.owner[s])
    BY DEF Inv, AnswersAreLive, NoEarlyRecords, Usable
  <2>2. r.row # None
    BY <1>1, WalletConstants DEF WalletConstants, Row
  <2> QED BY <1>1, <1>2, <2>1, <2>2 DEF Fits, Inv, TypeOK
<1> QED BY <1>3, <1>4, IdleSound, RequestStep DEF Answer, Finish, Inv, TypeOK

-----------------------------------------------------------------------------
\* The payout operator's page and the spike's.

LEMMA ReadTakenInv ==
  ASSUME Inv, NEW p \in Procs, ReadTaken(p)
  PROVE  Inv'
<1> DEFINE r == requests[p]
           rows == {mapping[s] : s \in Scopes} \cup {legacy[a] : a \in Accounts}
           taken == {row.wallet : row \in rows \ {None}}
           q == [r EXCEPT !.step = "candidates", !.taken = taken]
<1>1. r \in Request /\ r.step = "taken" /\ r.scope \in Scopes
  BY DEF Inv, Sound, Placed, ScopeSteps, ReadTaken, At
<1>2. taken \subseteq Wallets
  BY DEF Inv, TypeOK, Row
<1>3. q \in Request /\ q.step = "candidates" /\ q.scope = r.scope /\ q.row = r.row
  BY <1>1, <1>2 DEF Request, Steps
<1>4. Placed(q)
  BY <1>1, <1>3, WalletConstants DEF WalletConstants, Placed, ScopeSteps, RowSteps
<1>5. Sound(q)
  BY <1>3, <1>4 DEF Inv, Sound, RequestFits
<1>6. Become(p, q) /\ OnlyRequests
  BY DEF ReadTaken
<1> HIDE DEF q
<1> QED BY <1>5, <1>6, QuietStep

LEMMA ChooseCandidateInv ==
  ASSUME Inv, NEW p \in Procs, ChooseCandidate(p)
  PROVE  Inv'
<1> DEFINE r == requests[p]
           row(w) == [wallet |-> w, live |-> TRUE]
           q(w) == [r EXCEPT !.step = "upsert", !.taken = {}, !.row = row(w)]
<1>1. r \in Request /\ r.scope \in Scopes /\ Account(p) = workload.owner[r.scope]
  BY WorkloadFacts DEF Inv, Sound, Placed, ScopeSteps, ChooseCandidate, At, Account, Scope
<1>2. Finish(p) \/ \E w \in Usable(Account(p)) : Become(p, q(w))
  BY DEF ChooseCandidate
<1>3. OnlyRequests
  BY DEF ChooseCandidate
<1>4. ASSUME NEW w \in Usable(Account(p)), Become(p, q(w)) PROVE Inv'
  <2>1. w \in Wallets
    BY <1>1, WorkloadFacts, UsableWasMade DEF Inv
  <2>2. row(w) \in Row /\ Fits(workload.owner[r.scope], row(w))
    BY <1>1, <2>1 DEF Row, Fits
  <2>3. q(w) \in Request /\ q(w).step = "upsert" /\ q(w).scope = r.scope /\ q(w).row = row(w)
    BY <1>1, <2>2 DEF Request, Steps
  <2> HIDE DEF row, q
  <2> QED BY <1>1, <1>3, <1>4, <2>2, <2>3, TakeRowStep DEF RowSteps, Scope
<1> QED BY <1>2, <1>3, <1>4, FinishStep

LEMMA FindWalletInv ==
  ASSUME Inv, NEW p \in Procs, FindWallet(p)
  PROVE  Inv'
<1> DEFINE r == requests[p]
           row(w) == [wallet |-> w, live |-> circle[w].live]
           q(w) == [r EXCEPT !.step = "add", !.row = row(w)]
<1>1. r \in Request /\ r.scope \in Accounts /\ Account(p) = r.scope /\ OwnerOf(r.scope) = r.scope
  BY WorkloadFacts DEF Inv, Sound, Placed, FindWallet, At, Account, Scope
<1>2. Finish(p) \/ \E w \in Listed(Account(p)) : circle[w].live \in workload.spike /\ Become(p, q(w))
  BY DEF FindWallet
<1>3. OnlyRequests
  BY DEF FindWallet
<1>4. ASSUME NEW w \in Listed(Account(p)), circle[w].live \in workload.spike, Become(p, q(w))
      PROVE  Inv'
  <2>1. w \in Wallets /\ row(w) \in Row
    BY DEF Listed, Inv, TypeOK, Row
  <2>2. NoEarlyRecords => Fits(r.scope, row(w))
    BY <1>1, <1>4, <2>1, WorkloadFacts DEF NoEarlyRecords, Fits, Usable, Inv
  <2>3. q(w) \in Request /\ q(w).step = "add" /\ q(w).scope = r.scope /\ q(w).row = row(w)
    BY <1>1, <2>1 DEF Request, Steps
  <2> HIDE DEF row, q
  <2>4. Placed(q(w))
    BY <1>1, <2>3, WalletConstants DEF WalletConstants, Placed, ScopeSteps, RowSteps
  <2>5. Sound(q(w))
    BY <1>1, <2>2, <2>3, <2>4 DEF Sound, RequestFits
  <2> QED BY <1>3, <1>4, <2>5, QuietStep
<1> QED BY <1>2, <1>3, <1>4, FinishStep

LEMMA AddRecordInv ==
  ASSUME Inv, NEW p \in Procs, AddRecord(p)
  PROVE  Inv'
<1> DEFINE r == requests[p]
           q == [r EXCEPT !.row = None]
           copy == [Stored EXCEPT !.legacy[Account(p)] = r.row]
<1>1. r \in Request /\ r.scope \in Accounts /\ Account(p) = r.scope /\ OwnerOf(r.scope) = r.scope
      /\ r.row \in Row \cup {None} /\ (NoEarlyRecords => Fits(r.scope, r.row))
  BY WorkloadFacts DEF Inv, Sound, Placed, RequestFits, AddRecord, At, Account, Scope, Request
<1>2. copy \in Copy /\ copy.mapping = mapping
      /\ \A a \in Accounts : copy.legacy[a] = IF a = r.scope THEN r.row ELSE legacy[a]
  BY <1>1 DEF Stored, Copy, Inv, TypeOK
<1>3. NoEarlyRecords => TablesFit(copy.mapping, copy.legacy)
  BY <1>1, <1>2 DEF TablesFit, Inv
<1>4. q \in Request /\ q.scope = r.scope /\ q.row = None /\ r.scope # None
  BY <1>1, WalletConstants DEF WalletConstants, Request
<1>5. Become(p, Saving(q, copy, "idle")) /\ OnlyRequests
  BY DEF AddRecord
<1> HIDE DEF q, copy
<1> QED BY <1>2, <1>3, <1>4, <1>5, SavingStep DEF Scope, Fits

LEMMA AbortInv ==
  ASSUME Inv, NEW p \in Procs, Abort(p)
  PROVE  Inv'
<1>1. faults' \in 0..workload.faults
  BY WorkloadFacts DEF Abort, Inv, TypeOK
<1> QED BY <1>1, IdleSound, RequestStep DEF Abort, Finish, Inv, TypeOK, AnswersAreLive, NoEarlyRecords, Usable

-----------------------------------------------------------------------------
\* The world outside: pages get challenges, Circle makes wallets, they go live.
LEMMA CircleStep ==
  ASSUME Inv, CircleGrows, UNCHANGED <<workload, mapping, legacy, shown, faults, requests>>,
         circle' \in [Wallets -> [key : Scopes \cup Accounts \cup {None}, live : BOOLEAN]],
         offered' \subseteq Scopes \cup Accounts
  PROVE  Inv'
<1>1. TypeOK'
  BY DEF Inv, TypeOK
<1>2. \A p \in Procs : Sound(requests[p])'
  BY SoundStays DEF Inv
<1>3. NoEarlyRecords' => TablesFit(mapping, legacy)'
  BY TablesFitStay DEF Inv, NoEarlyRecords
<1>4. AnswersAreLive'
  <2> SUFFICES ASSUME NoEarlyRecords, NEW s \in Scopes, shown[s] # None
               PROVE  shown[s] \in Usable(workload.owner[s])'
    BY DEF AnswersAreLive, NoEarlyRecords, Usable, Listed, OwnerOf
  <2>1. shown[s] \in Usable(workload.owner[s]) /\ workload.owner[s] \in Accounts
    BY WorkloadFacts DEF Inv, AnswersAreLive, NoEarlyRecords, Usable
  <2>2. shown[s] \in Wallets /\ circle[shown[s]].key # None /\ circle[shown[s]].live
    BY <2>1, UsableWasMade DEF Inv
  <2>3. circle'[shown[s]].key = circle[shown[s]].key /\ circle'[shown[s]].live
    BY <2>2 DEF CircleGrows
  <2> QED BY <2>1, <2>2, <2>3 DEF Usable, Listed, OwnerOf
<1> QED BY <1>1, <1>2, <1>3, <1>4 DEF Inv

\* Circle's and the pages' steps only add.
LEMMA OutsideGrows ==
  ASSUME Inv,
         \/ \E s \in Scopes : Setup(s)
         \/ \E a \in Accounts : Enroll(a)
         \/ \E key \in Scopes \cup Accounts : Approve(key)
         \/ \E w \in Wallets : GoLive(w)
  PROVE  /\ CircleGrows /\ UNCHANGED <<workload, mapping, legacy, shown, faults, requests>>
         /\ circle' \in [Wallets -> [key : Scopes \cup Accounts \cup {None}, live : BOOLEAN]]
         /\ offered' \subseteq Scopes \cup Accounts
<1> USE DEF Inv, TypeOK, OnlyCircle, CircleGrows
<1>1. CASE \E s \in Scopes : Setup(s)
  BY <1>1 DEF Setup
<1>2. CASE \E a \in Accounts : Enroll(a)
  BY <1>2 DEF Enroll
<1>3. CASE \E key \in Scopes \cup Accounts : Approve(key)
  <2>1. PICK key \in Scopes \cup Accounts : Approve(key)
    BY <1>3
  <2> DEFINE new == CHOOSE w \in Wallets : circle[w].key = None
  <2>2. new \in Wallets /\ circle[new].key = None
    BY <2>1 DEF Approve
  <2>3. circle' = [circle EXCEPT ![new].key = key]
    BY <2>1 DEF Approve
  <2> HIDE DEF new
  <2> QED BY <2>1, <2>2, <2>3 DEF Approve
<1>4. CASE \E w \in Wallets : GoLive(w)
  <2>1. PICK w \in Wallets : GoLive(w)
    BY <1>4
  <2>2. circle' = [circle EXCEPT ![w].live = TRUE]
    BY <2>1 DEF GoLive
  <2>3. circle \in [Wallets -> [key : Scopes \cup Accounts \cup {None}, live : BOOLEAN]]
    OBVIOUS
  <2>4. CircleGrows
    BY <2>2, <2>3
  <2>5. circle' \in [Wallets -> [key : Scopes \cup Accounts \cup {None}, live : BOOLEAN]]
    BY <2>2, <2>3
  <2> QED BY <2>1, <2>4, <2>5 DEF GoLive
<1> QED BY <1>1, <1>2, <1>3, <1>4

LEMMA NextInv == Inv /\ [Next]_vars => Inv'
<1> SUFFICES ASSUME Inv, [Next]_vars PROVE Inv'
  OBVIOUS
<1>1. ASSUME NEW p \in Procs, Handle(p) PROVE Inv'
  BY <1>1, ListCircleInv, ReadLegacyInv, MigrateInv, UpsertInv, WriteLegacyInv, WriteScopedInv,
     AnswerInv, ReadTakenInv, ChooseCandidateInv, FindWalletInv, AddRecordInv DEF Handle
<1>2. ASSUME NEW p \in Procs, Abort(p) \/ Ask(p) PROVE Inv'
  BY <1>2, AbortInv, AskInv
<1>3. CASE \/ \E s \in Scopes : Setup(s)
           \/ \E a \in Accounts : Enroll(a)
           \/ \E key \in Scopes \cup Accounts : Approve(key)
           \/ \E w \in Wallets : GoLive(w)
  BY <1>3, OutsideGrows, CircleStep
<1>4. CASE UNCHANGED vars
  BY <1>4, CircleStep DEF vars, CircleGrows, Inv, TypeOK
<1> QED BY <1>1, <1>2, <1>3, <1>4 DEF Next

\* The rows of every request, copy and table fit, whatever overlaps.
THEOREM InvHolds == Spec => []Inv
BY InitInv, NextInv, PTL DEF Spec

\* Every variable has its type.
THEOREM TypeCorrect == Spec => []TypeOK
<1>1. Inv => TypeOK
  BY DEF Inv
<1> QED BY <1>1, InvHolds, PTL

\* A page is only given a live wallet of its account, as long as nobody records
\* wallets that are not live yet.
THEOREM AnswersAreLiveHolds == Spec => []AnswersAreLive
<1>1. Inv => AnswersAreLive
  BY DEF Inv
<1> QED BY <1>1, InvHolds, PTL

-----------------------------------------------------------------------------
(* A brand keeps its wallet.                                               *)

Writing == {"writeLegacy", "writeScoped"}

\* The rows that a request could yet write for scope s.
ClaimsOf(q, s) ==
  (IF q.scope = s THEN {q.row} ELSE {}) \cup (IF q.step \in Writing THEN {q.copy.mapping[s]} ELSE {})

Claims(s) == ({mapping[s]} \cup UNION {ClaimsOf(requests[p], s) : p \in Procs}) \ {None}

\* All rows there are for a brand's scope agree, and with what is expected.
OneClaim(s) ==
  /\ \A c, d \in Claims(s) : c = d
  /\ workload.expected[s] # None => \A c \in Claims(s) : c.wallet = workload.expected[s]

\* Without the spike's page there are no records, in no table and no copy, and
\* a brand's request never looks for candidates.
NoRecords(q) ==
  /\ q.step \notin {"find", "add"}
  /\ q.step \in Writing => \A a \in Accounts : q.copy.legacy[a] = None
  /\ q.step \in {"taken", "candidates"} => q.scope \in PayoutScopes

BrandInv ==
  workload.spike = {} =>
    /\ \A a \in Accounts : legacy[a] = None
    /\ \A p \in Procs : NoRecords(requests[p])
    /\ \A s \in Scopes \ PayoutScopes : OneClaim(s)

\* A step of request p that adds no claim.
LEMMA BrandStep ==
  ASSUME Inv, BrandInv, workload.spike = {}, UNCHANGED workload,
         NEW p \in Procs, NEW q, Become(p, q), NoRecords(q),
         \A a \in Accounts : legacy'[a] = None,
         \A s \in Scopes \ PayoutScopes :
           mapping'[s] \in Claims(s) \cup {None} /\ ClaimsOf(q, s) \subseteq Claims(s) \cup {None}
  PROVE  BrandInv'
<1>1. requests \in [Procs -> Request] /\ requests' = [requests EXCEPT ![p] = q]
  BY DEF Inv, TypeOK, Request, Become
<1>2. \A o \in Procs : NoRecords(requests'[o])
  BY <1>1 DEF BrandInv
<1>3. ASSUME NEW s \in Scopes \ PayoutScopes PROVE Claims(s)' \subseteq Claims(s)
  <2>1. \A o \in Procs : ClaimsOf(requests'[o], s) \subseteq Claims(s) \cup {None}
    BY <1>1 DEF Claims
  <2>2. Claims(s)' = ({mapping'[s]} \cup UNION {ClaimsOf(requests'[o], s) : o \in Procs}) \ {None}
    BY DEF Claims, ClaimsOf
  <2> QED BY <2>1, <2>2
<1>4. ASSUME NEW s \in Scopes \ PayoutScopes PROVE OneClaim(s)'
  BY <1>3 DEF OneClaim, BrandInv
<1> QED BY <1>2, <1>4 DEF BrandInv, NoRecords

\* What there is already is a claim.
LEMMA OldClaims ==
  ASSUME NEW s \in Scopes
  PROVE  /\ mapping[s] \in Claims(s) \cup {None}
         /\ \A p \in Procs : ClaimsOf(requests[p], s) \subseteq Claims(s) \cup {None}
BY DEF Claims

\* A request that ends claims nothing.
LEMMA BrandFinish ==
  ASSUME Inv, BrandInv, workload.spike = {}, UNCHANGED <<workload, mapping, legacy>>,
         NEW p \in Procs, Finish(p)
  PROVE  BrandInv'
<1>1. NoRecords(Idle) /\ \A s \in Scopes : ClaimsOf(Idle, s) = {}
  BY WalletConstants DEF WalletConstants, NoRecords, Idle, ClaimsOf, Writing
<1> QED BY <1>1, OldClaims, BrandStep DEF Finish, BrandInv

\* A request that goes on with the row it had, or with the one in the table.
LEMMA BrandQuiet ==
  ASSUME Inv, BrandInv, workload.spike = {}, OnlyRequests,
         NEW p \in Procs, NEW q, Become(p, q), NoRecords(q), q.step \notin Writing,
         \/ q.scope = Scope(p) /\ q.row = requests[p].row
         \/ q.scope \in Scopes /\ q.row \in {mapping[q.scope], None}
         \/ q.scope \in PayoutScopes
  PROVE  BrandInv'
<1>1. ASSUME NEW s \in Scopes \ PayoutScopes PROVE ClaimsOf(q, s) \subseteq Claims(s) \cup {None}
  BY OldClaims DEF ClaimsOf, Claims, Scope
<1> QED BY <1>1, OldClaims, BrandStep DEF OnlyRequests, BrandInv

LEMMA AskBrand ==
  ASSUME Inv, BrandInv, workload.spike = {}, NEW p \in Procs, Ask(p)
  PROVE  BrandInv'
<1>1. PICK s \in Scopes : AskAccount(p, s) \/ AskStatus(p, s)
  BY DEF Ask, AskRecord
<1>2. PICK step \in {"list", "taken", "answer"} :
        Arrive(p, s, step) /\ (step = "taken" => s \in PayoutScopes)
  BY <1>1, Zenon DEF AskAccount, AskStatus
<1> DEFINE q == [Idle EXCEPT !.scope = s, !.step = step,
                             !.row = IF step = "answer" THEN mapping[s] ELSE None]
<1>3. q.scope = s /\ q.step = step /\ q.row \in {mapping[s], None}
  BY DEF Idle
<1>4. Become(p, q) /\ OnlyRequests
  BY <1>2 DEF Arrive
<1> HIDE DEF q
<1>5. NoRecords(q)
  BY <1>2, <1>3 DEF NoRecords, Writing
<1> QED BY <1>2, <1>3, <1>4, <1>5, BrandQuiet DEF Writing

\* Without the spike's page every claim is a live wallet of the account.
LEMMA ClaimsFit ==
  ASSUME Inv, workload.spike = {}, NEW s \in Scopes, NEW c \in Claims(s)
  PROVE  c \in Row /\ c.live = TRUE /\ c.wallet \in Usable(workload.owner[s])
<1>1. NoEarlyRecords /\ OwnerOf(s) = workload.owner[s]
  BY WorkloadFacts DEF NoEarlyRecords, Inv
<1>2. Fits(workload.owner[s], mapping[s])
  BY <1>1 DEF Inv, TablesFit
<1>3. ASSUME NEW p \in Procs, NEW d \in ClaimsOf(requests[p], s)
      PROVE  Fits(workload.owner[s], d)
  <2>1. RequestFits(requests[p])
    BY <1>1 DEF Inv, Sound
  <2> QED BY <1>1, <1>3, <2>1 DEF ClaimsOf, RequestFits, TablesFit, Writing
<1>4. c # None /\ Fits(workload.owner[s], c)
  BY <1>2, <1>3 DEF Claims
<1> QED BY <1>4 DEF Fits, Row

LEMMA SameRows ==
  ASSUME NEW c \in Row, NEW d \in Row, c.wallet = d.wallet, c.live = d.live
  PROVE  c = d
<1>1. c = [wallet |-> c.wallet, live |-> c.live] /\ d = [wallet |-> d.wallet, live |-> d.live]
  BY DEF Row
<1> QED BY <1>1

\* The wallet a brand's scope takes at Circle is the one it has claimed, if any.
LEMMA ListCircleBrand ==
  ASSUME Inv, BrandInv, workload.spike = {}, NEW p \in Procs, ListCircle(p)
  PROVE  BrandInv'
<1> DEFINE t == Scope(p)
           r == requests[p]
<1>1. r \in Request /\ t \in Scopes /\ r.step = "list" /\ t = r.scope
  BY DEF Inv, Sound, Placed, ScopeSteps, ListCircle, At, Scope
<1>2. CASE VerifiedWallets(t) = {}
  <2> DEFINE q == [r EXCEPT !.step = "legacy"]
  <2>1. q.step = "legacy" /\ q.scope = t /\ q.row = r.row
    BY <1>1 DEF Request
  <2>2. Become(p, q) /\ OnlyRequests
    BY <1>2 DEF ListCircle, Go
  <2> HIDE DEF q
  <2>3. NoRecords(q)
    BY <2>1 DEF NoRecords, Writing
  <2> QED BY <2>1, <2>2, <2>3, BrandQuiet DEF Writing
<1>3. ASSUME NEW w \in VerifiedWallets(t),
             Become(p, [r EXCEPT !.step = "migrate", !.verified = TRUE,
                                 !.row = [wallet |-> w, live |-> circle[w].live]])
      PROVE  BrandInv'
  <2> DEFINE row == [wallet |-> w, live |-> circle[w].live]
             q == [r EXCEPT !.step = "migrate", !.verified = TRUE, !.row = row]
  <2>1. w \in Usable(workload.owner[t])
    BY <1>1, <1>3, VerifiedAre
  <2>2. w \in Wallets /\ circle[w].live = TRUE
    BY <2>1, <1>1, WorkloadFacts, UsableWasMade DEF Inv, TypeOK
  <2>3. q.step = "migrate" /\ q.scope = t /\ q.row = row
    BY <1>1 DEF Request
  <2>4. requests \in [Procs -> Request] /\ requests' = [requests EXCEPT ![p] = q]
    BY <1>3 DEF Become, Inv, TypeOK, Request
  <2>5. UNCHANGED <<workload, mapping, legacy>>
    BY DEF ListCircle, OnlyRequests
  <2>6. row.wallet = w /\ row.live = TRUE /\ row \in Row
    BY <2>2 DEF Row
  <2> HIDE DEF q, row
  <2>7. NoRecords(q)
    BY <2>3 DEF NoRecords, Writing
  <2>8. \A o \in Procs : NoRecords(requests'[o])
    BY <2>4, <2>7 DEF BrandInv
  <2>9. ASSUME NEW s \in Scopes \ PayoutScopes
        PROVE  Claims(s)' \subseteq Claims(s) \cup (IF s = t THEN {row} ELSE {})
    <3>1. ClaimsOf(q, s) \subseteq (IF s = t THEN {row} ELSE {})
      BY <2>3 DEF ClaimsOf, Writing
    <3>2. \A o \in Procs : ClaimsOf(requests'[o], s) \subseteq Claims(s) \cup {None} \cup (IF s = t THEN {row} ELSE {})
      BY <2>4, <3>1, OldClaims
    <3>3. Claims(s)' = ({mapping'[s]} \cup UNION {ClaimsOf(requests'[o], s) : o \in Procs}) \ {None}
      BY DEF Claims, ClaimsOf
    <3> QED BY <2>5, <3>2, <3>3, OldClaims
  <2>a. ASSUME t \notin PayoutScopes, NEW c \in Claims(t)
        PROVE  c \in Row /\ c.live = TRUE /\ c.wallet \in Usable(workload.owner[t])
    BY <1>1, ClaimsFit
  <2>b. ASSUME t \notin PayoutScopes, NEW c \in Claims(t) PROVE c.wallet = w
    <3>1. CASE workload.expected[t] # None
      BY <1>1, <1>3, <2>b, <3>1, VerifiedAre DEF BrandInv, OneClaim
    <3>2. CASE workload.expected[t] = None
      BY <1>1, <1>3, <2>a, <2>b, <3>2, VerifiedAre
    <3> QED BY <3>1, <3>2
  <2>c. ASSUME t \notin PayoutScopes, NEW c \in Claims(t) PROVE c = row
    <3>1. c \in Row /\ row \in Row /\ c.wallet = row.wallet /\ c.live = row.live
      BY <2>6, <2>a, <2>b, <2>c
    <3> QED BY <3>1, SameRows
  <2>d. workload.expected[t] # None => w = workload.expected[t]
    BY <1>1, <1>3, VerifiedAre
  <2>e. ASSUME NEW s \in Scopes \ PayoutScopes PROVE OneClaim(s)'
    <3>1. CASE s = t
      BY <2>5, <2>6, <2>9, <2>c, <2>d, <3>1 DEF OneClaim
    <3>2. CASE s # t
      BY <2>5, <2>9, <3>2 DEF OneClaim, BrandInv
    <3> QED BY <3>1, <3>2
  <2> QED BY <2>5, <2>8, <2>e DEF BrandInv, NoRecords
<1> QED BY <1>2, <1>3 DEF ListCircle

LEMMA ReadLegacyBrand ==
  ASSUME Inv, BrandInv, workload.spike = {}, NEW p \in Procs, ReadLegacy(p)
  PROVE  BrandInv'
<1>1. requests[p].step = "legacy" /\ Scope(p) \in Scopes
  BY DEF Inv, Sound, Placed, ScopeSteps, ReadLegacy, At, Scope
<1>2. Account(p) \in Accounts
  BY <1>1, WorkloadFacts DEF Inv, Account
<1>3. Finish(p) /\ OnlyRequests
  BY <1>2 DEF ReadLegacy, BrandInv
<1> QED BY <1>3, BrandFinish DEF OnlyRequests

\* A request writes a copy that holds no records, and no rows but the claims.
LEMMA BrandSaving ==
  ASSUME Inv, BrandInv, workload.spike = {}, OnlyRequests, NEW p \in Procs,
         NEW copy, NEW next, Become(p, Saving(requests[p], copy, next)),
         \A a \in Accounts : copy.legacy[a] = None,
         \A s \in Scopes : copy.mapping[s] \in Claims(s) \cup {None}
  PROVE  BrandInv'
<1> DEFINE r == requests[p]
           q == Saving(r, copy, next)
<1>1. r \in Request
  BY DEF Inv, Sound
<1>2. q.step = "writeScoped" /\ q.scope = r.scope /\ q.row = r.row /\ q.copy = copy
  BY <1>1 DEF Saving, Request
<1>3. Become(p, q)
  OBVIOUS
<1> HIDE DEF q
<1>4. NoRecords(q)
  BY <1>2 DEF NoRecords, Writing
<1>5. ASSUME NEW s \in Scopes PROVE ClaimsOf(q, s) \subseteq Claims(s) \cup {None}
  <2>1. ClaimsOf(q, s) \subseteq ClaimsOf(r, s) \cup {copy.mapping[s]}
    BY <1>2 DEF ClaimsOf
  <2> QED BY <2>1, OldClaims
<1> QED BY <1>3, <1>4, <1>5, OldClaims, BrandStep DEF OnlyRequests, BrandInv

\* The row that a request holds, put into a copy of the table.
LEMMA CopyWithRow ==
  ASSUME Inv, NEW p \in Procs, Scope(p) \in Scopes
  PROVE  LET copy == [Stored EXCEPT !.mapping[Scope(p)] = requests[p].row]
         IN /\ copy.legacy = legacy
            /\ \A s \in Scopes : copy.mapping[s] \in Claims(s) \cup {None}
<1> DEFINE copy == [Stored EXCEPT !.mapping[Scope(p)] = requests[p].row]
<1>1. /\ copy.legacy = legacy
      /\ \A s \in Scopes : copy.mapping[s] = IF s = Scope(p) THEN requests[p].row ELSE mapping[s]
  BY DEF Stored, Inv, TypeOK
<1>2. requests[p].row \in ClaimsOf(requests[p], Scope(p))
  BY DEF ClaimsOf, Scope
<1> QED BY <1>1, <1>2, OldClaims

LEMMA UpsertBrand ==
  ASSUME Inv, BrandInv, workload.spike = {}, NEW p \in Procs, Upsert(p)
  PROVE  BrandInv'
<1> DEFINE copy == [Stored EXCEPT !.mapping[Scope(p)] = requests[p].row]
<1>1. Scope(p) \in Scopes
  BY DEF Inv, Sound, Placed, ScopeSteps, Upsert, At, Scope
<1>2. Become(p, Saving(requests[p], copy, "answer")) /\ OnlyRequests
  BY DEF Upsert, Scope
<1>3. copy.legacy = legacy /\ \A s \in Scopes : copy.mapping[s] \in Claims(s) \cup {None}
  BY <1>1, CopyWithRow
<1> HIDE DEF copy
<1> QED BY <1>2, <1>3, BrandSaving DEF BrandInv

LEMMA MigrateBrand ==
  ASSUME Inv, BrandInv, workload.spike = {}, NEW p \in Procs, Migrate(p)
  PROVE  BrandInv'
<1> DEFINE r == requests[p]
           s == Scope(p)
<1>1. r \in Request /\ s \in Scopes /\ s = r.scope /\ r.step = "migrate"
  BY DEF Inv, Sound, Placed, ScopeSteps, Migrate, At, Scope
<1>2. legacy[Account(p)] = None
  BY <1>1, WorkloadFacts DEF Inv, Account, BrandInv
<1>3. OnlyRequests
  BY DEF Migrate
<1>4. CASE Finish(p)
  BY <1>3, <1>4, BrandFinish DEF OnlyRequests
<1>5. CASE mapping[s] # None /\ Become(p, [r EXCEPT !.step = "answer", !.row = mapping[s]])
  <2> DEFINE q == [r EXCEPT !.step = "answer", !.row = mapping[s]]
  <2>1. q.step = "answer" /\ q.scope = s /\ q.row = mapping[s]
    BY <1>1 DEF Request
  <2>2. Become(p, q)
    BY <1>5
  <2> HIDE DEF q
  <2>3. NoRecords(q) /\ q.step \notin Writing
    BY <2>1 DEF NoRecords, Writing
  <2> QED BY <1>1, <1>3, <2>1, <2>2, <2>3, BrandQuiet
<1>6. CASE Become(p, [r EXCEPT !.step = "upsert"])
  <2> DEFINE q == [r EXCEPT !.step = "upsert"]
  <2>1. q.step = "upsert" /\ q.scope = s /\ q.row = r.row
    BY <1>1 DEF Request
  <2>2. Become(p, q)
    BY <1>6
  <2> HIDE DEF q
  <2>3. NoRecords(q) /\ q.step \notin Writing
    BY <2>1 DEF NoRecords, Writing
  <2> QED BY <1>1, <1>3, <2>1, <2>2, <2>3, BrandQuiet
<1>7. \/ Finish(p)
      \/ mapping[s] # None /\ Become(p, [r EXCEPT !.step = "answer", !.row = mapping[s]])
      \/ Become(p, [r EXCEPT !.step = "upsert"])
  BY <1>2, Zenon DEF Migrate
<1> QED BY <1>4, <1>5, <1>6, <1>7

LEMMA WriteLegacyBrand ==
  ASSUME Inv, BrandInv, workload.spike = {}, NEW p \in Procs, WriteLegacy(p)
  PROVE  BrandInv'
<1> DEFINE r == requests[p]
           q == [r EXCEPT !.step = "writeScoped"]
<1>1. r \in Request /\ r.step = "writeLegacy" /\ r.copy \in Copy
  BY DEF Inv, Sound, Placed, WriteLegacy, At
<1>2. \A a \in Accounts : r.copy.legacy[a] = None
  BY <1>1 DEF BrandInv, NoRecords, Writing
<1>3. \A a \in Accounts : legacy'[a] = None
  BY <1>1, <1>2, UpsertedFits DEF BrandInv, WriteLegacy, Inv, TypeOK, Copy
<1>4. q.step = "writeScoped" /\ q.scope = r.scope /\ q.row = r.row /\ q.copy = r.copy
  BY <1>1 DEF Request
<1>5. Become(p, q) /\ UNCHANGED <<workload, mapping>>
  BY DEF WriteLegacy, Go
<1> HIDE DEF q
<1>6. NoRecords(q)
  BY <1>2, <1>4 DEF NoRecords, Writing
<1>7. \A s \in Scopes : ClaimsOf(q, s) = ClaimsOf(r, s)
  BY <1>1, <1>4 DEF ClaimsOf, Writing
<1> QED BY <1>3, <1>5, <1>6, <1>7, OldClaims, BrandStep

LEMMA WriteScopedBrand ==
  ASSUME Inv, BrandInv, workload.spike = {}, NEW p \in Procs, WriteScoped(p)
  PROVE  /\ BrandInv'
         /\ \A s \in Scopes : mapping'[s] \in {mapping[s]} \cup ClaimsOf(requests[p], s)
         /\ \A s \in Scopes : mapping[s] # None => mapping'[s] # None
<1> DEFINE r == requests[p]
           rows == Upserted(mapping, r.copy.mapping)
           q == [r EXCEPT !.step = r.next, !.copy = None, !.next = "idle"]
<1>1. r \in Request /\ r.step = "writeScoped" /\ r.copy \in Copy
      /\ r.next \in {"idle", "upsert", "answer"}
  BY DEF Inv, Sound, Placed, WriteScoped, At
<1>2. \A s \in Scopes : rows[s] \in {mapping[s], r.copy.mapping[s]}
  BY <1>1, UpsertedFits DEF Inv, TypeOK, Copy
<1>3. mapping' \in {rows, mapping} /\ UNCHANGED <<workload, legacy>>
  BY DEF WriteScoped
<1>4. \A s \in Scopes : mapping'[s] \in {mapping[s]} \cup ClaimsOf(r, s)
  BY <1>1, <1>2, <1>3 DEF ClaimsOf, Writing
<1>5. \A s \in Scopes : mapping[s] # None => mapping'[s] # None
  BY <1>3 DEF Upserted, Inv, TypeOK
<1>6. \E n : /\ Become(p, n) /\ NoRecords(n)
             /\ \A s \in Scopes : ClaimsOf(n, s) \subseteq ClaimsOf(r, s)
  <2>1. CASE Finish(p)
    <3>1. NoRecords(Idle) /\ \A s \in Scopes : ClaimsOf(Idle, s) = {}
      BY WalletConstants DEF WalletConstants, NoRecords, Idle, ClaimsOf, Writing
    <3> QED BY <2>1, <3>1 DEF Finish
  <2>2. CASE Become(p, q)
    <3>1. q.step = r.next /\ q.scope = r.scope /\ q.row = r.row
      BY <1>1 DEF Request
    <3> HIDE DEF q
    <3>2. NoRecords(q)
      BY <1>1, <3>1 DEF NoRecords, Writing
    <3>3. \A s \in Scopes : ClaimsOf(q, s) \subseteq ClaimsOf(r, s)
      BY <1>1, <3>1 DEF ClaimsOf, Writing
    <3> QED BY <2>2, <3>2, <3>3
  <2> QED BY <2>1, <2>2 DEF WriteScoped
<1>7. PICK n : /\ Become(p, n) /\ NoRecords(n)
               /\ \A s \in Scopes : ClaimsOf(n, s) \subseteq ClaimsOf(r, s)
  BY <1>6
<1>8. \A s \in Scopes : /\ mapping'[s] \in Claims(s) \cup {None}
                        /\ ClaimsOf(n, s) \subseteq Claims(s) \cup {None}
  BY <1>4, <1>7, OldClaims
<1>9. BrandInv'
  BY <1>3, <1>7, <1>8, BrandStep DEF BrandInv
<1> QED BY <1>4, <1>5, <1>9

LEMMA ReadTakenBrand ==
  ASSUME Inv, BrandInv, workload.spike = {}, NEW p \in Procs, ReadTaken(p)
  PROVE  BrandInv'
<1> DEFINE r == requests[p]
           rows == {mapping[s] : s \in Scopes} \cup {legacy[a] : a \in Accounts}
           taken == {row.wallet : row \in rows \ {None}}
           q == [r EXCEPT !.step = "candidates", !.taken = taken]
<1>1. r \in Request /\ r.step = "taken" /\ r.scope \in PayoutScopes
  BY DEF Inv, Sound, ReadTaken, At, BrandInv, NoRecords
<1>2. q.step = "candidates" /\ q.scope = r.scope
  BY <1>1 DEF Request
<1>3. Become(p, q) /\ OnlyRequests
  BY DEF ReadTaken
<1> HIDE DEF q
<1>4. NoRecords(q) /\ q.step \notin Writing
  BY <1>1, <1>2 DEF NoRecords, Writing
<1> QED BY <1>1, <1>2, <1>3, <1>4, BrandQuiet

LEMMA ChooseCandidateBrand ==
  ASSUME Inv, BrandInv, workload.spike = {}, NEW p \in Procs, ChooseCandidate(p)
  PROVE  BrandInv'
<1> DEFINE r == requests[p]
           q(w) == [r EXCEPT !.step = "upsert", !.taken = {}, !.row = [wallet |-> w, live |-> TRUE]]
<1>1. r \in Request /\ r.step = "candidates" /\ r.scope \in PayoutScopes
  BY DEF Inv, Sound, ChooseCandidate, At, BrandInv, NoRecords
<1>2. OnlyRequests /\ (Finish(p) \/ \E w : Become(p, q(w)))
  BY DEF ChooseCandidate
<1>3. ASSUME NEW w, Become(p, q(w)) PROVE BrandInv'
  <2>1. q(w).step = "upsert" /\ q(w).scope = r.scope
    BY <1>1 DEF Request
  <2> HIDE DEF q
  <2>2. NoRecords(q(w)) /\ q(w).step \notin Writing
    BY <2>1 DEF NoRecords, Writing
  <2> QED BY <1>1, <1>2, <1>3, <2>1, <2>2, BrandQuiet
<1> QED BY <1>2, <1>3, BrandFinish DEF OnlyRequests

LEMMA NextBrand == Inv /\ BrandInv /\ [Next]_vars => BrandInv'
<1> SUFFICES ASSUME Inv, BrandInv, [Next]_vars PROVE BrandInv'
  OBVIOUS
<1> SUFFICES ASSUME workload.spike = {} PROVE BrandInv'
  <2>1. workload' = workload
    <3>1. ASSUME NEW p \in Procs, Handle(p) PROVE workload' = workload
      BY <3>1 DEF Handle, ListCircle, ReadLegacy, Migrate, Upsert, WriteLegacy, WriteScoped, Answer,
         ReadTaken, ChooseCandidate, FindWallet, AddRecord, OnlyRequests
    <3>2. ASSUME NEW p \in Procs, Abort(p) \/ Ask(p) PROVE workload' = workload
      BY <3>2 DEF Abort, Ask, AskAccount, AskStatus, AskRecord, Arrive, OnlyRequests
    <3> QED BY <3>1, <3>2, OutsideGrows DEF Next, vars
  <2> QED BY <2>1 DEF BrandInv
<1>1. ASSUME NEW p \in Procs, Answer(p) \/ Abort(p) PROVE BrandInv'
  BY <1>1, BrandFinish DEF Answer, Abort
<1>2. ASSUME NEW p \in Procs, FindWallet(p) \/ AddRecord(p) PROVE FALSE
  BY <1>2 DEF FindWallet, AddRecord, At, BrandInv, NoRecords
<1>3. ASSUME NEW p \in Procs, Handle(p) PROVE BrandInv'
  BY <1>1, <1>2, <1>3, ListCircleBrand, ReadLegacyBrand, MigrateBrand, UpsertBrand, WriteLegacyBrand,
     WriteScopedBrand, ReadTakenBrand, ChooseCandidateBrand DEF Handle
<1>4. ASSUME NEW p \in Procs, Abort(p) \/ Ask(p) PROVE BrandInv'
  BY <1>1, <1>4, AskBrand
<1>5. CASE UNCHANGED <<workload, mapping, legacy, requests>>
  <2>1. \A s \in Scopes : Claims(s)' = Claims(s)
    BY <1>5 DEF Claims, ClaimsOf
  <2>2. \A s \in Scopes : OneClaim(s) => OneClaim(s)'
    BY <1>5, <2>1 DEF OneClaim
  <2> QED BY <1>5, <2>2 DEF BrandInv, NoRecords
<1> QED BY <1>3, <1>4, <1>5, OutsideGrows DEF Next, vars

\* Where nobody records wallets for the spike's page, no two rows that a
\* request or the table holds for a brand's scope differ.
THEOREM BrandInvHolds == Spec => []BrandInv
<1>1. Init => BrandInv
  <2> SUFFICES ASSUME Init PROVE BrandInv
    OBVIOUS
  <2>1. \A p \in Procs : requests[p].step = "idle" /\ requests[p].row = None
    BY DEF Init, Idle
  <2>2. \A s \in Scopes : Claims(s) = {}
    BY <2>1 DEF Init, Claims, ClaimsOf, Writing
  <2> QED BY <2>1, <2>2 DEF Init, BrandInv, NoRecords, OneClaim, Writing
<1> QED BY <1>1, InitInv, NextInv, NextBrand, PTL DEF Spec

\* A scope that is mapped stays mapped, and a brand's to the same wallet.
LEMMA MappedStays ==
  ASSUME Inv, BrandInv, workload.spike = {}, [Next]_vars
  PROVE  /\ \A s \in Scopes : mapping[s] # None => mapping'[s] # None
         /\ \A s \in Scopes \ PayoutScopes : mapping[s] # None => mapping'[s] = mapping[s]
<1>1. CASE UNCHANGED mapping
  BY <1>1
<1>2. ASSUME NEW p \in Procs, WriteScoped(p), NEW s \in Scopes \ PayoutScopes, mapping[s] # None
      PROVE  mapping'[s] = mapping[s]
  <2>1. mapping[s] \in Claims(s) /\ mapping'[s] \in Claims(s)
    BY <1>2, WriteScopedBrand DEF Claims
  <2> QED BY <1>2, <2>1 DEF BrandInv, OneClaim
<1>3. UNCHANGED mapping \/ \E p \in Procs : WriteScoped(p)
  BY DEF Next, vars, Handle, Ask, Abort, ListCircle, ReadLegacy, Migrate, Upsert, WriteLegacy,
     Answer, ReadTaken, ChooseCandidate, FindWallet, AddRecord, Setup, Enroll, Approve, GoLive,
     AskAccount, AskStatus, AskRecord, Arrive, OnlyRequests, OnlyCircle
<1> QED BY <1>1, <1>2, <1>3, WriteScopedBrand

\* A brand keeps the wallet it was mapped to, whatever old copies are written.
THEOREM MappingStaysHolds == Spec => MappingStays
<1>1. Inv /\ BrandInv /\ [Next]_vars =>
        [\A s \in Scopes \ PayoutScopes :
           workload.spike = {} /\ mapping[s] # None => mapping'[s] = mapping[s]]_vars
  BY MappedStays
<1> QED BY <1>1, InvHolds, BrandInvHolds, PTL DEF Spec, MappingStays

-----------------------------------------------------------------------------
(* A brand keeps the wallet its page was given.                            *)

\* Who is about to answer has a scope that is mapped, or is about to map it.
Answerable(q, rows) ==
  /\ q.step = "answer" => rows[q.scope] # None
  /\ q.step \in Writing /\ q.next = "answer" => q.copy.mapping[q.scope] # None

\* What a brand's page was given is what its scope is mapped to.
GivenIsMapped ==
  \A s \in Scopes \ PayoutScopes : shown[s] # None => mapping[s] # None /\ mapping[s].wallet = shown[s]

GivenInv ==
  /\ OneScopePerWallet(mapping)
  /\ workload.spike = {} => GivenIsMapped /\ \A p \in Procs : Answerable(requests[p], mapping)

\* A request goes on, and nothing is written or answered.
LEMMA GivenStep ==
  ASSUME Inv, GivenInv, workload.spike = {}, UNCHANGED <<workload, mapping, shown>>,
         NEW p \in Procs, NEW q, Become(p, q), Answerable(q, mapping)
  PROVE  GivenInv'
<1>1. \A o \in Procs : requests'[o] = IF o = p THEN q ELSE requests[o]
  BY DEF Become, Inv, TypeOK
<1>2. \A o \in Procs : Answerable(requests'[o], mapping')
  BY <1>1 DEF Answerable, GivenInv
<1> QED BY <1>2 DEF GivenInv, GivenIsMapped, OneScopePerWallet, Answerable

\* A request that ends, or that neither writes nor answers next.
LEMMA GivenQuiet ==
  ASSUME Inv, GivenInv, workload.spike = {}, UNCHANGED <<workload, mapping, shown>>,
         NEW p \in Procs, NEW q, Become(p, q), q.step \notin Writing \cup {"answer"}
  PROVE  GivenInv'
BY GivenStep DEF Answerable

LEMMA GivenFinish ==
  ASSUME Inv, GivenInv, workload.spike = {}, UNCHANGED <<workload, mapping, shown>>,
         NEW p \in Procs, Finish(p)
  PROVE  GivenInv'
<1>1. Idle.step \notin Writing \cup {"answer"}
  BY DEF Idle, Writing
<1> QED BY <1>1, GivenQuiet DEF Finish

LEMMA AskGiven ==
  ASSUME Inv, BrandInv, GivenInv, workload.spike = {}, NEW p \in Procs, Ask(p)
  PROVE  GivenInv'
<1>1. PICK s \in Scopes : AskAccount(p, s) \/ AskStatus(p, s)
  BY DEF Ask, AskRecord
<1>2. PICK step \in {"list", "taken", "answer"} :
        Arrive(p, s, step) /\ (step = "answer" => mapping[s] # None)
  BY <1>1, Zenon DEF AskAccount, AskStatus
<1> DEFINE q == [Idle EXCEPT !.scope = s, !.step = step,
                             !.row = IF step = "answer" THEN mapping[s] ELSE None]
<1>3. q.scope = s /\ q.step = step
  BY DEF Idle
<1>4. Become(p, q) /\ UNCHANGED <<workload, mapping, shown>>
  BY <1>2 DEF Arrive, OnlyRequests
<1> HIDE DEF q
<1>5. Answerable(q, mapping)
  BY <1>2, <1>3 DEF Answerable, Writing
<1> QED BY <1>4, <1>5, GivenStep

LEMMA ReadGiven ==
  ASSUME Inv, BrandInv, GivenInv, workload.spike = {}, NEW p \in Procs,
         ListCircle(p) \/ ReadLegacy(p) \/ ReadTaken(p) \/ ChooseCandidate(p)
  PROVE  GivenInv'
<1> DEFINE r == requests[p]
<1>1. r \in Request /\ UNCHANGED <<workload, mapping, shown>>
  BY DEF Inv, Sound, ListCircle, ReadLegacy, ReadTaken, ChooseCandidate, OnlyRequests
<1>2. CASE ListCircle(p)
  <2>1. CASE Go(p, "legacy")
    <3>1. [r EXCEPT !.step = "legacy"].step \notin Writing \cup {"answer"}
      BY <1>1 DEF Request, Writing
    <3> QED BY <1>1, <2>1, <3>1, GivenQuiet DEF Go
  <2>2. ASSUME NEW w, Become(p, [r EXCEPT !.step = "migrate", !.verified = TRUE,
                                          !.row = [wallet |-> w, live |-> circle[w].live]])
        PROVE  GivenInv'
    <3> DEFINE q == [r EXCEPT !.step = "migrate", !.verified = TRUE,
                              !.row = [wallet |-> w, live |-> circle[w].live]]
    <3>1. Become(p, q) /\ q.step \notin Writing \cup {"answer"}
      BY <1>1, <2>2 DEF Request, Writing
    <3> HIDE DEF q
    <3> QED BY <1>1, <3>1, GivenQuiet
  <2> QED BY <1>2, <2>1, <2>2 DEF ListCircle
<1>3. CASE ReadLegacy(p)
  <2>1. r.step = "legacy" /\ Scope(p) \in Scopes
    BY <1>3 DEF Inv, Sound, Placed, ScopeSteps, ReadLegacy, At, Scope
  <2>2. Account(p) \in Accounts
    BY <2>1, WorkloadFacts DEF Inv, Account
  <2>3. Finish(p)
    BY <1>3, <2>2 DEF ReadLegacy, BrandInv
  <2> QED BY <1>1, <2>3, GivenFinish
<1>4. CASE ReadTaken(p)
  <2> DEFINE rows == {mapping[s] : s \in Scopes} \cup {legacy[a] : a \in Accounts}
             q == [r EXCEPT !.step = "candidates", !.taken = {row.wallet : row \in rows \ {None}}]
  <2>1. Become(p, q)
    BY <1>4 DEF ReadTaken
  <2>2. q.step \notin Writing \cup {"answer"}
    BY <1>1 DEF Request, Writing
  <2> HIDE DEF q
  <2> QED BY <1>1, <2>1, <2>2, GivenQuiet
<1>5. CASE ChooseCandidate(p)
  <2> DEFINE q(w) == [r EXCEPT !.step = "upsert", !.taken = {}, !.row = [wallet |-> w, live |-> TRUE]]
  <2>1. Finish(p) \/ \E w : Become(p, q(w))
    BY <1>5 DEF ChooseCandidate
  <2>2. \A w : q(w).step \notin Writing \cup {"answer"}
    BY <1>1 DEF Request, Writing
  <2> HIDE DEF q
  <2> QED BY <1>1, <2>1, <2>2, GivenQuiet, GivenFinish
<1> QED BY <1>2, <1>3, <1>4, <1>5

\* Who puts its row into a copy, or writes one, is still to map its scope.
LEMMA SaveGiven ==
  ASSUME Inv, BrandInv, GivenInv, workload.spike = {}, NEW p \in Procs,
         Migrate(p) \/ Upsert(p) \/ WriteLegacy(p)
  PROVE  GivenInv'
<1> DEFINE r == requests[p]
           s == Scope(p)
<1>1. r \in Request /\ s = r.scope /\ UNCHANGED <<workload, mapping, shown>>
  BY DEF Inv, Sound, Scope, Migrate, Upsert, WriteLegacy, OnlyRequests
<1>2. CASE Migrate(p)
  <2>1. r.step = "migrate" /\ s \in Scopes
    BY <1>2 DEF Inv, Sound, Placed, ScopeSteps, Migrate, At, Scope
  <2>2. legacy[Account(p)] = None
    BY <2>1, WorkloadFacts DEF Inv, Account, BrandInv
  <2>3. \/ Finish(p)
        \/ mapping[s] # None /\ Become(p, [r EXCEPT !.step = "answer", !.row = mapping[s]])
        \/ Become(p, [r EXCEPT !.step = "upsert"])
    BY <1>2, <2>2, Zenon DEF Migrate
  <2>4. ASSUME mapping[s] # None, Become(p, [r EXCEPT !.step = "answer", !.row = mapping[s]])
        PROVE  GivenInv'
    <3> DEFINE q == [r EXCEPT !.step = "answer", !.row = mapping[s]]
    <3>1. Become(p, q) /\ q.step = "answer" /\ q.scope = s
      BY <1>1, <2>4 DEF Request
    <3> HIDE DEF q
    <3>2. Answerable(q, mapping)
      BY <2>4, <3>1 DEF Answerable, Writing
    <3> QED BY <1>1, <3>1, <3>2, GivenStep
  <2>5. ASSUME Become(p, [r EXCEPT !.step = "upsert"]) PROVE GivenInv'
    <3>1. [r EXCEPT !.step = "upsert"].step \notin Writing \cup {"answer"}
      BY <1>1 DEF Request, Writing
    <3> QED BY <1>1, <2>5, <3>1, GivenQuiet
  <2> QED BY <1>1, <2>3, <2>4, <2>5, GivenFinish
<1>3. CASE Upsert(p)
  <2> DEFINE copy == [Stored EXCEPT !.mapping[s] = r.row]
             q == Saving(r, copy, "answer")
  <2>1. s \in Scopes /\ r.row \in Row
    BY <1>3 DEF Inv, Sound, Placed, ScopeSteps, RowSteps, Upsert, At, Scope
  <2>2. Become(p, q)
    BY <1>1, <1>3 DEF Upsert
  <2>3. copy.mapping[s] = r.row /\ r.row # None
    BY <2>1, WalletConstants DEF WalletConstants, Row, Stored, Inv, TypeOK
  <2> HIDE DEF copy
  <2>4. q.step \in Writing /\ q.scope = s /\ q.copy = copy
    BY <1>1 DEF Saving, Request, Writing
  <2> HIDE DEF q
  <2>5. Answerable(q, mapping)
    BY <2>3, <2>4 DEF Answerable, Writing
  <2> QED BY <1>1, <2>2, <2>5, GivenStep
<1>4. CASE WriteLegacy(p)
  <2> DEFINE q == [r EXCEPT !.step = "writeScoped"]
  <2>1. r.step = "writeLegacy" /\ Become(p, q)
    BY <1>4 DEF WriteLegacy, At, Go
  <2>2. /\ q.step = "writeScoped" /\ q.scope = r.scope /\ q.copy = r.copy /\ q.next = r.next
    BY <1>1 DEF Request
  <2> HIDE DEF q
  <2>3. Answerable(q, mapping)
    BY <2>1, <2>2 DEF Answerable, Writing, GivenInv
  <2> QED BY <1>1, <2>1, <2>3, GivenStep
<1> QED BY <1>2, <1>3, <1>4

\* The table is asked for its constraint with each write; a write that is taken
\* maps the scope that is about to be answered.
LEMMA WriteGiven ==
  ASSUME Inv, BrandInv, GivenInv, workload.spike = {}, NEW p \in Procs, WriteScoped(p)
  PROVE  GivenInv'
<1> DEFINE r == requests[p]
           rows == Upserted(mapping, r.copy.mapping)
           q == [r EXCEPT !.step = r.next, !.copy = None, !.next = "idle"]
<1>1. r \in Request /\ r.step = "writeScoped" /\ r.copy \in Copy
      /\ r.next \in {"idle", "upsert", "answer"} /\ (r.next # "idle" => r.scope \in Scopes)
  BY DEF Inv, Sound, Placed, WriteScoped, At
<1>2. /\ \A s \in Scopes : mapping[s] # None => mapping'[s] # None
      /\ \A s \in Scopes \ PayoutScopes : mapping[s] # None => mapping'[s] = mapping[s]
  BY MappedStays DEF Next, Handle
<1>3. UNCHANGED <<workload, shown>>
  BY DEF WriteScoped
<1>4. OneScopePerWallet(mapping') /\ GivenIsMapped'
  BY <1>2, <1>3 DEF WriteScoped, GivenInv, GivenIsMapped, OneScopePerWallet
<1>5. ASSUME NEW o \in Procs, requests'[o] = requests[o] PROVE Answerable(requests[o], mapping')
  <2>1. requests[o].step = "answer" => requests[o].scope \in Scopes
    BY DEF Inv, Sound, Placed, ScopeSteps
  <2> QED BY <1>2, <1>5, <2>1 DEF Answerable, GivenInv
<1>6. \E n : Become(p, n) /\ Answerable(n, mapping')
  <2>1. CASE Finish(p)
    <3>1. Answerable(Idle, mapping')
      BY DEF Answerable, Idle, Writing
    <3> QED BY <2>1, <3>1 DEF Finish
  <2>2. CASE OneScopePerWallet(rows) /\ r.next # "idle" /\ Become(p, q)
    <3>1. q.step = r.next /\ q.scope = r.scope
      BY <1>1 DEF Request
    <3>2. r.next = "answer" => mapping'[r.scope] # None
      <4>1. r.next = "answer" => r.copy.mapping[r.scope] # None
        BY <1>1 DEF GivenInv, Answerable, Writing
      <4>2. mapping' = rows
        BY <2>2 DEF WriteScoped
      <4> QED BY <1>1, <4>1, <4>2 DEF Upserted, Inv, TypeOK
    <3> HIDE DEF q
    <3>3. Answerable(q, mapping')
      BY <1>1, <3>1, <3>2 DEF Answerable, Writing
    <3> QED BY <2>2, <3>3
  <2> QED BY <2>1, <2>2 DEF WriteScoped
<1>7. PICK n : Become(p, n) /\ Answerable(n, mapping')
  BY <1>6
<1>8. \A o \in Procs : requests'[o] = IF o = p THEN n ELSE requests[o]
  BY <1>7 DEF Become, Inv, TypeOK
<1>9. \A o \in Procs : Answerable(requests'[o], mapping')
  BY <1>5, <1>7, <1>8 DEF Answerable
<1> QED BY <1>3, <1>4, <1>9 DEF GivenInv, OneScopePerWallet, Answerable

\* The row that is given out is the one the scope is mapped to by then.
LEMMA AnswerGiven ==
  ASSUME Inv, BrandInv, GivenInv, workload.spike = {}, NEW p \in Procs, Answer(p)
  PROVE  GivenInv'
<1> DEFINE r == requests[p]
<1>1. r \in Request /\ r.step = "answer" /\ r.scope \in Scopes /\ r.row \in Row
  BY DEF Inv, Sound, Placed, ScopeSteps, RowSteps, Answer, At
<1>2. mapping[r.scope] # None /\ r.row # None
  BY <1>1, WalletConstants DEF WalletConstants, Row, GivenInv, Answerable
<1>3. ASSUME r.scope \notin PayoutScopes PROVE mapping[r.scope] = r.row
  <2>1. r.row \in ClaimsOf(r, r.scope)
    BY DEF ClaimsOf
  <2>2. mapping[r.scope] \in Claims(r.scope) /\ r.row \in Claims(r.scope)
    BY <1>1, <1>2, <2>1, OldClaims
  <2> QED BY <1>1, <1>3, <2>2 DEF BrandInv, OneClaim
<1>4. /\ shown' \in {[shown EXCEPT ![r.scope] = r.row.wallet], shown}
      /\ UNCHANGED <<workload, mapping>> /\ Finish(p)
  BY DEF Answer, Scope
<1>5. GivenIsMapped'
  BY <1>1, <1>2, <1>3, <1>4 DEF GivenInv, GivenIsMapped, Inv, TypeOK
<1>6. \A o \in Procs : requests'[o] = IF o = p THEN Idle ELSE requests[o]
  BY <1>4 DEF Finish, Become, Inv, TypeOK
<1>7. \A o \in Procs : Answerable(requests'[o], mapping')
  <2>1. Answerable(Idle, mapping')
    BY DEF Answerable, Idle, Writing
  <2>2. \A o \in Procs : Answerable(requests[o], mapping')
    BY <1>4 DEF Answerable, GivenInv
  <2> QED BY <1>6, <2>1, <2>2 DEF Answerable
<1> QED BY <1>4, <1>5, <1>7 DEF GivenInv, OneScopePerWallet, Answerable

LEMMA NextGiven == Inv /\ BrandInv /\ GivenInv /\ [Next]_vars => GivenInv'
<1> SUFFICES ASSUME Inv, BrandInv, GivenInv, [Next]_vars PROVE GivenInv'
  OBVIOUS
<1>1. UNCHANGED mapping \/ OneScopePerWallet(mapping')
  BY DEF WriteScoped, Next, vars, Handle, Ask, Abort, ListCircle, ReadLegacy, Migrate, Upsert,
     WriteLegacy, Answer, ReadTaken, ChooseCandidate, FindWallet, AddRecord, Setup, Enroll, Approve,
     GoLive, AskAccount, AskStatus, AskRecord, Arrive, OnlyRequests, OnlyCircle
<1>2. workload' = workload
  BY DEF WriteScoped, Next, vars, Handle, Ask, Abort, ListCircle, ReadLegacy, Migrate, Upsert,
     WriteLegacy, Answer, ReadTaken, ChooseCandidate, FindWallet, AddRecord, Setup, Enroll, Approve,
     GoLive, AskAccount, AskStatus, AskRecord, Arrive, OnlyRequests, OnlyCircle
<1>3. CASE workload.spike # {}
  BY <1>1, <1>2, <1>3 DEF GivenInv, OneScopePerWallet
<1>4. CASE workload.spike = {}
  <2>1. ASSUME NEW p \in Procs, FindWallet(p) \/ AddRecord(p) PROVE FALSE
    BY <2>1, <1>4 DEF FindWallet, AddRecord, At, BrandInv, NoRecords
  <2>2. ASSUME NEW p \in Procs, Handle(p) PROVE GivenInv'
    BY <1>4, <2>1, <2>2, ReadGiven, SaveGiven, WriteGiven, AnswerGiven DEF Handle
  <2>3. ASSUME NEW p \in Procs, Abort(p) PROVE GivenInv'
    BY <1>4, <2>3, GivenFinish DEF Abort
  <2>4. ASSUME NEW p \in Procs, Ask(p) PROVE GivenInv'
    BY <1>4, <2>4, AskGiven
  <2>5. CASE UNCHANGED <<workload, mapping, shown, requests>>
    BY <2>5 DEF GivenInv, OneScopePerWallet, GivenIsMapped, Answerable
  <2>6. \/ \E p \in Procs : Handle(p) \/ Abort(p) \/ Ask(p)
        \/ UNCHANGED <<workload, mapping, shown, requests>>
    BY DEF Next, vars, Setup, Enroll, Approve, GoLive, OnlyCircle
  <2> QED BY <2>2, <2>3, <2>4, <2>5, <2>6
<1> QED BY <1>3, <1>4

\* The wallet that a brand's page was given stays the brand's, and is mapped for
\* nothing else, whatever overlaps.
THEOREM GivenIsKeptHolds == Spec => []GivenIsKept
<1>1. Init => GivenInv
  <2> SUFFICES ASSUME Init PROVE GivenInv
    OBVIOUS
  <2>1. \A p \in Procs : requests[p].step = "idle"
    BY DEF Init, Idle
  <2> QED BY <2>1 DEF Init, GivenInv, GivenIsMapped, OneScopePerWallet, Answerable, Writing
<1>2. GivenInv => GivenIsKept
  BY DEF GivenInv, GivenIsMapped, GivenIsKept, OneScopePerWallet
<1> QED BY <1>1, <1>2, InvHolds, BrandInvHolds, NextGiven, PTL DEF Spec
=============================================================================
