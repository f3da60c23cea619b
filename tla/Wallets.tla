------------------------------ MODULE Wallets ------------------------------
(***************************************************************************)
(* The registry of scoped wallets, BRAND:PAYMENT and BRAND:PAYOUT:         *)
(* src/services/circle/user-controlled-wallets.server.ts and               *)
(* wallet-spike-store.server.ts on Supabase, the routes that call them,    *)
(* and Circle as they use it.                                              *)
(*                                                                         *)
(* Every function of the store reads both tables whole; a writer changes   *)
(* its copy and upserts all of it, table by table.  Requests overlap.      *)
(***************************************************************************)
EXTENDS Naturals, FiniteSets

CONSTANTS
  Scopes,        \* keys of the mappings: an account, a role and a purpose
  PayoutScopes,  \* those that the payout operator's page maps
  Accounts,      \* accounts, each a user of Circle
  Wallets,       \* the wallets that Circle can make
  Procs,         \* requests in flight at once
  Workloads,     \* see the assumption
  None

ASSUME WalletConstants ==
  /\ PayoutScopes \subseteq Scopes
  /\ Scopes \cap Accounts = {}
  /\ None \notin Scopes \cup Accounts \cup Wallets \cup [wallet : Wallets, live : BOOLEAN]
  /\ IsFiniteSet(Wallets)
  /\ \A l \in Workloads :
       /\ l.owner \in [Scopes -> Accounts]
       /\ \A s \in PayoutScopes : l.expected[s] = None
       /\ l.expected \in [Scopes -> Wallets \cup {None}]  \* expectedBrandWalletAddress
       /\ l.spike \subseteq BOOLEAN  \* the spike's page records wallets that are live, or not yet
       /\ l.faults \in Nat           \* requests that are cut off

VARIABLES
  workload,   \* the one that this behaviour is of
  mapping,    \* table ccn_wallet_mappings
  legacy,     \* table ccn_legacy_wallet_records
  circle,     \* the wallets Circle made: for which operation, and are they live
  offered,    \* the operations whose challenge a page holds
  shown,      \* the wallet that each page was last given
  requests,
  faults

vars == <<workload, mapping, legacy, circle, offered, shown, requests, faults>>

Row == [wallet : Wallets, live : BOOLEAN]
Copy == [mapping : [Scopes -> Row \cup {None}], legacy : [Accounts -> Row \cup {None}]]
Steps == {"idle", "list", "legacy", "migrate", "upsert", "writeLegacy", "writeScoped",
          "answer", "taken", "candidates", "find", "add"}

Idle == [step |-> "idle", scope |-> None, row |-> None, verified |-> FALSE,
         taken |-> {}, copy |-> None, next |-> "idle"]

TypeOK ==
  /\ workload \in Workloads
  /\ mapping \in [Scopes -> Row \cup {None}]
  /\ legacy \in [Accounts -> Row \cup {None}]
  /\ circle \in [Wallets -> [key : Scopes \cup Accounts \cup {None}, live : BOOLEAN]]
  /\ offered \subseteq Scopes \cup Accounts
  /\ shown \in [Scopes -> Wallets \cup {None}]
  /\ requests \in [Procs -> [step : Steps, scope : Scopes \cup Accounts \cup {None},
                             row : Row \cup {None}, verified : BOOLEAN, taken : SUBSET Wallets,
                             copy : Copy \cup {None}, next : Steps]]
  /\ faults \in 0..workload.faults

\* The wallet a scope is expected to have is live before anything is mapped.
Init ==
  /\ workload \in Workloads
  /\ mapping = [s \in Scopes |-> None]
  /\ legacy = [a \in Accounts |-> None]
  /\ circle = [w \in Wallets |->
       LET of == {s \in Scopes : workload.expected[s] = w}
       IN [key |-> IF of = {} THEN None ELSE workload.owner[CHOOSE s \in of : TRUE],
           live |-> of # {}]]
  /\ offered = {}
  /\ shown = [s \in Scopes |-> None]
  /\ requests = [p \in Procs |-> Idle]
  /\ faults = 0

-----------------------------------------------------------------------------
At(p, step) == requests[p].step = step
Become(p, r) == requests' = [requests EXCEPT ![p] = r]
Go(p, step) == Become(p, [requests[p] EXCEPT !.step = step])
Finish(p) == Become(p, Idle)
Scope(p) == requests[p].scope

OnlyRequests == UNCHANGED <<workload, mapping, legacy, circle, offered, shown, faults>>
OnlyCircle == UNCHANGED <<workload, mapping, legacy, shown, faults>>

\* The account an operation or a request is for: initialize takes the user's
\* token, so that every wallet is listed to its account, whatever its scope.
OwnerOf(key) == IF key \in Scopes THEN workload.owner[key] ELSE key
Account(p) == OwnerOf(Scope(p))
Listed(a) == {w \in Wallets : OwnerOf(circle[w].key) = a}

\* A bug: wallets that are not live yet count.
AnyState(a) == Listed(a)

\* usableArcScaWallets
Usable(a) == {w \in Listed(a) : circle[w].live}

\* Circle or Supabase fails, or the process stops.
Abort(p) ==
  /\ ~At(p, "idle")
  /\ faults < workload.faults /\ faults' = faults + 1
  /\ Finish(p)
  /\ UNCHANGED <<workload, mapping, legacy, circle, offered, shown>>

-----------------------------------------------------------------------------
(* The store: readStore, normalizeStore and writeSupabaseStore.            *)

Stored == [mapping |-> mapping, legacy |-> legacy]

\* An upsert of every row of the copy; a row it lacks stays in the table.
Upserted(table, copy) ==
  [k \in DOMAIN table |-> IF copy[k] = None THEN table[k] ELSE copy[k]]

\* A bug: the constraint is missing from the table.
Unconstrained(rows) == TRUE

\* unique (wallet_id) of ccn_wallet_mappings
OneScopePerWallet(rows) ==
  \A s, t \in Scopes : rows[s] # None /\ rows[t] # None /\ rows[s].wallet = rows[t].wallet => s = t

\* Writes copy, then goes on at next; without rows a table is not written.
Saving(r, copy, next) ==
  LET none == \A a \in Accounts : copy.legacy[a] = None
  IN [r EXCEPT !.step = IF none THEN "writeScoped" ELSE "writeLegacy",
               !.copy = copy, !.next = next]

WriteLegacy(p) ==
  /\ At(p, "writeLegacy")
  /\ legacy' = Upserted(legacy, requests[p].copy.legacy)
  /\ Go(p, "writeScoped")
  /\ UNCHANGED <<workload, mapping, circle, offered, shown, faults>>

\* Refused, the request fails; the legacy records are written already.
WriteScoped(p) ==
  LET rows == Upserted(mapping, requests[p].copy.mapping)
      next == requests[p].next
  IN /\ At(p, "writeScoped")
     /\ mapping' = IF OneScopePerWallet(rows) THEN rows ELSE mapping
     /\ IF OneScopePerWallet(rows) /\ next # "idle"
        THEN Become(p, [requests[p] EXCEPT !.step = next, !.copy = None, !.next = "idle"])
        ELSE Finish(p)
     /\ UNCHANGED <<workload, legacy, circle, offered, shown, faults>>

\* upsertScopedStoredWallet
Upsert(p) ==
  /\ At(p, "upsert")
  /\ LET r == requests[p]
     IN Become(p, Saving(r, [Stored EXCEPT !.mapping[r.scope] = r.row], "answer"))
  /\ OnlyRequests

-----------------------------------------------------------------------------
(* getBrandPaymentAccount and getScopedWallet, and where the other routes  *)
(* begin, with getScopedStoredWallet.                                      *)

Matches(s, w) == workload.expected[s] \in {None, w}

\* A request arrives and reads the store; the row it finds is given out as it
\* is stored.
Arrive(p, s, step) ==
  /\ At(p, "idle")
  /\ Become(p, [Idle EXCEPT !.scope = s, !.step = step,
                            !.row = IF step = "answer" THEN mapping[s] ELSE None])
  /\ OnlyRequests

AskAccount(p, s) ==
  /\ s \notin PayoutScopes
  /\ \/ mapping[s] = None /\ Arrive(p, s, "list")
     \/ /\ mapping[s] # None /\ mapping[s].live /\ Matches(s, mapping[s].wallet)
        /\ Arrive(p, s, "answer")

AskStatus(p, s) ==
  /\ s \in PayoutScopes
  /\ Arrive(p, s, IF mapping[s] = None THEN "taken" ELSE "answer")

\* A bug: the first of several wallets is taken.
FirstOfAny(s) ==
  LET usable == Usable(workload.owner[s])
  IN IF workload.expected[s] # None THEN usable \cap {workload.expected[s]} ELSE usable

\* verifiedWallet: the wallet that is expected, or the only one there is.
VerifiedWallets(s) ==
  LET usable == Usable(workload.owner[s])
  IN IF workload.expected[s] # None THEN usable \cap {workload.expected[s]}
     ELSE {w \in usable : usable = {w}}

ListCircle(p) ==
  /\ At(p, "list")
  /\ IF VerifiedWallets(Scope(p)) = {} THEN Go(p, "legacy")
     ELSE \E w \in VerifiedWallets(Scope(p)) :
            Become(p, [requests[p] EXCEPT !.step = "migrate", !.verified = TRUE,
                                          !.row = [wallet |-> w, live |-> circle[w].live]])
  /\ OnlyRequests

\* Without one, the legacy record stands for what Circle should have said.
ReadLegacy(p) ==
  /\ At(p, "legacy")
  /\ IF legacy[Account(p)] = None THEN Finish(p)
     ELSE Become(p, [requests[p] EXCEPT !.step = "migrate", !.row = legacy[Account(p)]])
  /\ OnlyRequests

\* migrateLegacyStoredWallet: what is mapped by now, nothing to migrate, the
\* migration, or a quarantine, of which Supabase keeps nothing.
Migrate(p) ==
  LET s == Scope(p)
      r == requests[p]
      old == legacy[Account(p)]
      Then(step) == IF r.verified THEN step ELSE "idle"
      Proceed(q) == IF r.verified THEN Become(p, q) ELSE Finish(p)
      same == old # None /\ old.wallet = r.row.wallet /\ Matches(s, old.wallet)
  IN /\ At(p, "migrate")
     /\ CASE mapping[s] # None -> Proceed([r EXCEPT !.step = "answer", !.row = mapping[s]])
          [] mapping[s] = None /\ old = None -> Proceed([r EXCEPT !.step = "upsert"])
          [] mapping[s] = None /\ same ->
               Become(p, Saving(r, [Stored EXCEPT !.mapping[s] = r.row], Then("answer")))
          [] OTHER -> Become(p, Saving(r, Stored, Then("upsert")))
     /\ OnlyRequests

\* The page gets the wallet; the brand's once more only if it is the expected one.
Answer(p) ==
  /\ At(p, "answer")
  /\ shown' = IF Matches(Scope(p), requests[p].row.wallet)
              THEN [shown EXCEPT ![Scope(p)] = requests[p].row.wallet] ELSE shown
  /\ Finish(p)
  /\ UNCHANGED <<workload, mapping, legacy, circle, offered, faults>>

-----------------------------------------------------------------------------
(* The payout operator's page: internal/circle/payout/wallet/status.       *)

\* listStoredWalletMappings
ReadTaken(p) ==
  LET rows == {mapping[s] : s \in Scopes} \cup {legacy[a] : a \in Accounts}
  IN /\ At(p, "taken")
     /\ Become(p, [requests[p] EXCEPT !.step = "candidates",
                                      !.taken = {row.wallet : row \in rows \ {None}}])
     /\ OnlyRequests

ChooseCandidate(p) ==
  LET candidates == Usable(Account(p)) \ requests[p].taken
  IN /\ At(p, "candidates")
     /\ IF Cardinality(candidates) = 1
        THEN \E w \in candidates :
               Become(p, [requests[p] EXCEPT !.step = "upsert", !.taken = {},
                                             !.row = [wallet |-> w, live |-> TRUE]])
        ELSE Finish(p)
     /\ OnlyRequests

-----------------------------------------------------------------------------
(* Making wallets: initializeScopedUserWallet, Circle and its window.      *)

\* initializeScopedUserWallet and initializeUserWallet, for a page that gets
\* the challenge; a wallet that is mapped or recorded by now changes nothing.
Setup(s) ==
  /\ mapping[s] = None
  /\ offered' = offered \cup {s}
  /\ OnlyCircle /\ UNCHANGED <<circle, requests>>

Enroll(a) ==
  /\ legacy[a] = None /\ workload.spike # {}
  /\ \E s \in Scopes : workload.owner[s] = a
  /\ offered' = offered \cup {a}
  /\ OnlyCircle /\ UNCHANGED <<circle, requests>>

\* A bug: every call has an idempotency key of its own.
NewEveryTime(key) == FALSE

\* stableIdempotencyKey: Circle has made the wallet of this operation.
MadeBefore(key) == \E w \in Wallets : circle[w].key = key

Approve(key) ==
  /\ key \in offered /\ ~MadeBefore(key)
  /\ \E w \in Wallets : circle[w].key = None
  /\ LET new == CHOOSE w \in Wallets : circle[w].key = None
     IN circle' = [circle EXCEPT ![new].key = key]
  /\ OnlyCircle /\ UNCHANGED <<offered, requests>>

GoLive(w) ==
  /\ circle[w].key # None /\ ~circle[w].live
  /\ circle' = [circle EXCEPT ![w].live = TRUE]
  /\ OnlyCircle /\ UNCHANGED <<offered, requests>>

-----------------------------------------------------------------------------
(* The spike's page: internal/circle/wallet, with records per account.     *)
(* Its DELETE is left out: no page sends it, and its upsert removes no row. *)

\* listWallets: a record that is there is never looked at again.
AskRecord(p, a) ==
  /\ workload.spike # {} /\ legacy[a] = None
  /\ Arrive(p, a, "find")

\* The first wallet of the right chain and type, in whatever state.
FindWallet(p) ==
  /\ At(p, "find")
  /\ \/ /\ Listed(Account(p)) = {}
        /\ Finish(p)
     \/ \E w \in Listed(Account(p)) :
          /\ circle[w].live \in workload.spike
          /\ Become(p, [requests[p] EXCEPT !.step = "add",
                                           !.row = [wallet |-> w, live |-> circle[w].live]])
  /\ OnlyRequests

\* upsertStoredWallet
AddRecord(p) ==
  /\ At(p, "add")
  /\ LET r == requests[p]
     IN Become(p, Saving([r EXCEPT !.row = None], [Stored EXCEPT !.legacy[Account(p)] = r.row], "idle"))
  /\ OnlyRequests

-----------------------------------------------------------------------------
Ask(p) ==
  \/ \E s \in Scopes : AskAccount(p, s) \/ AskStatus(p, s)
  \/ \E s \in Scopes : AskRecord(p, workload.owner[s])

Handle(p) ==
  \/ ListCircle(p) \/ ReadLegacy(p) \/ Migrate(p) \/ Upsert(p)
  \/ WriteLegacy(p) \/ WriteScoped(p) \/ Answer(p)
  \/ ReadTaken(p) \/ ChooseCandidate(p) \/ FindWallet(p) \/ AddRecord(p)

Next ==
  \/ \E p \in Procs : Handle(p) \/ Abort(p) \/ Ask(p)
  \/ \E s \in Scopes : Setup(s)
  \/ \E a \in Accounts : Enroll(a)
  \/ \E key \in Scopes \cup Accounts : Approve(key)
  \/ \E w \in Wallets : GoLive(w)

Spec == Init /\ [][Next]_vars

\* The person opens or refreshes the page of a scope now and then.
Refresh(s) == \E p \in Procs : AskAccount(p, s) \/ AskStatus(p, s)

FairSpec ==
  /\ Spec
  /\ \A p \in Procs : WF_vars(Handle(p))
  /\ \A w \in Wallets : WF_vars(GoLive(w))
  /\ \A s \in Scopes : SF_vars(Refresh(s))

-----------------------------------------------------------------------------
\* The wallet that a brand's page was given, to be filled and to fund from,
\* stays the brand's: the registry goes on naming it, and names it for nothing
\* else, whatever the requests that overlap found at Circle or wrote of their
\* old copies.  Stated where no legacy record is made: a migration that works
\* with an older list of Circle's puts its wallet in the place of one that is
\* being given out.
GivenIsKept ==
  workload.spike = {} =>
    \A s \in Scopes \ PayoutScopes : shown[s] # None =>
      /\ mapping[s] # None /\ mapping[s].wallet = shown[s]
      /\ \A t \in Scopes \ {s} : mapping[t] # None => mapping[t].wallet # shown[s]

\* A page is only given a wallet of the account that is live at Circle, also
\* when it comes from a record, if records are made of live wallets.
AnswersAreLive ==
  FALSE \notin workload.spike =>
    \A s \in Scopes : shown[s] # None => /\ shown[s] \in Listed(workload.owner[s])
                                         /\ circle[shown[s]].live

\* Where no legacy record is made, a brand keeps the wallet it was mapped to,
\* whatever other requests saw at Circle or in the tables before or after.
MappingStays ==
  [][\A s \in Scopes \ PayoutScopes :
       workload.spike = {} /\ mapping[s] # None => mapping'[s] = mapping[s]]_vars

\* A scope that is the only one of its account, without legacy records, gets
\* its wallet in the end once the person has approved it, also when the setup
\* is asked for again or a request is cut off.
Alone(s) == workload.spike = {} /\ \A t \in Scopes \ {s} : workload.owner[t] # workload.owner[s]
Approved(s) == \E w \in Wallets : circle[w].key = s
ApprovedIsServed ==
  \A s \in Scopes : (Alone(s) /\ Approved(s)) ~> (shown[s] # None)

-----------------------------------------------------------------------------
(* What one would expect as well, and the code does not keep.              *)

\* The payout operator's scope keeps its wallet: of two overlapping requests
\* the later one finds the wallet taken by the earlier and maps another.
PayoutMappingStays ==
  [][\A s \in PayoutScopes :
       workload.spike = {} /\ mapping[s] # None => mapping'[s] = mapping[s]]_vars

\* Also scopes that share an account are served: with both wallets live and
\* none mapped, each finds two, and each may be given the wallet of the other.
SharedIsServed ==
  \A s \in Scopes : (workload.spike = {} /\ Approved(s)) ~> (shown[s] # None)

\* No page is given a wallet that is not live, also when the spike's page
\* recorded it early: a mapping made in the meantime is given out unchecked.
EarlyAnswersAreLive ==
  \A s \in Scopes : shown[s] # None => circle[shown[s]].live
=============================================================================
