# A verification of the creator challenge network

The repository is a web application (Next.js, TypeScript) in which a brand sets up
a creator challenge, funds its prizes in a smart contract (`contracts/src/CCNEscrow.sol`)
through Circle wallets, publishes it, collects entries of creators, reviews them
blind, finalizes winners and has the contract pay them. This directory models the parts of it that
hold money or decide about it, checks the models with TLC and proves theorems
about them with TLAPS. Paths below are relative to `src/src/` unless they begin with
`contracts/`, `scripts/` or name a document of the repository's root.

## 1. The system

| Component | State it keeps | Operations | Interacts with |
|---|---|---|---|
| **Escrow contract** `contracts/src/CCNEscrow.sol` | per challenge: sponsor, pool, fee, prizes, deadlines, status; totals of prizes and fees held; roles, pause flag | `fundChallenge`, `releasePayout`, `cancelAndRefund`, `pause`, `unpause`, role administration | USDC; called by the Circle wallets of the brand |
| **Winner finalization and payout** `services/create-challenge/winner-finalization.server.ts` | the `WinnerFinalizationAttemptRecord` of a challenge, the payout's verification record, the lifecycle event `SETTLEMENT_COMPLETED` | finalize winners, create the approval, status, reconcile with the chain | Store, Circle, the contract, the browser |
| **Create-challenge store** `services/create-challenge/create-challenge-store.server.ts` | drafts, payment and funding attempts, winner attempts, verifications, lifecycle events, public slugs, a revision; a queue of updates per process | `updateStore` and the operations built on it, delete a draft | a JSON file, or Supabase |
| **Submissions** `services/submissions/submission-store.server.ts`, `canonical-challenge-lifecycle.server.ts` | entries with versions and anonymous codes, idempotency keys | save a draft, finalize an entry | a JSON file, or Supabase; the clock; the escrow's status |
| **Blind review** `app/api/dashboard/review-score`, `finalize-review` | a score per entry, the lock | score, finalize the review, or have winners finalized by name | Submissions, Finalization |
| **Funding and publication** `services/create-challenge/create-challenge-funding.server.ts` | approval and funding attempts, funding, escrow and publication status of a draft | create approval and funding challenges, reconcile, verify, publish | Store, Circle, the contract |
| **Deadline and finance rules** `utils/`, `config/`, `public-challenge-eligibility.ts` | none; they judge the draft | prize splits, fees, deadline order, phases | all services |
| **Brand payment account** `services/create-challenge/brand-payment-account.server.ts` | the binding of the brand's Circle wallet | overview, initialise, repair, promote | Circle, Funding |
| **Wallet registry** `services/circle/user-controlled-wallets.server.ts`, `wallet-spike-store.server.ts` | which Circle wallet pays in and which is paid for an account, older records per account | look up or map a wallet, set one up, the operator's payout wallet, the internal wallet page | Circle, Supabase or a file, Brand payment account |
| **Creator foundation** `services/creator-foundation/creator-foundation.server.ts` | accounts with roles, Circle users, wallets, profiles | sign in, enable a role, set up and recover the payout wallet, save a profile | Supabase, Circle, the creator's pages, media |
| **Creator workspace** `services/creator-workspace/creator-workspace.server.ts` | none | the creator's lists of submissions and rewards | Store, Submissions |
| **Brand's wizard** `features/create-challenge/components/real-flow/create-challenge-wizard.tsx` | the draft as edited, the step, the payment overview, handlers under way | edit, save, approve, fund, reconcile, publish, resume after a reload | the routes of Funding, Circle's window |
| **Campaign page** `features/dashboard/components/campaign-workspace-tabs.tsx` | the attempt as rendered and as answered, the review lock | score, finalize, start the payout approval, status, reconcile | the payout route, Circle's window |
| **Sessions, media, other pages, Circle client, escrow spike** | tokens, files | | |

Requests come in over HTTP, each an `async` handler. Between two `await`s a handler
runs alone in its process; at every `await` others run. What several requests
share is the stored data, and in one process the write queue, the funding cache
and module constants. The payout is a saga over three parties that fail on their own:
the store, Circle (which signs and sends a transaction when the user approves in
its hosted page) and the contract.

### What is hard here

* A request reads the attempt, waits for Circle or the chain, and writes back what
  it read: overlapping requests, an answer applied late, a failure between two
  writes, a process that stops half way.
* Circle must be asked for *one* payout although requests are retried after
  every kind of failure; only the idempotency key guards this.
* The store writes everything it has read; across processes, and with deletions
  that leave the queue, an update may be lost.
* The submission store has neither queue nor revision.
* Six routes write the same status fields of a draft from values they read earlier, and so does
  a browser page that saves all of the draft it once loaded.
* Tables without transactions hold an account, its role, its wallet and its profile; the same person
  signs in, sets up a wallet and saves a profile from several pages, and each step reads before it writes.
* The wallet registry has neither queue nor revision: each writer upserts its own old copy of all rows, after Circle
  was asked which wallets there are.
* The pages are concurrent programs themselves: a save may be under way while its user edits, reloads,
  closes Circle's window or clicks on; answers arrive in any order and replace what the page knows.
* Limits, deadlines and the funding flag are checked on values that may be stale
  when they are used.
* The terms of a challenge exist three times (the draft, the approval Circle holds, the contract) and only the last is
  fixed; the server reads its own clock, the contract that of its last block.
* The contract keeps running totals in `uint256` and pays out lists of up to three.

`PROJECT.json` lists each hazard at its line, with the properties that cover it or
the reason why none does.

### What makes each component correct

* Contract: settles a challenge once; holds what it owes; totals never drift; what
  is funded can be refunded; the service fee and the prizes go where they should.
* Payout: one approval per challenge; none before the winners are final and the
  review over; confirmed means paid, by that transaction; evidence names the paid
  winners; a payout on chain is found out about.
* Store: an update that is reported as done is not lost; one that failed left no trace;
  deleted drafts stay deleted and payment records do not vanish; no request hangs.
* Submissions: one entry per creator, within the limits, immutable once submitted;
  winners are submitted entries, and where a review chose them all entries were reviewed, and the winners are the best ones if ranked.
* Funding: what is verified, recorded or published is held by the contract; a live challenge has its
  verification record; hashes are real.
* Foundation: one Circle operation for a wallet, and only a wallet Circle holds for its scope counts as verified;
  a setup can be brought to an end; roles are not lost; a profile names a picture that exists.
* Wallet registry: the wallet a brand was given to fill goes on being the brand's and serves nothing else; a page is given a
  wallet of its account that is live; a brand keeps its mapping; a wallet that was set up is found.
* Wizard: what the page calls saved is stored; a challenge whose text is what was funded on chain goes live in the end.
* Deadline and finance rules: splits lose no unit; what the server lets a brand sign, the contract accepts; what it approves
  is not reverted; a live challenge is paid in the end.
* Campaign and creator pages: nobody is shown a payout that was not made, no win is taken back, and
  everybody learns of a payout.

## 2. The modules

`Custody` (what a custodian promises) is implemented by `Escrow`; the eight `*Proofs` modules hold the proofs about the module they are named
after (`PayoutProofs` also those about `Settlement`, `EscrowProofs` also those about `Terms`); `MC*` modules fix small instances. `Settlement` composes `Payout` with the
pages of the brand and the creators. The others are separate because the code separates them: `Payout`, `Funding` and
`Wizard` treat an update of the store as atomic, which `Store` examines; `Payout` takes the winners that
`Submissions` hands over as given; `Wizard` knows of the server's funding what its requests can be told
(`Promoted`, `VerifiedBy`, `Reconciled`, `Outcomes`), which `Funding` has step by step.

### Escrow, Custody

One action per external function of the contract: `FundChallenge`,
`ReleasePayout`, `CancelAndRefund`, `Pause`, `Unpause`, `GrantRole`, `RevokeRole`; a guard for every `require` or `revert`, in one conjunct each.
A transaction is atomic and a reverting one changes nothing, so reverts are
disabled actions. `uint256` additions are checked ones (Solidity 0.8): an addition that
would exceed `MaxUint` reverts. USDC (external) is a map of balances; anyone may
also send it to the contract. `Custody` knows only which challenges are open, with
the amount held for each, and lets the holdings leave it once.

### Payout

Each HTTP request is a process with a program counter (`requests[r].pc`); a step
runs from one `await` that matters to the next. Local variables that
survive a step are fields of the request and are cleared as soon as the code no longer reads
them. `circle` maps an idempotency key to a contract-execution challenge
(CREATED → OFFERED when its id reaches the browser → SENT or DENIED by the user → MINED on chain → CONFIRMED or FAILED as Circle reports);
`escrow` and `payout` are the chain. `Abort` ends a request at any step of `FailingSteps`: its process stops or a
call throws (in mode `default` the `catch` block then marks the attempt).

### Store

A server's updates are queued; the head of the queue goes through read (all at once for the
file, table by table for Supabase), check of the revision, write (records first,
then drafts), retries on conflict. A record is the *set of updates it reflects*, so a lost
update is visible. A delete first removes the draft in the queue and its
rows afterwards, outside of it.

### Submissions

Requests save, submit, score, finalize the review, or have winners finalized by name; each read and write of
a store is a step. The file may be absent, whole or torn; `blank` is the module's constant
`emptyStore`, which `readStore` hands out by reference and callers then change; a write cut off
leaves the file torn. `readStore` catches every error of reading the file and answers with `emptyStore`, so any read of a whole
file may `failed`, and the write after it replaces all entries; `faulty` remembers that a read or a write of the file failed.
`Restart` ends the process, with what was pushed to the constant. `setting` holds what does not change in a run: adapter, number of requests that
may overlap, the limits, and whether the brand moves the deadline. The reviews exist only with Supabase (the scores refer
to its table), so `finalize-review` is modelled with that adapter. `NameWinners` is mode `finalize-selection` of the payout
route, which asks for no review; its modes `prepare`, `create-approval` and the default one refuse a selection that is not
final (`assertMatchesFinalizedWinnerRecord`). A selection keeps the entries it was reviewed `among` (none if it was named). `Close` and
`Reopen` are the deadline, which passes and which the brand may move by saving the live draft.

### Funding

One draft from its creation to publication. As in `Payout` each request is a process; its `kind` is
the route (`overview`, `verify`, `publish`, `fund`, `reconcile`, `preflight`, `approve`, `recover` and `save`,
the browser page that loads a draft and saves it later, with other terms perhaps).
`draft` has the fields that decide something: funding, escrow and publication status,
whether transactions and the event are recorded, and the terms (an amount and the deadlines).
`fundCall` and `apprCall` are Circle's two challenges of the draft, whose idempotency keys are
fixed; `allowance` and `escrow` are the chain. `Read` applies `sanitizeStoredDraft`, as every read in the code does;
a patch does not. The verification that several requests of a process share is `await` (with the
request that performs it as `leader`). The cached verification is left out: a result from the
cache is that of a slower request.

### Foundation

Every request of the account is a process whose steps are its reads and writes of Supabase and its calls of
Circle. `workload` says what a behaviour is of: one person who signs in, enables a role and sets up the payout wallet, with requests
that overlap or do not, with or without another wallet at Circle, and with Circle naming whose wallet it lists or not; or two creators
who upload pictures and save their profiles. The two kinds share the accounts table, but sign-up ends before a profile can be saved.
Circle makes the wallet when the user approves its challenge, and that challenge only once per idempotency key. `form` is the profile
page, which uploads a picture before it saves the profile.
`RoleIsKept` and `AvatarExists` are stated for requests that do not overlap: two that do may flip a role, or remove the picture the other has just saved.

### Wizard

`page` is the React component (the draft as edited, the step, the payment state, what is pending), `flows` are its `async`
handlers, each at the `await` it waits at with the variables its closure holds, `window` is Circle's window, `server` the
stored draft and how far its funding is. A handler's answer is applied to the page as it is *then*, with the closure's older
values where the code uses these. The form is a text: what the contract's record of it would be (its `Prizes`, its `Deadlines`), and whether launch readiness
accepts it (`Complete`) as long as its deadlines are far enough away (`ComeTooNear` ends that). `funded` is the text as it was
when the funding was asked for, so `Matches` compares the stored text with the contract as `getCanonicalFundingVerification` does, and `SamePrizes` the
prizes alone, as a promotion by the overview does. Where they differ a verification secures nothing, and a reconciliation resets the draft
(`Restored`, which forgets the event or keeps it: the allowance and the logs decide). Publication asks for readiness and then for a verification record or a match.
The pages cannot run for ever out of order: `MaxSetbacks` counts what goes wrong or is not needed, namely
unasked edits, detours, saves, balance refreshes and reloads, continuing with an incomplete form, a click while a
handler is under way, a failed request, a closed window, a needless Back, deadlines that come too near.
Left out: a new test draft, deletion, wallet initialisation, details edited on the funding step, a paused escrow, too low a balance, reverts, an approval whose allowance
no longer covers prizes edited after it. A save stores the publication status and the verified event that the page holds; the other funding fields it sends are left as stored, since
the page has only loaded them.

### Settlement

`page` has the attempt twice, as the code has: `known` is what it was rendered with, which `router.refresh()` renews, and
`record` is the settlement tab's own copy, which only answers replace and which goes with the tab. `Send` starts the request
in `Payout`, `Serve` is a step of `Payout` whose last one answers the page, if it still listens; `Approve`, `Deny` and
`CloseWindow` are Circle's window. `told` is what a creator's page said last. A creator's page reads the attempts
before the evidence; one step stands for both, because evidence counts only beside a confirmed attempt.
`LeaveTab` leaves the settlement tab at rest, `LeaveEarly` while its status request or reconciliation is on its way: the request goes on in `Payout`,
its answer finds no tab and only renews the page. While an approval is asked for Circle's window is about to cover the page, so that case is left out.
The brand uses one page at a time here; two brand tabs are overlapping requests, which `Payout` covers.

### Wallets

`mapping` is the table `ccn_wallet_mappings` by scope (an account, a role and a purpose), `legacy` the older records by account,
`circle` the wallets with the operation each was made for (two operations with one idempotency key are one). A request reads both tables at once, which
the code does in one `Promise.all`, asks Circle (`ListCircle`), and may write: `Saving` takes its copy, `WriteLegacy` and
`WriteScoped` upsert it, so that a row the copy lacks stays and a row it has goes back to what was read. The second is refused by
`unique (wallet_id)` if two scopes would share a wallet, when the first is written already. `AskAccount` is the brand's payment page,
`AskStatus` the payout operator's, `AskRecord` the internal wallet page, whose records `getScopedWallet` falls back to. `Setup` and `Enroll` offer
a challenge, in one step with the read before it (a wallet that is mapped in between changes nothing: its key is spent); `Approve` is Circle's window, and
the wallet goes live some time after (`GoLive`).
Left out: the file adapter, which is for development; clearing a record, which no page asks for and the upsert does not carry
out; a wallet that Circle freezes. The workloads say who shares an account, which wallet the
environment expects, and which wallets the internal page may record: none (`Plain`), live ones (`Spike`), any (`Early`).

### Terms

`draft` is the stored draft's prizes and deadlines, `call` the terms Circle was asked to let the brand sign, `escrow` those on chain;
`clock` is the server's clock, `block` the time of the last block. The wizard's handlers (`UpdateTotal` and so on) save a
draft at any time, also after the challenge is live, which the save allows. The operators before `TermsInit` are the pure functions of
`utils/` and `config/`; the actions are the handlers that use them, each atomic and only as far as it looks at the terms, from `AskFunding`
to `Confirm`. Money is in units of USDC, and times are whole numbers that both clocks pass one by one. What Circle and failures can
do is in `Funding` and `Payout`. `Lifecycle` is the stage that the pages show. What the contract looks at (`FundableTerms`, `Matches`,
`Releasable`) is the part of `Escrow` that concerns the terms; `OneContract` proves that the two agree.

## 3. The runs

| Run | Asks | Bounds | Result |
|---|---|---|---|
| `escrow` | Does the contract hold what it owes, keep its totals, never trap a refund, and implement `Custody`? | 2 challenges, lists of 1 and 3 prizes and 3 invalid ones, 6 winner lists valid and not, `MaxUint` 5 so that additions revert, one direct transfer, one account holding all roles | pass, 412,784 states |
| `payout` | Do overlapping requests that may fail at every step ever get two approvals, a premature one, a false confirmation, or wrong evidence? | 2 requests at a time, any number one after another, 2 winner lists, both modes, client hash none or stray | pass, ~1.44 million states, symmetry |
| `payout_alone` | Handled one at a time, does the record agree with Circle, and is a payout on chain found? | 1 request at a time, fails at each step before the payout | pass, with fairness |
| `payout_settled` | Is a confirmed payout's settlement recorded in the end? (SYSTEM_ARCHITECTURE.md:384, 507) | 1 request, failing only at the evidence's write, with fairness | violated |
| `store` | Within one server: no update lost, no payment record deleted; on any number: failures leave no trace, deletions last, every request ends | 2 servers, 2 drafts, 3 requests, both adapters | pass, 365,914 states, with fairness |
| `submissions` | One entry per creator, keys, the winners, with and without a review; submitted entries stay so | 2 creators, 2 ids, 2 codes, 1 key, 2 scores, 1 winner; 1 or 2 requests at a time, both adapters, limits 1 and 2, any read or write of the file failing, the deadline moved where requests do not overlap | pass, 1,622,405 states, symmetry |
| `funding` | Is anything verified, recorded or published that the contract does not hold, whatever fails, is repeated or saved late? | 5 requests, 2 at a time: one of any kind, one that publishes or saves; 2 amounts; fails at every step | pass, 1,709,565 states |
| `foundation` | Do overlapping sign-ins, wallet setups and profile saves keep to one Circle operation, trusted wallets, roles and pictures, and does an offered setup end with an active wallet? | 1 person signing up with 2 requests at a time, or 2 creators with a page each; 1 request cut off at any step, 2 pictures | pass, 89,250 states, with fairness |
| `wizard` | Is what the page calls saved stored, and does a challenge go live in the end whose text is what was funded on chain? | one draft, one setback, three texts: an incomplete one with other prizes, two complete ones with different deadlines | pass, 418,984 states, with fairness |
| `settlement` | Do the brand and the creators learn of a payout, and of none that was not made? | one request at a time, 2 winner lists of one place, one creator followed, one setback, failing writes of the approval's id and of the evidence | pass, 365,260 states, with fairness |
| `terms` | Is what a brand is let to sign accepted, and is a live challenge paid, whatever is edited and however the clocks differ? | pools of 2 and 6 units, prizes of 0 and 2, four deadlines, 2 edits, a block up to 2 behind, 3 entries | pass, 244,813 states, with fairness |
| `wallets` | Do requests that write old copies of the registry leave a brand the wallet it was given, for itself alone, are the wallets given live, and is a wallet that was set up found? | a payment and a payout scope of one account or of two, 2 wallets, 2 requests at a time, with and without an expected wallet and one request cut off, or with older records | pass, 403,882 states, with fairness |

**Why the bounds are enough.** Every race of this code is between two requests: one that
holds a stale value and one that changed it; a third can only
repeat the second. The number of requests one after another is not bounded in `Payout` and
`Submissions`. In `Funding` it is five: approve, fund, reconcile (or an overview), publish, and one that gets in the way at any
point; a second process of all kinds multiplies the states without a property that would see it. Two winner lists suffice for a mismatch, and no definition of `Payout` looks into a
list. Two challenges suffice for the contract's totals to mix up, prize lists of one and of three are the only
lengths it accepts, and with `MaxUint` 5 the totals overflow. In `Submissions` two codes
for two creators make a clash possible, limits of one and two are reached and exceeded. In `Store`
three requests allow create, save and delete of one draft, or a lost update next to a retry; `Retries` is the code's own 3.
In `Wizard` and `Settlement` one setback lets any single thing go wrong at any point; with two, `wizard` was run once by hand
and passed in an earlier version that had two texts (1,635,943 states, four and a half minutes). In `Wallets` two scopes suffice to contend for
a wallet and two wallets to be ambiguous. The creators of `Settlement` do not act on each other, so one is followed among two.
In `Terms` an automatic split of 2 units has a prize of nothing and one of 6 has none, the deadlines can be missing, equal, reversed, too early or too
close, a deadline can fall between the two clocks, and two edits take the terms away and back (with three the run passed by hand, 739,339 states).

**Where properties are conditional.** Several properties of `Store` speak of one server, or
of the file adapter, and several of `Submissions` of requests that do not
overlap. That is what the code keeps: the statements of section 5 that do
not hold show what happens otherwise. The comment at each property names its condition.
Two liveness properties have one that is a fact of the code and not of the bounds. `FundedGoesLive` asks that the stored text in the end matches the contract
and can be launched: otherwise the server leaves the funding pending, or refuses to publish, and only an edit that brings the funded text back leads on. `EveryoneLearns` asks of a reward that its
evidence was not lost (`EvidenceLost`, the failure of `payout_settled`): then every later request returns early and the reward reads "Processing" for ever, although the creator reads "Reward Paid".

**Fairness.** `Payout!FairSpec`: a request that is under way goes on (weak, per
request: Node resumes a handler when its `await` is answered), the status request is made again and
again (strong: the pages poll it, and it is enabled only in between), and
Circle reports a mined transaction (weak, its own promise). Nothing is
assumed of users, of failures or of the chain. `Store!FairSpec`: the running update
of a server goes on and the rows of a deleted draft are removed (weak). `Foundation`: requests go on, the user
approves a challenge the page holds (weak), and asks for the setup again and again (strong, since it is possible only in between). `Wizard`: requests
are served and handlers go on (weak, each: the server answers and JavaScript resumes), a page loads and resumes its launch by
itself (weak, they are effects), the user confirms in Circle's window (weak) and presses the button that leads on again and
again (strong, since it is disabled in between), and reloads a page that has no button left (strong). Without the last a closed
window would be the end. `Settlement`: what was asked is sent and answered, an open window is not left open, creators open their pages (weak), and the brand
returns to the settlement tab and asks for the status again and again (strong). Nothing is assumed of what the user decides
in Circle's window there. `Wallets`: requests go on and a wallet that was made goes live (weak), and the page of a scope is
opened or refreshed again and again (strong, since it is possible only when a request slot is free); nobody has to approve. `Terms`: time passes, blocks are mined, and the brand,
who alone can, goes on to select, approve, sign and reconcile (weak); it need not fund or publish, and nobody has to enter. `Escrow`, `Submissions` and `Funding` state no liveness: every step there is a user's choice.

**Deadlock** is not checked: every system here may rest (a paid or refunded challenge,
no request under way, the bound of requests reached).

## 4. The proofs

Of the 40 properties that passing runs check, all but the seven named in section 6 are theorems, for every
value of the constants that the assumptions of the modules admit. A proof module has its invariants first, then what each step does, one lemma per
action, then the step of `Next`, then the theorems.

**`EscrowProofs`**, for all challenges, accounts, prize lists, `MaxUint` and initial balances.
Assumption: `EscrowConstants` (the types of the constants; the contract, the treasury and the first
holders of the roles are accounts, the zero address is none). `Collateralised` is not inductive: a payout takes the amounts of the list out of the balance
and the pool out of the totals. The inductive invariant is `TypeOK /\ PrizesMatchPool /\ Collateralised`
(`EscrowInvariant`), one lemma per function. From it follow `SettledForeverHolds` and
`ImplementsCustody`: the initial states map to initial states of `Custody`, and each function to `Deposit`,
`Distribute`, `Return`, `Elsewhere` or a stutter.
`BooksBalanceHolds` and `RefundNeverRevertsHolds` are about sums over the funded challenges, which the model computes by recursion over
a set. The prover has no induction for it. Instead `IsTotal` says that some witness (`Sums`) gives the partial sum of *every* subset;
`BooksInv` keeps one for each of the two totals, changed explicitly when a challenge is funded or settled; and `FoldsUnique` shows by a smallest
counterexample that the recursion has no other value.

**`PayoutProofs`**, for any set of requests and of winner lists, any failing steps, any modes and hashes a client may send.
Assumption: `PayoutConstants` (the constants are distinct where the code makes them so: a UUID, a
transaction hash and `undefined` are different things). None of the safety properties is inductive, because a request acts on values it read
earlier. The strengthening `Inv` adds `Sound(requests[r])` for each request: what its locals are worth at its current step.
For instance a request that holds the verdict PAYOUT_CONFIRMED has
`payout = [hash |-> its hash, winners |-> its winners]`, and one about to ask Circle holds the scope's key. `Sound`
survives the steps of the other requests because these only add to what is
known (`Progress`: a finalization stays, the key stays, the review stays over, a payout is never taken back, evidence stays).
There is a lemma per action, built on `QuietStep` and `RequestStep`, which prove the whole invariant from
three facts about the step: where the request goes (`Moves`), what happens to the attempt (`AttemptStep`), what stays.
Theorems: `TypeCorrect`, `OneApproval`, `ApprovalIsNotEarly`, `ConfirmationIsTrue`, `EvidenceIsTrue`, and the action property `FinalizationStays`.

The pages of `Settlement` show what was read some time ago, and with overlapping requests the record they read may be overwritten since. What lasts is the
payout (`Lasts`): a page is true because its record was borne out when it was read. `PublicInv` says so of the brand's page (`PageInv`, which also says what the page will
ask with) and of what creators were told (`HonestInv`). Theorems: `PaymentIsRealHolds` and `SettlementTypeCorrect`, for any number of requests at once. Every step of the pages is seen to be one
that `Payout` allows any client (`PublicStep`). No run states `PaymentIsReal`; by hand TLC found it to hold with two
overlapping requests (`Requests <- TwoRequests`, `FailingSteps = {}`, 3,704,560 states), and broken if the winners of the contract's event are not compared.

`RecordMatches` and the other theorems about `Settlement` have the hypothesis `OneAtATime`: any two requests
are the same, as in the runs that check them. The hypothesis is needed: of overlapping requests a late one writes an older state over a confirmed
record (section 5). Under it `AloneInv` says that what a request read is what the record still says when it writes (`Current`), and
that a paid challenge is one whose approval the record names. There the record itself only
moves on: `Recorded` (a finalization, its winners, a confirmation and a payment stay) holds of every step of the service (`ServerStep`), and `ToldInv`, what creators were
told of their wins, survives it. Theorems: `PaidIsTrueHolds`, and the action property `WinsAreNotTakenBackHolds`. Assumption:
`SettlementConstants`, which names what the page sends: mode `create-approval`, and no hash of its own while it has none.

**`StoreProofs`**, for all servers, drafts and numbers of requests and retries. `QueueInv` says who may write: what waits in a queue
is unanswered and waits once, and only the head of a queue has read anything. On it rest, for what a running update has in memory:

* `FileInv`: on any number of servers, with the file, it reflects no update that failed (`FailureLeavesNoTraceHolds`). The file is renamed into place
  whole, and what is not renamed is dropped.
* `ExactInv`: on one server, with the file, it is what is stored, plus at most the change under way; with `DeletesWait`, that nothing
  refers to a draft whose delete is queued or done, it gives `DeletedStaysDeletedHolds` and the action property `OneServerSparesPaymentsHolds`.
* `AheadInv`: on one server, with the tables, it reflects at least what is stored, table by table, since the rows of a
  deleted draft may go in between. With `ExactInv` for the file it gives `OneServerLosesNothingHolds`.
* `BoundInv`: on any number of servers, the revision stored, and every revision read, is at most the number of updates answered with success
  (`Cardinality(Done)`); that the revision is within its type is not inductive without it. It gives `TypeCorrect`.

**`SubmissionsProofs`**, for all creators, ids, codes, scores, limits and requests (finitely many: `IsFiniteSet(Requests)` in
`SubmissionsConstants`, because the code's limits are about a number). `BaseInv` holds however requests overlap: every copy of the entries, stored, in
the shared constant `blank` or in a request, is `Sound` (one entry per creator, one per code, versions in range), and with the file also `Right` (keys name submitted
entries, the limit is kept), because a file is overwritten whole by one such copy. It gives `OneEntryPerCreatorHolds` and `TypeCorrect`. `AloneInv` is of requests that do not overlap: at most one
is under way (`Alone`), its copy extends what is stored unless the file was `faulty`, what it holds of the review is what is stored (`Ready`), and the selection stands
(`Settled`, with `Final`: no score is under way once the winners are final, and no entry either unless the deadline was moved). `Selected` says of winners that they are the best of those they were chosen
among; it lasts because entries that came later are not among them, and nothing is scored any more. It gives
`WinnersStandHolds`, the action property `SubmittedStayAloneHolds`, and with `BaseInv` `KeysNameSubmittedHolds` and `LimitHoldsAlways`.

**`FundingProofs`**, for all requests, kinds, amounts, deadlines and failing steps. Nearly every patch writes what its request read earlier. `Sound` says of the draft a request
holds that it is `Credible` (claims no more than the chain, the record and Circle bear out), and of a verification's result that it is `Borne`. Both last
because escrow, record and Circle's transaction only ever say more (`Progress`). Theorems: `VerifiedIsFundedHolds`, `LiveHasRecordHolds`, `HashesAreRealHolds`, `TypeCorrect`.
Assumption: `FundingConstants` (amounts are positive, requests are of the routes that are modelled).

**`FoundationProofs`**, for any number of people, requests, pages and pictures. `WalletInv`: at most one request of a
person is past the insert of the wallet row and before the end of its attempt, and until then nothing is offered and nothing lives; hence `OneOperationHolds`, `VerifiedIsTrustedHolds` and the
action property `ActiveForGoodHolds`. `RoleInv` (what admitted a request still holds when it sets the role, if requests do not overlap) gives `RoleIsKeptHolds`. `KeysApart`, which holds
whatever overlaps, says that no two people's rows, pages or requests hold one object key; together with `AvatarInv`, which follows a save from step to step (the account first,
then the profile, then the removal), it gives `AvatarExistsHolds`. Assumption: `FoundationConstants`.

**`WalletsProofs`**, for any number of scopes, accounts, requests and finitely many wallets. `Inv`: every row of the two tables,
stored or in the copy of a request that will write it, `Fits` its account: it is live and one Circle holds for it. Circle only adds wallets and puts
them live, so what fits goes on fitting. It gives `AnswersAreLiveHolds`. `BrandInv` says that all rows that could ever be written for a brand's scope agree, from which the action property
`MappingStaysHolds` follows. `GivenIsKeptHolds` is about what a page was given and what the table says later: `GivenInv` adds that a request which is about to answer, now or
after its write, answers with a row that is mapped (`Answerable`), that what a brand was given is what its scope is mapped to, which `BrandInv` keeps so, and that the
table names each wallet once, which only the constraint ensures. Assumption: `WalletConstants` (`IsFiniteSet(Wallets)`: the model counts candidates).

**`Terms`**, in `EscrowProofs`, for all pools, prizes, deadlines, policies and bounds. Assumptions: `TermsConstants` (types, every deadline is within the
time that is modelled) and `NoneIsNoOffer`. `SplitsAddUp` and `FeeIsCeiling` are the arithmetic. `FundingIsAccepted` is not inductive, because the draft it came from may be edited
afterwards: the invariant `TermsInv` says of the terms themselves that they are `TermsSound`, and of an approved payout that the contract agrees now, which lasts because
time only grows, the escrow is fixed and winners are selected once. From it `OfferIsAccepted` and `PayoutNeverReverts`. What the contract
accepts is modelled twice, in full and as far as terms go; `OneContract` says that `Escrow` funds only terms that are `FundableTerms`, records them as `Matches` compares
them (`Records`), and pays them only when and to as many winners as `Releasable` asks for.

**`WizardProofs`**, for any number of handlers, texts, polls and setbacks. Assumption: `WizardConstants` (no text or reply is also the mark of an absent
one). `Inv` says of each handler that it is `Sound`: which requests it makes (`Asked`), that a draft or a payment state was answered where
it will read one. `SavedIsStored` is not inductive, because what the page calls saved was sent, and answered, some time ago. `SavedInv` follows it, as long as no two requests that carry the
draft were on their way at once (`overlap`, the condition of the property): there is at most one such request, and `Held` compares its text with the page
before it is served, and with the store from then until the page reads the answer. Every action is a step of one handler and of the page; how a handler
goes on after an answer is proved once and used by all. Theorems: `TypeCorrect`, `SavedIsStoredHolds`.

**What the attempts corrected in the models.** `Wallets!VerifiedWallets` was a `CASE` with overlapping arms, whose value TLA+ leaves open: it is an `IF` in the
order of the code. The type invariant of `Funding` was narrower than what a request may hold on an instance with other kinds of requests. The
assumptions that `None` is no route, kind or name that TLC took for granted are stated. Tables of rows are changed by `Put`, `Adding` and `Upserted`, which
are plain functions, so that the provers can reason about them.

## 5. What the models show against the documents

* *A settlement may never be recorded* (`payout_settled`): the confirmation is written first, and every later
  request then returns before the evidence.

Other statements in the modules do not hold either. No run is devoted to them; to see the counterexample, put the
property in place of the ones named:

| Statement | Document | Put into | What happens |
|---|---|---|---|
| `ConfirmedIsTerminal` (`Payout`) | SYSTEM_ARCHITECTURE.md:511 | `MCPayout.cfg` | a status request that asked Circle earlier writes TRANSACTION_SUBMITTED over PAYOUT_CONFIRMED; the next one repairs it |
| `WinnersAreFixed` (`Payout`) | SYSTEM_ARCHITECTURE.md:503 | `MCPayout.cfg` | the attempt is read before the lock, which admits an attempt at rest: winners are replaced. `EvidenceIsThePayout` holds nevertheless |
| `PaidIsTrue` (`Settlement`) | SYSTEM_ARCHITECTURE.md:503 | `MCSettlement.cfg`, with `SettlementSpec` and `Requests <- TwoRequests` | the same: a creator of the later list reads "Reward Paid" for the payout to the earlier one. `PaymentIsReal` holds nevertheless |
| `StaleWritersRejected` (`Store`) | scripts/verify-create-challenge-store-safety.mjs:38 | `MCStore.cfg` | Supabase has no revision |
| `DeletionSparesPayments` (`Store`) | scripts/verify-p0-brand-draft-persistence-delete.mjs:48 | `MCStore.cfg` | the rows go after the guarded update, unguarded |
| `SubmittedStateIsImmutable` (`Submissions`) | SYSTEM_ARCHITECTURE.md:226 | `MCSubmissions.cfg` | a save that read the store before an entry was finalized writes it back as a draft |
| `TermsStay` (`Terms`, an invariant) | P0_FRESH_CHALLENGE_DEADLINE_READINESS_FIX_REPORT.md:15 | `MCTerms.cfg` | a live challenge's draft is edited and no longer says what the contract holds |
| `DeadlineBinds` (`Terms`) | SYSTEM_ARCHITECTURE.md:474 | `MCTerms.cfg` | the submission deadline is edited while the challenge is live: entries are taken after the contract's |
| `RepairedGetsPaid` (`Terms`) | none | `MCTerms.cfg` | winners selected while the number of winners was edited: after it is edited back the finalized record fits no more |
| `PendingIsRecovered` (`Foundation`) | docs/architecture/creator-foundation.md:20 | `MCFoundation.cfg` | a wallet row that is PENDING without a challenge at the page is only read again, never retried with its key |
| `ApprovalIsRecoverable` (`Settlement`) | SYSTEM_ARCHITECTURE.md:152, 504 | `MCSettlement.cfg`, with `SettlementSpec` | the settlement tab's button is disabled once the record names a challenge, although the server would hand the same challenge out again |
| `PayoutMappingStays` (`Wallets`) | none | `MCWallets.cfg` | of two overlapping requests of the payout operator, the later finds the wallet taken by the earlier and maps another |
| `SharedIsServed` (`Wallets`) | none | `MCWallets.cfg` | with two wallets live and none mapped, each of two scopes of one account finds the choice ambiguous, for ever |
| `EarlyAnswersAreLive` (`Wallets`) | none | `MCWallets.cfg`, with `Workloads <- Early` | a wallet recorded before it is live is mapped from the record by a request that fails, and given out by the next |

Seen while modelling, without a document that says otherwise:

* `/verify` on a live challenge sets `ready-to-publish`, a failed restoration sets `draft`, an approval reconciled late
  sets a funded draft back to `approved`; a promotion compares amounts but not deadlines (`Funding`).
* Two autosaves may overtake each other: the page then says saved while the older text is stored. Text edited while a save or
  reconciliation is in flight is replaced by the answer. A delayed save merges the old publication status over a
  newer one, so `FundedGoesLive` does not claim that a challenge stays live (`Wizard`).
* Prizes edited after the funding was signed leave a mined funding pending for ever; a reconciliation even resets the draft, and may forget that the event was
  seen. With other deadlines a reconciliation does the same, but an overview, which compares prizes only, may secure the challenge, and it then goes live with
  deadlines the contract does not have (`Wizard`).
* One read of the submissions file that fails, of a file that is whole, counts as an empty store: the next save or submission writes a store
  with its own entry only (`Submissions`, file adapter).
* The payout route finalizes winners that nobody has reviewed; after a deadline that was moved, entries come that the review has not seen (`Submissions`).
* A migration of a legacy record that asked Circle before the brand's wallet went live can put its wallet into the place of the one that is being given to
  the brand (`Wallets`; `GivenIsKept` and `MappingStays` are stated without legacy records).
* A funding window that was closed cannot be opened again: the button is offered only while the draft is APPROVED. Only a reload leads on (`Wizard`).
* An approval request that stops at the write of its id can leave FINALIZATION_IN_PROGRESS or APPROVAL_CREATION_IN_PROGRESS for ever (`Payout`).
* "Not Selected" (`creator-workspace.server.ts:467`) never shows: the attempt is looked up by the very list that
  does not name the entry. The brand's dashboard is not given the approval's time and hash, so it may say that winners are to be selected while the
  public page says settlement (`Settlement`).
* Nothing under `src/` calls `cancelAndRefund`: the prize of a challenge that closes with too few entries stays in the contract (`Escrow`).
* Publication asks for readiness again: a funded challenge whose submissions close sooner than the lead by then is refused
  (`ComeTooNear` in `Wizard`; `FundedGoesLive` does not claim that it goes live). A live one that is verified again after its deadline is ready to publish, is refused for the same reason, and cannot be
  paid (`Terms`; `LiveGetsPaid` excludes it).
* With the review deadline edited before the submission deadline, pages show a challenge as open while the server refuses entries.
  The recommended split of 6 units gives the third place more than the second (`Terms`).
* The picture a brand replaces is removed before its profile is saved; a creator's after (`Foundation`).

## 6. What is only model-checked, and what is not modelled

Only checked: the liveness properties (`ApprovedIsServed`, `EveryRequestEnds`, `EveryoneLearns`, `FundedGoesLive`, `LiveGetsPaid`, `OfferedBecomesActive`,
`PaidIsConfirmed`), because liveness under fairness and ENABLED are out of the prover's reach, as is induction over data. The other type invariants, `TotalsMatchChallenges` (half of `BooksBalance`), `LimitHolds` and `SettledForever` are proved instead of checked again. The theorems of `PayoutProofs` that assume `OneAtATime` say nothing of overlapping requests (`PaymentIsReal` is what remains of `PaidIsTrue`), nor do
those properties of `Store`, `Submissions` and `Foundation` that name such a condition themselves.

Not modelled, and why:

* Of the rules: content checks of a form (lengths, links, formats), parsing and formatting of amounts and dates, the test drafts'
  shorter deadline policy (a value of `Lead` and `Gap`).
* Session tokens, wallet role checks (a request that fails them changes nothing), the test context, the internal escrow spike and
  its routes, balances, the client of Circle's API beyond how the services use it.
* Public slugs: whether two brands' drafts get one slug is a matter of the contents that `Store` abstracts.
* Layout, wording, normalisation of old records; `getWinnerPayoutStatus` and `reconcileWinnerPayout`, which nothing calls;
  lifecycle events nothing reads; in `Store` account scopes; in `Submissions` the eligibility checks other than
  the clock; in `Funding` wallets, a paused escrow, and payouts or refunds after publication (`Escrow`, `Payout`).
* A client that is not the repository's page: the draft route stores the draft it is sent (`app/api/create-challenge/draft/route.ts:115-141` checks its
  owner, not its funding fields), so `Funding!SavePage` assumes a page that sends these fields as it has loaded them, old ones included. What `VerifiedIsFunded` and its
  like say, they say of such pages.

Most of the repository's lines are page layout, landing pages, styles of components, verification scripts and internal test routes
that keep no state a property could be about. The modules cover the services, handlers and effects that do; a larger
share of the lines could only be had by restating formatting.

## 7. Plan

Done, in this order: 1 `Custody`, `Escrow`, `EscrowProofs`; 2 `Payout`, `PayoutProofs`; 3 `Store`; 4 `Submissions`;
5 `Funding` without public slugs; 6 `Foundation`; 7 `Wizard`; 8 `Settlement` over `Payout`; 9 `Wallets`; 10 `Terms`.

11 `WalletsProofs`, `FoundationProofs`, `FundingProofs`, `StoreProofs`, `SubmissionsProofs`, the books of `EscrowProofs`, and in `PayoutProofs` the requests
that are handled one at a time and `Settlement`; 12 `Terms` in `EscrowProofs` with `OneContract`, `WizardProofs`, and in
`PayoutProofs` what the pages show when requests overlap; 13 the type invariants of `Store` and `Settlement`, the last invariants without a theorem.

What is left needs a prover for liveness (section 6).
