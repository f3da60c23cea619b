---------------------------- MODULE Foundation -----------------------------
(***************************************************************************)
(* Accounts, roles, payout wallets and creator profiles:                   *)
(* src/services/creator-foundation/creator-foundation.server.ts, the       *)
(* routes that call it and the pages that call the routes.                 *)
(*                                                                         *)
(* Every statement to Supabase or Circle is one step of a request, and     *)
(* requests of one user may overlap.  Circle and the constraints of the    *)
(* tables (supabase/migrations) are the environment.  An account and the   *)
(* Supabase user it belongs to have one name.                              *)
(***************************************************************************)
EXTENDS Naturals, FiniteSets

CONSTANTS
  Users,       \* people with a verified Supabase session
  Procs,       \* requests that can be in flight at once
  Tabs,        \* open pages of the profile form, per user
  Keys,        \* object keys that uploads can draw
  Names,       \* usernames
  Workloads,   \* who asks for what: see the assumption
  MaxFaults,   \* requests that are cut off
  None

Routes == {"signIn", "creator", "brand", "save", "upload"}

ASSUME FoundationConstants ==
  /\ MaxFaults \in Nat
  /\ None \notin Users \cup Tabs \cup Keys \cup Names \cup Routes
  /\ Workloads \subseteq [users : SUBSET Users, tabs : SUBSET Tabs,
                          routes : SUBSET Routes,
                          alone : BOOLEAN,    \* one request of a user at a time
                          known : BOOLEAN,    \* they are creators already
                          refs : BOOLEAN,     \* Circle lists whose wallet is whose
                          others : SUBSET {"other"}]  \* Circle wallets they have

VARIABLES
  workload,    \* the one that this behaviour is of
  accounts,    \* table accounts
  profiles,    \* table creator_profiles
  circleUsers, \* the accounts with a row in table circle_users
  wallets,     \* table wallets, scope CREATOR_PAYOUT
  circle,      \* what Circle knows of each user
  offered,     \* the users whose page holds the id of Circle's challenge
  media,       \* the object keys in the bucket
  drawn,       \* the object keys ever uploaded
  form,        \* avatarImageKey in the state of each open page
  requests,
  faults

vars == <<workload, accounts, profiles, circleUsers, wallets, circle, offered,
          media, drawn, form, requests, faults>>

Statuses == {"ABSENT", "PENDING", "ACTIVE", "FAILED"}
\* The wallet the challenge makes, and another one of the same Circle user.
CircleWallets == {"scoped", "other"}

Steps == {"idle", "select", "create", "enableBrand", "enableCreator", "profile",
          "circleUser", "newCircleUser", "insertCircleUser", "wallet", "insertWallet",
          "initialize", "markFailed", "offer", "list", "bind",
          "identity", "account", "username", "upsert", "readback", "remove", "saved",
          "put", "uploaded"}

Idle == [step |-> "idle", route |-> None, user |-> None, tab |-> None,
         name |-> None, key |-> None, before |-> None, wallet |-> None]
Key == Keys \cup {None}

TypeOK ==
  /\ workload \in Workloads
  /\ accounts \in [Users -> [exists : BOOLEAN, brand : BOOLEAN, creator : BOOLEAN, avatar : Key]]
  /\ profiles \in [Users -> [exists : BOOLEAN, name : Names \cup {None}, avatar : Key]]
  /\ circleUsers \subseteq Users
  /\ wallets \in [Users -> [status : Statuses, bound : CircleWallets \cup {None}]]
  /\ circle \in [Users -> [known : BOOLEAN, initialized : 0..2, live : SUBSET CircleWallets]]
  /\ offered \subseteq Users
  /\ media \subseteq drawn /\ drawn \subseteq Keys
  /\ form \in [Users \X Tabs -> Key]
  /\ requests \in [Procs -> [step : Steps, route : Routes \cup {None}, user : Users \cup {None},
                             tab : Tabs \cup {None}, name : Names \cup {None},
                             key : Key, before : Key, wallet : CircleWallets \cup {None}]]
  /\ faults \in 0..MaxFaults

\* A creator who is known already went through onboarding up to its profile.
Init ==
  /\ workload \in Workloads
  /\ LET known == workload.known
     IN /\ accounts = [u \in Users |-> [exists |-> known, brand |-> FALSE,
                                        creator |-> known, avatar |-> None]]
        /\ profiles = [u \in Users |-> [exists |-> known, name |-> None, avatar |-> None]]
  /\ circleUsers = {}
  /\ wallets = [u \in Users |-> [status |-> "ABSENT", bound |-> None]]
  /\ circle = [u \in Users |-> [known |-> FALSE, initialized |-> 0, live |-> workload.others]]
  /\ offered = {}
  /\ media = {} /\ drawn = {}
  /\ form = [w \in Users \X Tabs |-> None]
  /\ requests = [p \in Procs |-> Idle]
  /\ faults = 0

-----------------------------------------------------------------------------
At(p, step) == requests[p].step = step
Become(p, q) == requests' = [requests EXCEPT ![p] = q]
Go(p, step) == Become(p, [requests[p] EXCEPT !.step = step])
Finish(p) == Become(p, Idle)
UserOf(p) == requests[p].user

onboarding == <<circleUsers, wallets, circle, offered>>
pictures == <<media, drawn, form>>
fixed == <<workload, faults>>
OnlyRequests == UNCHANGED <<accounts, profiles, onboarding, pictures, fixed>>
OnlyAccounts == UNCHANGED <<profiles, onboarding, pictures, fixed>>
OnlyProfiles == UNCHANGED <<accounts, onboarding, pictures, fixed>>

\* A form waits for the answer to its own request (pending, uploading).
Start(p, u, q) ==
  /\ At(p, "idle") /\ u \in workload.users /\ q.route \in workload.routes
  /\ \A o \in Procs \ {p} : UserOf(o) = u =>
       ~workload.alone /\ (q.tab = None \/ requests[o].tab # q.tab)
  /\ Become(p, [q EXCEPT !.user = u])
  /\ OnlyRequests

\* The call of another service fails, or the process stops.
Abort(p) ==
  /\ ~At(p, "idle")
  /\ faults < MaxFaults /\ faults' = faults + 1
  /\ Finish(p)
  /\ UNCHANGED <<workload, accounts, profiles, onboarding, pictures>>

-----------------------------------------------------------------------------
\* A bug: the roles of the account are not looked at.
AnyRole(route, a) ==
  CASE route = "brand" -> "enableBrand" [] route = "creator" -> "enableCreator"
    [] route = "save" -> "identity" [] route = "upload" -> "put" [] OTHER -> "idle"

\* primaryRoleForAccount
RoleOf(a) ==
  CASE a.brand /\ ~a.creator -> "brand" [] a.creator /\ ~a.brand -> "creator" [] OTHER -> None

\* assertCanUseBrandRole, assertCanUseCreatorRole and the creator access that
\* the profile and the upload require, on the row that was read.
Admitted(route, a) ==
  CASE route = "brand" /\ ~a.creator -> "enableBrand"
    [] route = "creator" /\ ~a.brand -> "enableCreator"
    [] route = "save" /\ RoleOf(a) = "creator" -> "identity"
    [] route = "upload" /\ RoleOf(a) = "creator" -> "put"
    [] OTHER -> "idle"

Admit(p, a) ==
  LET step == Admitted(requests[p].route, a)
  IN IF step = "idle" THEN Finish(p) ELSE Go(p, step)

StartSignIn(p) ==
  \E u \in Users, route \in {"signIn", "brand", "creator"} :
    Start(p, u, [Idle EXCEPT !.step = "select", !.route = route])

\* resolveOrCreateCcnAccount
SelectAccount(p) ==
  /\ At(p, "select")
  /\ IF accounts[UserOf(p)].exists THEN Admit(p, accounts[UserOf(p)]) ELSE Go(p, "create")
  /\ OnlyRequests

\* The upsert leaves the roles of a row that is there by now, and returns it.
CreateAccount(p) ==
  /\ At(p, "create")
  /\ accounts' = [accounts EXCEPT ![UserOf(p)].exists = TRUE]
  /\ Admit(p, accounts[UserOf(p)])
  /\ OnlyAccounts

\* completeBrandOnboarding
EnableBrand(p) ==
  /\ At(p, "enableBrand")
  /\ accounts' = [accounts EXCEPT ![UserOf(p)].brand = TRUE, ![UserOf(p)].creator = FALSE]
  /\ Finish(p)
  /\ OnlyAccounts

\* startCreatorOnboarding, up to the wallet
EnableCreator(p) ==
  /\ At(p, "enableCreator")
  /\ accounts' = [accounts EXCEPT ![UserOf(p)].creator = TRUE, ![UserOf(p)].brand = FALSE]
  /\ Go(p, "profile")
  /\ OnlyAccounts

InsertProfile(p) ==
  /\ At(p, "profile")
  /\ profiles' = [profiles EXCEPT ![UserOf(p)].exists = TRUE]
  /\ Go(p, "circleUser")
  /\ OnlyProfiles

-----------------------------------------------------------------------------
\* resolveOrCreateCircleUser
SelectCircleUser(p) ==
  /\ At(p, "circleUser")
  /\ Go(p, IF UserOf(p) \in circleUsers THEN "wallet" ELSE "newCircleUser")
  /\ OnlyRequests

\* createCircleUser: that the user exists (155101) is no error.
CreateCircleUser(p) ==
  /\ At(p, "newCircleUser")
  /\ circle' = [circle EXCEPT ![UserOf(p)].known = TRUE]
  /\ Go(p, "insertCircleUser")
  /\ UNCHANGED <<accounts, profiles, circleUsers, wallets, offered, pictures, fixed>>

\* An insert that meets the row of another request reads it.
InsertCircleUser(p) ==
  /\ At(p, "insertCircleUser")
  /\ circleUsers' = circleUsers \cup {UserOf(p)}
  /\ Go(p, "wallet")
  /\ UNCHANGED <<accounts, profiles, wallets, circle, offered, pictures, fixed>>

\* A bug: a row that is there is initialised once more.
InitializeAgain(status) == IF status = "ABSENT" THEN "insertWallet" ELSE "initialize"

\* A bug: a row that is there is only reported, as the status route does.
ReportOnly(status) == IF status = "ABSENT" THEN "insertWallet" ELSE "idle"

\* What resolveOrCreateScopedWallet does with the row it finds.
WalletStep(status) ==
  CASE status = "ABSENT" -> "insertWallet" [] status = "PENDING" -> "list" [] OTHER -> "idle"

\* resolveOrCreateScopedWallet: the token, which Circle gives to a user it
\* knows, and the row.
SelectWallet(p) ==
  LET step == WalletStep(wallets[UserOf(p)].status)
  IN /\ At(p, "wallet") /\ circle[UserOf(p)].known
     /\ IF step = "idle" THEN Finish(p) ELSE Go(p, step)
     /\ OnlyRequests

\* The row is unique by account and scope; the loser answers what it finds.
InsertWallet(p) ==
  LET u == UserOf(p)
  IN /\ At(p, "insertWallet")
     /\ IF wallets[u].status = "ABSENT"
        THEN /\ wallets' = [wallets EXCEPT ![u].status = "PENDING"]
             /\ Go(p, "initialize")
        ELSE /\ Finish(p)
             /\ UNCHANGED wallets
     /\ UNCHANGED <<accounts, profiles, circleUsers, circle, offered, pictures, fixed>>

\* Circle makes the challenge; the answer may be an error all the same.
Initialize(p) ==
  LET u == UserOf(p)
      made == [circle EXCEPT ![u].initialized = IF @ = 2 THEN 2 ELSE @ + 1]
  IN /\ At(p, "initialize")
     /\ \/ circle' = made /\ Go(p, "offer")
        \/ circle' \in {circle, made} /\ Go(p, "markFailed")
     /\ UNCHANGED <<accounts, profiles, circleUsers, wallets, offered, pictures, fixed>>

MarkFailed(p) ==
  /\ At(p, "markFailed")
  /\ wallets' = [wallets EXCEPT ![UserOf(p)].status = "FAILED"]
  /\ Finish(p)
  /\ UNCHANGED <<accounts, profiles, circleUsers, circle, offered, pictures, fixed>>

\* The answer, which alone carries the challenge's id, reaches the page.
Offer(p) ==
  /\ At(p, "offer")
  /\ offered' = offered \cup {UserOf(p)}
  /\ Finish(p)
  /\ UNCHANGED <<accounts, profiles, circleUsers, wallets, circle, pictures, fixed>>

\* CreatorPayoutWalletSetup: the person approves the challenge on the page.
ApproveWallet(u) ==
  /\ u \in offered
  /\ offered' = offered \ {u}
  /\ circle' = [circle EXCEPT ![u].live = @ \cup {"scoped"}]
  /\ UNCHANGED <<accounts, profiles, circleUsers, wallets, pictures, fixed, requests>>

\* A bug: "the only live wallet" will do.
AnyLive(u) == circle[u].live

\* usableArcScaWallet and circleWalletMatchesScope
Trusted(u) == IF workload.refs THEN circle[u].live \cap {"scoped"} ELSE {}

\* A bug: a wallet that is not listed yet is given up.
GiveUp(p) == Go(p, "markFailed")

\* Without exactly one match the row stays as it is.
KeepPending(p) == Finish(p)

\* recoverPendingWallet
ListWallets(p) ==
  LET u == UserOf(p)
  IN /\ At(p, "list")
     /\ IF Cardinality(Trusted(u)) = 1
        THEN \E w \in Trusted(u) : Become(p, [requests[p] EXCEPT !.step = "bind", !.wallet = w])
        ELSE KeepPending(p)
     /\ OnlyRequests

\* getVerifiedCreatorPayoutWallet
Verified(u) == wallets[u].status = "ACTIVE" /\ wallets[u].bound # None

BindWallet(p) ==
  /\ At(p, "bind")
  /\ wallets' = [wallets EXCEPT ![UserOf(p)] = [status |-> "ACTIVE", bound |-> requests[p].wallet]]
  /\ Finish(p)
  /\ UNCHANGED <<accounts, profiles, circleUsers, circle, offered, pictures, fixed>>

-----------------------------------------------------------------------------
\* creatorIdentityFromRows: the avatar, of the profile or else of the account.
Avatar(profile, account) == IF profile.avatar # None THEN profile.avatar ELSE account.avatar
Shown(u) == Avatar(profiles[u], accounts[u])

\* The page is opened, or opened again, while it waits for nothing.
LoadForm(u, t) ==
  /\ u \in workload.users /\ t \in workload.tabs /\ profiles[u].exists
  /\ \A p \in Procs : ~(UserOf(p) = u /\ requests[p].tab = t)
  /\ form' = [form EXCEPT ![<<u, t>>] = Shown(u)]
  /\ UNCHANGED <<accounts, profiles, onboarding, media, drawn, fixed, requests>>

\* "Remove photo" changes the page only.
ClearPhoto(u, t) ==
  /\ u \in workload.users /\ t \in workload.tabs
  /\ \A p \in Procs : ~(UserOf(p) = u /\ requests[p].tab = t)
  /\ form' = [form EXCEPT ![<<u, t>>] = None]
  /\ UNCHANGED <<accounts, profiles, onboarding, media, drawn, fixed, requests>>

StartUpload(p) ==
  \E u \in Users, t \in workload.tabs :
    Start(p, u, [Idle EXCEPT !.step = "select", !.route = "upload", !.tab = t])

\* uploadBrandMedia draws a new key; nothing refers to the object yet.
PutObject(p) ==
  /\ At(p, "put")
  /\ \E k \in Keys \ drawn :
       /\ media' = media \cup {k} /\ drawn' = drawn \cup {k}
       /\ Become(p, [requests[p] EXCEPT !.step = "uploaded", !.key = k])
  /\ UNCHANGED <<accounts, profiles, onboarding, form, fixed>>

\* uploadAvatar
KeepUploaded(p) ==
  /\ At(p, "uploaded")
  /\ form' = [form EXCEPT ![<<UserOf(p), requests[p].tab>>] = requests[p].key]
  /\ Finish(p)
  /\ UNCHANGED <<accounts, profiles, onboarding, media, drawn, fixed>>

\* saveProfile of the page sends the key that the page holds.
StartSave(p) ==
  \E u \in Users, t \in workload.tabs, n \in Names :
    Start(p, u, [Idle EXCEPT !.step = "select", !.route = "save", !.tab = t, !.name = n,
                             !.key = form[<<u, t>>]])

\* updateCreatorProfile: the identity before
ReadIdentity(p) ==
  /\ At(p, "identity")
  /\ Become(p, [requests[p] EXCEPT !.step = "account", !.before = Shown(UserOf(p))])
  /\ OnlyRequests

\* A bug: the old object is removed before anything is known to be saved.
ReplaceAtOnce(p) ==
  /\ At(p, "account")
  /\ accounts' = [accounts EXCEPT ![UserOf(p)].avatar = requests[p].key]
  /\ media' = media \ ({requests[p].before} \ {requests[p].key})
  /\ Go(p, "username")
  /\ UNCHANGED <<profiles, onboarding, drawn, form, fixed>>

\* The account's row is patched before the username is looked at.
UpdateAccount(p) ==
  /\ At(p, "account")
  /\ accounts' = [accounts EXCEPT ![UserOf(p)].avatar = requests[p].key]
  /\ Go(p, "username")
  /\ OnlyAccounts

\* Somebody else's username, by a query or by the unique index (23505).
Taken(p) == \E u \in Users \ {UserOf(p)} : profiles[u].name = requests[p].name

CheckUsername(p) ==
  /\ At(p, "username")
  /\ IF Taken(p) THEN Finish(p) ELSE Go(p, "upsert")
  /\ OnlyRequests

UpsertProfile(p) ==
  /\ At(p, "upsert")
  /\ IF Taken(p) THEN Finish(p) /\ UNCHANGED profiles
     ELSE /\ profiles' = [profiles EXCEPT ![UserOf(p)] =
                            [exists |-> TRUE, name |-> requests[p].name, avatar |-> requests[p].key]]
          /\ Go(p, "readback")
  /\ OnlyProfiles

\* What is read back must be what was sent.
ReadBack(p) ==
  LET u == UserOf(p)
      same == profiles[u].name = requests[p].name /\ Shown(u) = requests[p].key
  IN /\ At(p, "readback")
     /\ IF same THEN Go(p, "remove") ELSE Finish(p)
     /\ OnlyRequests

\* removeBrandMedia of the avatar there was, if it is another one.
RemoveOld(p) ==
  LET q == requests[p]
  IN /\ At(p, "remove")
     /\ \/ media' = IF q.before # q.key THEN media \ {q.before} ELSE media
        \/ UNCHANGED media
     /\ Go(p, "saved")
     /\ UNCHANGED <<accounts, profiles, onboarding, drawn, form, fixed>>

\* The page takes over the identity that was read back.
AnswerSave(p) ==
  /\ At(p, "saved")
  /\ form' = [form EXCEPT ![<<UserOf(p), requests[p].tab>>] = requests[p].key]
  /\ Finish(p)
  /\ UNCHANGED <<accounts, profiles, onboarding, media, drawn, fixed>>

-----------------------------------------------------------------------------
Serve(p) ==
  \/ SelectAccount(p) \/ CreateAccount(p) \/ EnableBrand(p) \/ EnableCreator(p)
  \/ InsertProfile(p) \/ SelectCircleUser(p) \/ CreateCircleUser(p) \/ InsertCircleUser(p)
  \/ SelectWallet(p) \/ InsertWallet(p) \/ Initialize(p) \/ MarkFailed(p) \/ Offer(p)
  \/ ListWallets(p) \/ BindWallet(p)
  \/ ReadIdentity(p) \/ UpdateAccount(p) \/ CheckUsername(p) \/ UpsertProfile(p)
  \/ ReadBack(p) \/ RemoveOld(p) \/ AnswerSave(p) \/ PutObject(p) \/ KeepUploaded(p)

Next ==
  \/ \E p \in Procs : StartSignIn(p) \/ StartUpload(p) \/ StartSave(p) \/ Serve(p) \/ Abort(p)
  \/ \E u \in Users : ApproveWallet(u)
  \/ \E u \in Users, t \in Tabs : LoadForm(u, t) \/ ClearPhoto(u, t)

Spec == Init /\ [][Next]_vars

\* Somebody who wants a wallet asks for it again and again, and approves what
\* Circle asks.
AsksAgain(u) ==
  \E p \in Procs : Start(p, u, [Idle EXCEPT !.step = "select", !.route = "creator"])

FairSpec ==
  /\ Spec
  /\ \A p \in Procs : WF_vars(Serve(p))
  /\ \A u \in Users : WF_vars(ApproveWallet(u)) /\ SF_vars(AsksAgain(u))

-----------------------------------------------------------------------------
(***************************************************************************)
(* Properties                                                              *)
(***************************************************************************)
\* "A recovery endpoint must not create a new operation when a pending row can
\* be retried or reconciled" (docs/architecture/creator-foundation.md): however
\* requests overlap and are cut off, Circle is asked once to make the payout
\* wallet of an account.
OneOperation == \A u \in Users : circle[u].initialized <= 1

\* A verified payout wallet, without which nobody submits or is paid, is the
\* wallet that the account's own challenge made and its owner approved; no guess
\* binds another wallet of the user.
VerifiedIsTrusted ==
  \A u \in Users :
    Verified(u) => wallets[u].bound = "scoped" /\ "scoped" \in circle[u].live

\* A wallet that was activated stays: no request that began earlier marks it
\* failed, binds another one or makes it wait again.
ActiveForGood ==
  [][\A u \in Users : wallets[u].status = "ACTIVE" => wallets'[u] = wallets[u]]_vars

\* The role of an account is never changed, if the requests of a person do not
\* overlap.
RoleIsKept ==
  [][workload.alone =>
       \A u \in Users : RoleOf(accounts[u]) # None => RoleOf(accounts'[u]) = RoleOf(accounts[u])]_vars

\* With one page and one request at a time, the avatar a creator is shown with
\* is an object in the bucket, whatever saves fail or are cut off on the way.
AvatarExists ==
  workload.alone /\ (\A s, t \in workload.tabs : s = t) =>
    \A u \in Users : Shown(u) # None => Shown(u) \in media

\* Somebody who holds the challenge of Circle gets the wallet, if Circle tells
\* whose wallets it lists.
OfferedBecomesActive ==
  \A u \in Users :
    u \in offered /\ workload.refs /\ RoleOf(accounts[u]) = "creator"
      ~> wallets[u].status \in {"ACTIVE", "FAILED"} \/ RoleOf(accounts[u]) # "creator"

\* "Wallet recovery starts from the DB wallet row and only reconciles Circle
\* state through supported Circle user wallet listing or the original
\* deterministic idempotency key": whoever keeps asking gets a wallet.
PendingIsRecovered ==
  \A u \in Users :
    wallets[u].status = "PENDING" /\ workload.refs
      ~> wallets[u].status \in {"ACTIVE", "FAILED"} \/ RoleOf(accounts[u]) # "creator"
=============================================================================
