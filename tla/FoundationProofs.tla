-------------------------- MODULE FoundationProofs ---------------------------
(***************************************************************************)
(* Theorems about accounts, payout wallets and profiles for any number of  *)
(* people, overlapping requests, pages, object keys and interruptions.     *)
(*                                                                         *)
(* Four invariants, each on top of Sound, which says what a request holds  *)
(* at each of its steps: WalletInv of the one operation at Circle and the  *)
(* one wallet it makes, RoleInv of requests that do not overlap, KeysApart *)
(* of whose pictures are whose, and AvatarInv of what a save leaves in the *)
(* bucket from step to step.                                               *)
(***************************************************************************)
EXTENDS Foundation, TLAPS

Request == [step : Steps, route : Routes \cup {None}, user : Users \cup {None},
            tab : Tabs \cup {None}, name : Names \cup {None},
            key : Key, before : Key, wallet : CircleWallets \cup {None}]

SaveSteps == {"identity", "account", "username", "upsert", "readback", "remove", "saved"}
UploadSteps == {"put", "uploaded"}

Sound(q) ==
  /\ q \in Request
  /\ IF q.step = "idle" THEN q = Idle ELSE q.user \in Users /\ q.route \in Routes
  /\ q.route \in {"save", "upload"} => q.tab \in workload.tabs
  /\ q.step \in SaveSteps => q.route = "save"
  /\ q.step \in UploadSteps => q.route = "upload"

Inv == TypeOK /\ \A p \in Procs : Sound(requests[p])

\* The steps of the request that inserted the row and asks Circle.
Attempting == {"initialize", "markFailed", "offer"}
Attempts(u) == {p \in Procs : requests[p].step \in Attempting /\ UserOf(p) = u}

\* There is one attempt, no challenge is offered before it ends, and without an
\* offer the wallet of the challenge does not live.
WalletOf(u) ==
  /\ circle[u].initialized <= 1
  /\ \A p, o \in Attempts(u) : p = o
  /\ Attempts(u) # {} => u \notin offered /\ "scoped" \notin circle[u].live
  /\ \A p \in Attempts(u) : At(p, "initialize") => circle[u].initialized = 0
  /\ wallets[u].status = "ABSENT" =>
       /\ Attempts(u) = {} /\ circle[u].initialized = 0
       /\ u \notin offered /\ "scoped" \notin circle[u].live
  /\ wallets[u].status = "ACTIVE" =>
       wallets[u].bound = "scoped" /\ "scoped" \in circle[u].live
  /\ \A p \in Procs : At(p, "bind") /\ UserOf(p) = u =>
       requests[p].wallet = "scoped" /\ "scoped" \in circle[u].live

WalletInv == \A u \in Users : WalletOf(u)

\* Requests of one person follow each other.
OneByOne == \A p, o \in Procs : UserOf(p) # None /\ UserOf(p) = UserOf(o) => p = o

\* What a request was admitted by still holds when it sets the role.
RoleInv ==
  workload.alone =>
    /\ OneByOne
    /\ \A p \in Procs : At(p, "enableBrand") => ~accounts[UserOf(p)].creator
    /\ \A p \in Procs : At(p, "enableCreator") => ~accounts[UserOf(p)].brand

\* All the keys somebody's rows, pages and requests hold.
Rows(u) == {profiles[u].avatar, accounts[u].avatar}
Forms(u) == {form[<<u, t>>] : t \in Tabs}
Holds(u) ==
  Rows(u) \cup Forms(u)
          \cup UNION {{requests[p].key, requests[p].before} : p \in {o \in Procs : UserOf(o) = u}}

\* Nobody holds the key of somebody else.
KeysApart ==
  /\ \A u \in Users : Holds(u) \subseteq drawn \cup {None}
  /\ \A u, v \in Users : u # v => Holds(u) \cap Holds(v) \subseteq {None}

OneTab == \A s, t \in workload.tabs : s = t

\* What the rows and the page refer to is in the bucket; a save replaces the
\* account's reference first, then the profile's, and only then removes.
Patched == {"username", "upsert", "readback", "remove"}
Written == {"readback", "remove"}

\* What a request has still to replace, and what it has replaced.
Replacing(q) ==
  /\ q.step = "uploaded" => q.key \in media
  /\ q.route = "save" => form[<<q.user, q.tab>>] = q.key
  /\ q.step \in Patched => accounts[q.user].avatar = q.key
  /\ q.step \in Written => profiles[q.user].avatar = q.key

AvatarInv ==
  workload.alone /\ OneTab =>
    /\ \A u \in Users : Rows(u) \cup Forms(u) \subseteq media \cup {None}
    /\ \A u \in Users, t \in Tabs \ workload.tabs : form[<<u, t>>] = None
    /\ \A p \in Procs : Replacing(requests[p])

-----------------------------------------------------------------------------
LEMMA WorkloadFacts ==
  ASSUME TypeOK
  PROVE  /\ workload.users \subseteq Users /\ workload.tabs \subseteq Tabs
         /\ workload.routes \subseteq Routes /\ workload.alone \in BOOLEAN
         /\ workload.known \in BOOLEAN /\ workload.refs \in BOOLEAN
         /\ workload.others \subseteq {"other"}
BY FoundationConstants DEF FoundationConstants, TypeOK

LEMMA IdleSound == Sound(Idle)
BY FoundationConstants DEF FoundationConstants, Sound, Request, Idle, Steps, Key, SaveSteps, UploadSteps, Routes

\* A request that goes on, and the rest of the state with the types it has.
LEMMA RequestStep ==
  ASSUME Inv, NEW p \in Procs, NEW q, Become(p, q), Sound(q), UNCHANGED workload, TypeOK'
  PROVE  Inv'
<1>1. requests \in [Procs -> Request] /\ requests' = [requests EXCEPT ![p] = q]
  BY DEF Inv, TypeOK, Request, Become
<1>2. ASSUME NEW o \in Procs PROVE Sound(requests'[o])
  BY <1>1 DEF Inv
<1> QED BY <1>2 DEF Inv, Sound

LEMMA InitInv == Init => Inv
<1> SUFFICES ASSUME Init PROVE Inv
  OBVIOUS
<1>1. /\ workload.others \subseteq {"other"} /\ workload.known \in BOOLEAN
      /\ MaxFaults \in Nat
  BY FoundationConstants DEF FoundationConstants, Init
<1>2. TypeOK
  BY <1>1, IdleSound DEF Init, TypeOK, Sound, Request, Key, Statuses, CircleWallets
<1>3. \A p \in Procs : requests[p] = Idle
  BY DEF Init
<1> QED BY <1>2, <1>3, IdleSound DEF Inv

\* A request of a page or of a person begins.
LEMMA StartInv ==
  ASSUME Inv, NEW p \in Procs, NEW u \in Users, NEW q, Start(p, u, q),
         q \in Request, q.step = "select", q.route \in Routes,
         q.route \in {"save", "upload"} => q.tab \in workload.tabs
  PROVE  Inv'
<1> DEFINE n == [q EXCEPT !.user = u]
<1>1. n \in Request /\ n.step = "select" /\ n.user = u /\ n.route = q.route /\ n.tab = q.tab
  BY DEF Request
<1>2. Become(p, n) /\ OnlyRequests
  BY DEF Start
<1> HIDE DEF n
<1>3. Sound(n)
  BY <1>1 DEF Sound, SaveSteps, UploadSteps
<1>4. TypeOK'
  BY <1>1, <1>2 DEF Inv, TypeOK, OnlyRequests, Become, Request, onboarding, pictures, fixed
<1> QED BY <1>2, <1>3, <1>4, RequestStep DEF OnlyRequests, fixed

LEMMA StartsInv ==
  ASSUME Inv, NEW p \in Procs, StartSignIn(p) \/ StartUpload(p) \/ StartSave(p)
  PROVE  Inv'
<1> USE FoundationConstants, WorkloadFacts DEF FoundationConstants, Request, Idle, Steps, Routes, Key
<1>1. CASE StartSignIn(p)
  BY <1>1, StartInv DEF StartSignIn
<1>2. CASE StartUpload(p)
  BY <1>2, StartInv DEF StartUpload, Inv
<1>3. CASE StartSave(p)
  <2>1. PICK u \in Users, t \in workload.tabs, n \in Names :
          Start(p, u, [Idle EXCEPT !.step = "select", !.route = "save", !.tab = t, !.name = n,
                                   !.key = form[<<u, t>>]])
    BY <1>3 DEF StartSave
  <2>2. form[<<u, t>>] \in Key
    BY DEF Inv, TypeOK
  <2> QED BY <2>1, <2>2, StartInv DEF Inv
<1> QED BY <1>1, <1>2, <1>3

\* A request that only takes its next step.
LEMMA GoSound ==
  ASSUME Inv, NEW p \in Procs, ~At(p, "idle"), NEW step \in Steps \ {"idle"},
         step \in SaveSteps => requests[p].route = "save",
         step \in UploadSteps => requests[p].route = "upload"
  PROVE  Sound([requests[p] EXCEPT !.step = step])
BY DEF Inv, Sound, At, Request

\* A request that takes its next step with other values in hand.
LEMMA TakeSound ==
  ASSUME Inv, NEW p \in Procs, ~At(p, "idle"), NEW q \in Request,
         q.step # "idle", q.user = UserOf(p), q.route = requests[p].route, q.tab = requests[p].tab,
         q.step \in SaveSteps => requests[p].route = "save",
         q.step \in UploadSteps => requests[p].route = "upload"
  PROVE  Sound(q)
BY DEF Inv, Sound, At, UserOf

\* Every step of the server leaves a request that is sound.
LEMMA ServeSound ==
  ASSUME Inv, NEW p \in Procs, Serve(p)
  PROVE  UNCHANGED workload /\ \E q : Become(p, q) /\ Sound(q)
<1>0. requests[p] \in Request
  BY DEF Inv, Sound
<1> USE GoSound, IdleSound DEF Go, Finish, Steps, SaveSteps, UploadSteps, At
<1> USE DEF OnlyRequests, OnlyAccounts, OnlyProfiles, fixed
<1>1. ASSUME NEW a, Admit(p, a), ~At(p, "idle") PROVE \E q : Become(p, q) /\ Sound(q)
  <2>1. \/ Finish(p)
        \/ Go(p, "enableBrand") \/ Go(p, "enableCreator")
        \/ Go(p, "identity") /\ requests[p].route = "save"
        \/ Go(p, "put") /\ requests[p].route = "upload"
    BY <1>1, Zenon DEF Admit, Admitted
  <2> QED BY <1>1, <2>1
<1>2. CASE SelectAccount(p) \/ CreateAccount(p)
  BY <1>1, <1>2 DEF SelectAccount, CreateAccount
<1>3. CASE EnableBrand(p) \/ EnableCreator(p) \/ InsertProfile(p) \/ SelectCircleUser(p)
           \/ CreateCircleUser(p) \/ InsertCircleUser(p)
  BY <1>3 DEF EnableBrand, EnableCreator, InsertProfile, SelectCircleUser, CreateCircleUser, InsertCircleUser
<1>4. CASE SelectWallet(p)
  <2>1. Finish(p) \/ Go(p, "insertWallet") \/ Go(p, "list")
    BY <1>4, Zenon DEF SelectWallet, WalletStep
  <2> QED BY <1>4, <2>1 DEF SelectWallet
<1>5. CASE InsertWallet(p) \/ Initialize(p) \/ MarkFailed(p) \/ Offer(p) \/ BindWallet(p)
  BY <1>5 DEF InsertWallet, Initialize, MarkFailed, Offer, BindWallet
<1>6. CASE ListWallets(p)
  <2>1. CASE Finish(p)
    BY <1>6, <2>1 DEF ListWallets
  <2>2. ASSUME NEW w \in {"scoped"}, Become(p, [requests[p] EXCEPT !.step = "bind", !.wallet = w])
        PROVE  UNCHANGED workload /\ \E q : Become(p, q) /\ Sound(q)
    <3> DEFINE q == [requests[p] EXCEPT !.step = "bind", !.wallet = w]
    <3>1. /\ q \in Request /\ q.step = "bind" /\ q.user = UserOf(p)
          /\ q.route = requests[p].route /\ q.tab = requests[p].tab
      BY <1>0 DEF Request, CircleWallets, UserOf
    <3>2. ~At(p, "idle") /\ UNCHANGED workload
      BY <1>6 DEF ListWallets
    <3> HIDE DEF q
    <3>3. Sound(q)
      BY <3>1, <3>2, TakeSound
    <3> QED BY <2>2, <3>2, <3>3 DEF q
  <2> QED BY <1>6, <2>1, <2>2 DEF ListWallets, KeepPending, Trusted
<1>7. CASE ReadIdentity(p)
  <2> DEFINE q == [requests[p] EXCEPT !.step = "account", !.before = Shown(UserOf(p))]
  <2>1. UserOf(p) \in Users /\ requests[p] \in Request
    BY <1>7 DEF ReadIdentity, Inv, Sound, UserOf
  <2>2. Shown(UserOf(p)) \in Key
    BY <2>1 DEF Shown, Avatar, Inv, TypeOK
  <2>3. /\ q \in Request /\ q.step = "account" /\ q.user = UserOf(p)
        /\ q.route = requests[p].route /\ q.tab = requests[p].tab
    BY <2>1, <2>2 DEF Request, UserOf
  <2>4. Become(p, q) /\ UNCHANGED workload /\ ~At(p, "idle") /\ requests[p].route = "save"
    BY <1>7 DEF ReadIdentity, Inv, Sound
  <2> HIDE DEF q
  <2>5. Sound(q)
    BY <2>3, <2>4, TakeSound
  <2> QED BY <2>4, <2>5
<1>8. CASE UpdateAccount(p) \/ CheckUsername(p) \/ UpsertProfile(p) \/ ReadBack(p) \/ RemoveOld(p)
           \/ AnswerSave(p) \/ KeepUploaded(p)
  <2>1. requests[p].step \in SaveSteps => requests[p].route = "save"
    BY DEF Inv, Sound
  <2> QED BY <1>8, <2>1 DEF UpdateAccount, CheckUsername, UpsertProfile, ReadBack, RemoveOld, AnswerSave, KeepUploaded
<1>9. CASE PutObject(p)
  <2> DEFINE q(k) == [requests[p] EXCEPT !.step = "uploaded", !.key = k]
  <2>1. PICK k \in Keys : Become(p, q(k))
    BY <1>9 DEF PutObject
  <2>2. /\ q(k) \in Request /\ q(k).step = "uploaded" /\ q(k).user = UserOf(p)
        /\ q(k).route = requests[p].route /\ q(k).tab = requests[p].tab
    BY <1>0 DEF Request, Key, UserOf
  <2>3. UNCHANGED workload /\ ~At(p, "idle") /\ requests[p].route = "upload"
    BY <1>9 DEF PutObject, Inv, Sound
  <2> HIDE DEF q
  <2>4. Sound(q(k))
    BY <2>2, <2>3, TakeSound
  <2> QED BY <2>1, <2>3, <2>4
<1> QED BY <1>2, <1>3, <1>4, <1>5, <1>6, <1>7, <1>8, <1>9 DEF Serve

\* Every step of the server leaves the rest of the state with its types.
LEMMA ServeTypes ==
  ASSUME Inv, NEW p \in Procs, Serve(p)
  PROVE  TypeOK'
<1>1. requests' \in [Procs -> Request]
  BY ServeSound DEF Inv, TypeOK, Sound, Request, Become
<1> DEFINE Rest ==
      /\ accounts' \in [Users -> [exists : BOOLEAN, brand : BOOLEAN, creator : BOOLEAN, avatar : Key]]
      /\ profiles' \in [Users -> [exists : BOOLEAN, name : Names \cup {None}, avatar : Key]]
      /\ circleUsers' \subseteq Users
      /\ wallets' \in [Users -> [status : Statuses, bound : CircleWallets \cup {None}]]
      /\ circle' \in [Users -> [known : BOOLEAN, initialized : 0..2, live : SUBSET CircleWallets]]
      /\ offered' \subseteq Users
      /\ media' \subseteq drawn' /\ drawn' \subseteq Keys
      /\ form' \in [Users \X Tabs -> Key]
      /\ UNCHANGED fixed
<1>2. requests[p] \in Request /\ (~At(p, "idle") => UserOf(p) \in Users)
  BY DEF Inv, Sound, At, UserOf
<1>3. TypeOK
  BY DEF Inv
<1> USE DEF TypeOK, OnlyRequests, OnlyAccounts, OnlyProfiles, onboarding, pictures
<1>4. CASE \/ SelectAccount(p) \/ SelectCircleUser(p) \/ SelectWallet(p) \/ ListWallets(p)
           \/ ReadIdentity(p) \/ CheckUsername(p) \/ ReadBack(p)
  <2>1. OnlyRequests /\ UNCHANGED fixed
    BY <1>4 DEF SelectAccount, SelectCircleUser, SelectWallet, ListWallets, ReadIdentity,
                CheckUsername, ReadBack
  <2>2. Rest
    BY <1>3, <2>1
  <2> QED BY <1>1, <1>3, <2>2 DEF fixed, Request
<1>5. CASE CreateAccount(p) \/ EnableBrand(p) \/ EnableCreator(p) \/ UpdateAccount(p)
  <2>1. accounts' \in [Users -> [exists : BOOLEAN, brand : BOOLEAN, creator : BOOLEAN, avatar : Key]]
    <3>1. accounts \in [Users -> [exists : BOOLEAN, brand : BOOLEAN, creator : BOOLEAN, avatar : Key]]
      BY <1>3
    <3>2. requests[p].key \in Key
      BY <1>2 DEF Request
    <3>3. CASE CreateAccount(p)
      BY <3>1, <3>3 DEF CreateAccount
    <3>4. CASE EnableBrand(p)
      BY <3>1, <3>4 DEF EnableBrand
    <3>5. CASE EnableCreator(p)
      BY <3>1, <3>5 DEF EnableCreator
    <3>6. CASE UpdateAccount(p)
      BY <3>1, <3>2, <3>6 DEF UpdateAccount
    <3> QED BY <1>5, <3>3, <3>4, <3>5, <3>6
  <2>2. OnlyAccounts /\ UNCHANGED fixed
    BY <1>5 DEF CreateAccount, EnableBrand, EnableCreator, UpdateAccount
  <2>3. Rest
    BY <1>3, <2>1, <2>2
  <2> QED BY <1>1, <1>3, <2>3 DEF fixed, Request
<1>6. CASE InsertProfile(p) \/ UpsertProfile(p)
  <2>1. profiles' \in [Users -> [exists : BOOLEAN, name : Names \cup {None}, avatar : Key]]
    <3>1. profiles \in [Users -> [exists : BOOLEAN, name : Names \cup {None}, avatar : Key]]
      BY <1>3
    <3>2. requests[p].key \in Key /\ requests[p].name \in Names \cup {None}
      BY <1>2 DEF Request
    <3>3. CASE InsertProfile(p)
      BY <3>1, <3>3 DEF InsertProfile
    <3>4. CASE UpsertProfile(p)
      <4> DEFINE row == [exists |-> TRUE, name |-> requests[p].name, avatar |-> requests[p].key]
      <4>1. row \in [exists : BOOLEAN, name : Names \cup {None}, avatar : Key]
        BY <3>2
      <4>2. profiles' \in {profiles, [profiles EXCEPT ![UserOf(p)] = row]}
        BY <3>4 DEF UpsertProfile
      <4> HIDE DEF row
      <4> QED BY <3>1, <4>1, <4>2
    <3> QED BY <1>6, <3>3, <3>4
  <2>2. OnlyProfiles /\ UNCHANGED fixed
    BY <1>6 DEF InsertProfile, UpsertProfile
  <2>3. Rest
    BY <1>3, <2>1, <2>2
  <2> QED BY <1>1, <1>3, <2>3 DEF fixed, Request
<1>7. CASE CreateCircleUser(p) \/ Initialize(p)
  <2>1. circle' \in [Users -> [known : BOOLEAN, initialized : 0..2, live : SUBSET CircleWallets]]
    <3>1. circle \in [Users -> [known : BOOLEAN, initialized : 0..2, live : SUBSET CircleWallets]]
      BY <1>3
    <3>2. CASE CreateCircleUser(p)
      BY <3>1, <3>2 DEF CreateCircleUser
    <3>3. CASE Initialize(p)
      <4> DEFINE made == [circle EXCEPT ![UserOf(p)].initialized = IF @ = 2 THEN 2 ELSE @ + 1]
      <4>1. made \in [Users -> [known : BOOLEAN, initialized : 0..2, live : SUBSET CircleWallets]]
        <5> DEFINE n == IF circle[UserOf(p)].initialized = 2 THEN 2 ELSE circle[UserOf(p)].initialized + 1
        <5>1. UserOf(p) \in Users
          BY <1>2, <3>3 DEF Initialize, At
        <5>2. n \in 0..2
          BY <3>1, <5>1
        <5>3. made = [circle EXCEPT ![UserOf(p)].initialized = n]
          BY <3>1, <5>1
        <5> HIDE DEF n, made
        <5> QED BY <3>1, <5>1, <5>2, <5>3
      <4>2. circle' \in {circle, made}
        BY <3>3 DEF Initialize
      <4> QED BY <3>1, <4>1, <4>2
    <3> QED BY <1>7, <3>2, <3>3
  <2>2. Rest
    BY <1>3, <1>7, <2>1 DEF CreateCircleUser, Initialize
  <2> QED BY <1>1, <1>3, <2>2 DEF fixed, Request
<1>8. CASE InsertCircleUser(p) \/ Offer(p)
  <2>1. UserOf(p) \in Users
    BY <1>2, <1>8 DEF InsertCircleUser, Offer, At
  <2>2. Rest
    BY <1>3, <1>8, <2>1 DEF InsertCircleUser, Offer
  <2> QED BY <1>1, <1>3, <2>2 DEF fixed, Request
<1>9. CASE InsertWallet(p) \/ MarkFailed(p) \/ BindWallet(p)
  <2>1. wallets' \in [Users -> [status : Statuses, bound : CircleWallets \cup {None}]]
    <3>1. wallets \in [Users -> [status : Statuses, bound : CircleWallets \cup {None}]]
      BY <1>3
    <3>2. requests[p].wallet \in CircleWallets \cup {None}
      BY <1>2 DEF Request
    <3>3. CASE InsertWallet(p)
      BY <3>1, <3>3 DEF InsertWallet, Statuses
    <3>4. CASE MarkFailed(p)
      BY <3>1, <3>4 DEF MarkFailed, Statuses
    <3>5. CASE BindWallet(p)
      BY <3>1, <3>2, <3>5 DEF BindWallet, Statuses
    <3> QED BY <1>9, <3>3, <3>4, <3>5
  <2>2. Rest
    BY <1>3, <1>9, <2>1 DEF InsertWallet, MarkFailed, BindWallet
  <2> QED BY <1>1, <1>3, <2>2 DEF fixed, Request
<1>10. CASE RemoveOld(p) \/ PutObject(p)
  <2>1. media' \subseteq drawn' /\ drawn' \subseteq Keys
    BY <1>3, <1>10 DEF RemoveOld, PutObject
  <2>2. Rest
    BY <1>3, <1>10, <2>1 DEF RemoveOld, PutObject
  <2> QED BY <1>1, <1>3, <2>2 DEF fixed, Request
<1>11. CASE AnswerSave(p) \/ KeepUploaded(p)
  <2>1. form' \in [Users \X Tabs -> Key]
    BY <1>2, <1>3, <1>11 DEF AnswerSave, KeepUploaded, Request
  <2>2. Rest
    BY <1>3, <1>11, <2>1 DEF AnswerSave, KeepUploaded
  <2> QED BY <1>1, <1>3, <2>2 DEF fixed, Request
<1> QED BY <1>4, <1>5, <1>6, <1>7, <1>8, <1>9, <1>10, <1>11 DEF Serve

\* The call of another service fails.
LEMMA AbortInv ==
  ASSUME Inv, NEW p \in Procs, Abort(p)
  PROVE  Inv'
<1>1. Sound(Idle) /\ Become(p, Idle)
  BY IdleSound DEF Abort, Finish
<1>2. requests' \in [Procs -> Request]
  BY <1>1 DEF Inv, TypeOK, Sound, Request, Become
<1>3. faults' \in 0..MaxFaults
  BY FoundationConstants DEF FoundationConstants, Abort, Inv, TypeOK
<1>4. TypeOK'
  BY <1>2, <1>3 DEF Abort, Inv, TypeOK, Request, onboarding, pictures
<1> QED BY <1>1, <1>4, RequestStep DEF Abort

\* The person and the page, outside of a request.
LEMMA PageInv ==
  ASSUME Inv,
         \/ \E u \in Users : ApproveWallet(u)
         \/ \E u \in Users, t \in Tabs : LoadForm(u, t) \/ ClearPhoto(u, t)
  PROVE  Inv'
<1>1. UNCHANGED <<workload, requests, faults>>
  BY DEF ApproveWallet, LoadForm, ClearPhoto, fixed
<1>2. TypeOK'
  <2>1. ASSUME NEW u \in Users, ApproveWallet(u) PROVE TypeOK'
    <3>1. circle' \in [Users -> [known : BOOLEAN, initialized : 0..2, live : SUBSET CircleWallets]]
      BY <2>1 DEF ApproveWallet, Inv, TypeOK, CircleWallets
    <3> QED BY <2>1, <3>1 DEF ApproveWallet, Inv, TypeOK, pictures, fixed
  <2>2. ASSUME NEW u \in Users, NEW t \in Tabs, LoadForm(u, t) \/ ClearPhoto(u, t) PROVE TypeOK'
    <3>1. form' \in [Users \X Tabs -> Key]
      BY <2>2 DEF LoadForm, ClearPhoto, Shown, Avatar, Inv, TypeOK, Key
    <3> QED BY <2>2, <3>1 DEF LoadForm, ClearPhoto, Inv, TypeOK, onboarding, fixed
  <2> QED BY <2>1, <2>2
<1> QED BY <1>1, <1>2 DEF Inv, Sound

LEMMA NextInv == Inv /\ [Next]_vars => Inv'
<1> SUFFICES ASSUME Inv, [Next]_vars PROVE Inv'
  OBVIOUS
<1>1. ASSUME NEW p \in Procs, StartSignIn(p) \/ StartUpload(p) \/ StartSave(p) PROVE Inv'
  BY <1>1, StartsInv
<1>2. ASSUME NEW p \in Procs, Serve(p) PROVE Inv'
  BY <1>2, ServeSound, ServeTypes, RequestStep
<1>3. CASE UNCHANGED vars
  BY <1>3 DEF vars, Inv, TypeOK, Sound
<1> QED BY <1>1, <1>2, <1>3, AbortInv, PageInv DEF Next

\* Every variable has its type, and every request what its step needs.
THEOREM InvHolds == Spec => []Inv
BY InitInv, NextInv, PTL DEF Spec

\* Every variable has its type.
THEOREM TypeCorrect == Spec => []TypeOK
<1>1. Inv => TypeOK
  BY DEF Inv
<1> QED BY <1>1, InvHolds, PTL

-----------------------------------------------------------------------------
(* The payout wallet.                                                      *)

\* What the wallet of user v is about stays, but for request p, which becomes q.
LEMMA WalletFrame ==
  ASSUME Inv, NEW p \in Procs, NEW q, Become(p, q), NEW v \in Users, WalletOf(v),
         \/ q.step \notin Attempting \cup {"bind"}
         \/ q.user # v,
         wallets'[v] = wallets[v], v \in offered' <=> v \in offered,
         circle'[v].initialized = circle[v].initialized, circle'[v].live = circle[v].live
  PROVE  WalletOf(v)'
<1>1. requests \in [Procs -> Request] /\ requests' = [requests EXCEPT ![p] = q]
  BY DEF Inv, TypeOK, Request, Become
<1>2. Attempts(v)' \subseteq Attempts(v)
  BY <1>1 DEF Attempts, UserOf
<1>3. \A o \in Attempts(v)' : requests'[o] = requests[o]
  BY <1>1 DEF Attempts, UserOf
<1>4. \A o \in Procs : requests'[o].step = "bind" /\ requests'[o].user = v => requests'[o] = requests[o]
  BY <1>1 DEF Attempting
<1> QED BY <1>2, <1>3, <1>4 DEF WalletOf, At, UserOf

\* A step that is not about the wallet.
WalletSteps(p) == InsertWallet(p) \/ Initialize(p) \/ MarkFailed(p) \/ Offer(p) \/ ListWallets(p) \/ BindWallet(p)

LEMMA ServeQuiet ==
  ASSUME Inv, NEW p \in Procs, Serve(p), ~WalletSteps(p)
  PROVE  /\ UNCHANGED <<wallets, offered>>
         /\ \A u \in Users : /\ circle'[u].initialized = circle[u].initialized
                             /\ circle'[u].live = circle[u].live
         /\ \E q : Become(p, q) /\ q.step \notin Attempting \cup {"bind"}
<1>0. requests[p] \in Request /\ (~At(p, "idle") => UserOf(p) \in Users)
  BY DEF Inv, Sound, At, UserOf
<1>1. \A step : [requests[p] EXCEPT !.step = step].step = step
  BY <1>0 DEF Request
<1>2. Idle.step = "idle"
  BY DEF Idle
<1>a. ASSUME NEW step, step \notin Attempting \cup {"bind"}, Go(p, step)
      PROVE  \E q : Become(p, q) /\ q.step \notin Attempting \cup {"bind"}
  BY <1>a, <1>1 DEF Go
<1>b. ASSUME Finish(p)
      PROVE  \E q : Become(p, q) /\ q.step \notin Attempting \cup {"bind"}
  BY <1>b, <1>2 DEF Finish, Attempting
<1> USE <1>a, <1>b DEF Attempting
<1> USE DEF OnlyRequests, OnlyAccounts, OnlyProfiles, onboarding
<1>3. ASSUME NEW a, Admit(p, a)
      PROVE  \E q : Become(p, q) /\ q.step \notin Attempting \cup {"bind"}
  <2>1. \/ Finish(p) \/ Go(p, "enableBrand") \/ Go(p, "enableCreator")
        \/ Go(p, "identity") \/ Go(p, "put")
    BY <1>3, Zenon DEF Admit, Admitted
  <2> QED BY <2>1
<1>4. CASE SelectAccount(p) \/ CreateAccount(p)
  BY <1>3, <1>4 DEF SelectAccount, CreateAccount
<1>5. CASE EnableBrand(p) \/ EnableCreator(p) \/ InsertProfile(p) \/ SelectCircleUser(p) \/ InsertCircleUser(p)
  BY <1>5 DEF EnableBrand, EnableCreator, InsertProfile, SelectCircleUser, InsertCircleUser
<1>6. CASE CreateCircleUser(p)
  <2>1. circle' = [circle EXCEPT ![UserOf(p)].known = TRUE]
    BY <1>6 DEF CreateCircleUser
  <2>2. \A u \in Users : /\ circle'[u].initialized = circle[u].initialized
                         /\ circle'[u].live = circle[u].live
    BY <2>1 DEF Inv, TypeOK
  <2> QED BY <1>6, <2>2 DEF CreateCircleUser
<1>7. CASE SelectWallet(p)
  <2>1. Finish(p) \/ Go(p, "insertWallet") \/ Go(p, "list")
    BY <1>7, Zenon DEF SelectWallet, WalletStep
  <2> QED BY <1>7, <2>1 DEF SelectWallet
<1>8. CASE ReadIdentity(p) \/ PutObject(p)
  <2>1. CASE ReadIdentity(p)
    <3>1. [requests[p] EXCEPT !.step = "account", !.before = Shown(UserOf(p))].step = "account"
      BY <1>0 DEF Request
    <3> QED BY <2>1, <3>1 DEF ReadIdentity
  <2>2. CASE PutObject(p)
    <3>1. \A k : [requests[p] EXCEPT !.step = "uploaded", !.key = k].step = "uploaded"
      BY <1>0 DEF Request
    <3> QED BY <2>2, <3>1 DEF PutObject
  <2> QED BY <1>8, <2>1, <2>2
<1>9. CASE UpdateAccount(p) \/ CheckUsername(p) \/ UpsertProfile(p) \/ ReadBack(p) \/ RemoveOld(p)
           \/ AnswerSave(p) \/ KeepUploaded(p)
  BY <1>9 DEF UpdateAccount, CheckUsername, UpsertProfile, ReadBack, RemoveOld, AnswerSave, KeepUploaded
<1> QED BY <1>4, <1>5, <1>6, <1>7, <1>8, <1>9 DEF Serve, WalletSteps

LEMMA InsertWalletOf ==
  ASSUME Inv, WalletInv, NEW p \in Procs, InsertWallet(p)
  PROVE  WalletInv'
<1>1. PICK u \in Users : u = UserOf(p) /\ requests[p] \in Request
  BY DEF InsertWallet, Inv, Sound, At, UserOf
<1> DEFINE q == [requests[p] EXCEPT !.step = "initialize"]
<1>2. CASE wallets[u].status = "ABSENT"
  <2>1. q.step = "initialize" /\ q.user = u
    BY <1>1 DEF Request, UserOf
  <2>2. Become(p, q) /\ wallets' = [wallets EXCEPT ![u].status = "PENDING"]
        /\ UNCHANGED <<circle, offered>>
    BY <1>1, <1>2 DEF InsertWallet, Go
  <2> HIDE DEF q
  <2>3. wallets'[u].status = "PENDING" /\ \A v \in Users \ {u} : wallets'[v] = wallets[v]
    BY <1>1, <2>2 DEF Inv, TypeOK
  <2>4. requests \in [Procs -> Request] /\ requests' = [requests EXCEPT ![p] = q]
    BY <2>2 DEF Inv, TypeOK, Request, Become
  <2>5. Attempts(u)' = {p}
    BY <1>1, <1>2, <2>1, <2>4 DEF WalletInv, WalletOf, Attempts, Attempting, UserOf
  <2>6. WalletOf(u)'
    BY <1>1, <1>2, <2>1, <2>2, <2>3, <2>4, <2>5 DEF WalletInv, WalletOf, At, UserOf
  <2>7. ASSUME NEW v \in Users \ {u} PROVE WalletOf(v)'
    BY <2>1, <2>2, <2>3, WalletFrame DEF WalletInv
  <2> QED BY <2>6, <2>7 DEF WalletInv
<1>3. CASE wallets[u].status # "ABSENT"
  BY <1>1, <1>3, WalletFrame DEF InsertWallet, Finish, Idle, WalletInv, Attempting
<1> QED BY <1>2, <1>3

LEMMA InitializeWallet ==
  ASSUME Inv, WalletInv, NEW p \in Procs, Initialize(p)
  PROVE  WalletInv'
<1>1. PICK u \in Users : /\ u = UserOf(p) /\ requests[p] \in Request
                         /\ p \in Attempts(u) /\ At(p, "initialize")
  BY DEF Initialize, Inv, Sound, At, UserOf, Attempts, Attempting
<1> DEFINE q(step) == [requests[p] EXCEPT !.step = step]
           made == [circle EXCEPT ![u].initialized = IF @ = 2 THEN 2 ELSE @ + 1]
<1>2. PICK step \in {"offer", "markFailed"} : Become(p, q(step))
  BY DEF Initialize, Go
<1>3. circle' \in {circle, made} /\ UNCHANGED <<wallets, offered>>
  BY <1>1 DEF Initialize
<1>4. q(step).step = step /\ q(step).user = u
  BY <1>1 DEF Request, UserOf
<1> HIDE DEF q
<1>5. circle[u].initialized = 0
  BY <1>1 DEF WalletInv, WalletOf
<1>6. /\ circle'[u].initialized \in {0, 1} /\ circle'[u].live = circle[u].live
      /\ \A v \in Users \ {u} : circle'[v] = circle[v]
  <2>1. made[u].initialized = 1 /\ made[u].live = circle[u].live
        /\ \A v \in Users \ {u} : made[v] = circle[v]
    BY <1>1, <1>5 DEF Inv, TypeOK
  <2> QED BY <1>3, <1>5, <2>1
<1>7. requests \in [Procs -> Request] /\ requests' = [requests EXCEPT ![p] = q(step)]
  BY <1>2 DEF Inv, TypeOK, Request, Become
<1>8. Attempts(u)' = Attempts(u) /\ Attempts(u) = {p}
  <2>1. Attempts(u) = {p}
    BY <1>1 DEF WalletInv, WalletOf
  <2> QED BY <1>1, <1>4, <1>7, <2>1 DEF Attempts, Attempting, UserOf
<1>9. WalletOf(u)
  BY <1>1 DEF WalletInv
<1>10. WalletOf(u)'
  BY <1>3, <1>4, <1>6, <1>7, <1>8, <1>9 DEF WalletOf, At, UserOf
<1>11. ASSUME NEW v \in Users \ {u} PROVE WalletOf(v)'
  BY <1>2, <1>3, <1>4, <1>6, WalletFrame DEF WalletInv
<1> QED BY <1>10, <1>11 DEF WalletInv

LEMMA MarkFailedWallet ==
  ASSUME Inv, WalletInv, NEW p \in Procs, MarkFailed(p)
  PROVE  WalletInv' /\ \A u \in Users : wallets[u].status = "ACTIVE" => wallets'[u] = wallets[u]
<1>1. PICK u \in Users : u = UserOf(p) /\ p \in Attempts(u)
  BY DEF MarkFailed, Inv, Sound, At, UserOf, Attempts, Attempting
<1>2. Become(p, Idle) /\ wallets' = [wallets EXCEPT ![u].status = "FAILED"]
      /\ UNCHANGED <<circle, offered>>
  BY <1>1 DEF MarkFailed, Finish
<1>3. wallets'[u].status = "FAILED" /\ \A v \in Users \ {u} : wallets'[v] = wallets[v]
  BY <1>1, <1>2 DEF Inv, TypeOK
<1>4. requests \in [Procs -> Request] /\ requests' = [requests EXCEPT ![p] = Idle]
  BY <1>2 DEF Inv, TypeOK, Request, Become
<1>5. WalletOf(u)
  BY <1>1 DEF WalletInv
<1>6. Attempts(u)' = {}
  BY <1>1, <1>4, <1>5 DEF Attempts, Attempting, WalletOf, UserOf, Idle
<1>7. WalletOf(u)'
  BY <1>2, <1>3, <1>4, <1>5, <1>6 DEF WalletOf, At, UserOf, Idle
<1>8. ASSUME NEW v \in Users \ {u} PROVE WalletOf(v)'
  BY <1>2, <1>3, WalletFrame DEF WalletInv, Idle, Attempting
<1>9. wallets[u].status # "ACTIVE"
  BY <1>1, <1>5 DEF WalletOf
<1> QED BY <1>3, <1>7, <1>8, <1>9 DEF WalletInv

LEMMA OfferWallet ==
  ASSUME Inv, WalletInv, NEW p \in Procs, Offer(p)
  PROVE  WalletInv'
<1>1. PICK u \in Users : u = UserOf(p) /\ p \in Attempts(u)
  BY DEF Offer, Inv, Sound, At, UserOf, Attempts, Attempting
<1>2. Become(p, Idle) /\ offered' = offered \cup {u} /\ UNCHANGED <<circle, wallets>>
  BY <1>1 DEF Offer, Finish
<1>3. requests \in [Procs -> Request] /\ requests' = [requests EXCEPT ![p] = Idle]
  BY <1>2 DEF Inv, TypeOK, Request, Become
<1>4. WalletOf(u)
  BY <1>1 DEF WalletInv
<1>5. Attempts(u)' = {}
  BY <1>1, <1>3, <1>4 DEF Attempts, Attempting, WalletOf, UserOf, Idle
<1>6. WalletOf(u)'
  BY <1>1, <1>2, <1>3, <1>4, <1>5 DEF WalletOf, At, UserOf, Idle
<1>7. ASSUME NEW v \in Users \ {u} PROVE WalletOf(v)'
  BY <1>2, WalletFrame DEF WalletInv, Idle, Attempting
<1> QED BY <1>6, <1>7 DEF WalletInv

LEMMA ListWalletsWallet ==
  ASSUME Inv, WalletInv, NEW p \in Procs, ListWallets(p)
  PROVE  WalletInv'
<1>1. PICK u \in Users : u = UserOf(p) /\ requests[p] \in Request
  BY DEF ListWallets, Inv, Sound, At, UserOf
<1>2. UNCHANGED <<wallets, circle, offered>>
  BY DEF ListWallets, OnlyRequests, onboarding
<1>3. CASE Finish(p)
  BY <1>2, <1>3, WalletFrame DEF WalletInv, Finish, Idle, Attempting
<1>4. CASE \E w \in Trusted(u) : Become(p, [requests[p] EXCEPT !.step = "bind", !.wallet = w])
  <2> DEFINE q == [requests[p] EXCEPT !.step = "bind", !.wallet = "scoped"]
  <2>1. Become(p, q) /\ "scoped" \in circle[u].live
    BY <1>4 DEF Trusted
  <2>2. q.step = "bind" /\ q.user = u /\ q.wallet = "scoped"
    BY <1>1 DEF Request, UserOf
  <2> HIDE DEF q
  <2>3. requests \in [Procs -> Request] /\ requests' = [requests EXCEPT ![p] = q]
    BY <2>1 DEF Inv, TypeOK, Request, Become
  <2>4. WalletOf(u) /\ Attempts(u) = {}
    BY <2>1 DEF WalletInv, WalletOf
  <2>5. Attempts(u)' = {}
    BY <2>2, <2>3, <2>4 DEF Attempts, Attempting, UserOf
  <2>6. WalletOf(u)'
    BY <1>2, <2>1, <2>2, <2>3, <2>4, <2>5 DEF WalletOf, At, UserOf
  <2>7. ASSUME NEW v \in Users \ {u} PROVE WalletOf(v)'
    BY <1>2, <2>1, <2>2, WalletFrame DEF WalletInv
  <2> QED BY <2>6, <2>7 DEF WalletInv
<1> QED BY <1>1, <1>3, <1>4 DEF ListWallets, KeepPending

LEMMA BindWalletWallet ==
  ASSUME Inv, WalletInv, NEW p \in Procs, BindWallet(p)
  PROVE  WalletInv' /\ \A u \in Users : wallets[u].status = "ACTIVE" => wallets'[u] = wallets[u]
<1>1. PICK u \in Users : u = UserOf(p) /\ requests[p] \in Request /\ At(p, "bind")
  BY DEF BindWallet, Inv, Sound, At, UserOf
<1>2. WalletOf(u) /\ requests[p].wallet = "scoped" /\ "scoped" \in circle[u].live /\ Attempts(u) = {}
  BY <1>1 DEF WalletInv, WalletOf
<1>3. Become(p, Idle) /\ wallets' = [wallets EXCEPT ![u] = [status |-> "ACTIVE", bound |-> "scoped"]]
      /\ UNCHANGED <<circle, offered>>
  BY <1>1, <1>2 DEF BindWallet, Finish
<1>4. wallets'[u] = [status |-> "ACTIVE", bound |-> "scoped"] /\ \A v \in Users \ {u} : wallets'[v] = wallets[v]
  BY <1>3 DEF Inv, TypeOK
<1>5. requests \in [Procs -> Request] /\ requests' = [requests EXCEPT ![p] = Idle]
  BY <1>3 DEF Inv, TypeOK, Request, Become
<1>6. Attempts(u)' = {}
  BY <1>2, <1>5 DEF Attempts, Attempting, UserOf, Idle
<1>7. WalletOf(u)'
  BY <1>2, <1>3, <1>4, <1>5, <1>6 DEF WalletOf, At, UserOf, Idle
<1>8. ASSUME NEW v \in Users \ {u} PROVE WalletOf(v)'
  BY <1>3, <1>4, WalletFrame DEF WalletInv, Idle, Attempting
<1>9. wallets[u].status = "ACTIVE" => wallets[u] = [status |-> "ACTIVE", bound |-> "scoped"]
  <2>1. wallets[u] \in [status : Statuses, bound : CircleWallets \cup {None}]
    BY DEF Inv, TypeOK
  <2>2. wallets[u] = [status |-> wallets[u].status, bound |-> wallets[u].bound]
    BY <2>1
  <2> QED BY <1>2, <2>2 DEF WalletOf
<1> QED BY <1>4, <1>7, <1>8, <1>9 DEF WalletInv

LEMMA ApproveWalletOf ==
  ASSUME Inv, WalletInv, NEW u \in Users, ApproveWallet(u)
  PROVE  WalletInv'
<1>1. WalletOf(u) /\ Attempts(u) = {} /\ wallets[u].status # "ABSENT"
  BY DEF WalletInv, WalletOf, ApproveWallet
<1>2. UNCHANGED <<wallets, requests>> /\ offered' = offered \ {u}
      /\ circle' = [circle EXCEPT ![u].live = @ \cup {"scoped"}]
  BY DEF ApproveWallet
<1>3. /\ circle'[u].initialized = circle[u].initialized /\ "scoped" \in circle'[u].live
      /\ \A v \in Users \ {u} : circle'[v] = circle[v]
  BY <1>2 DEF Inv, TypeOK
<1>4. \A v \in Users : Attempts(v)' = Attempts(v)
  BY <1>2 DEF Attempts, UserOf
<1>5. WalletOf(u)'
  BY <1>1, <1>2, <1>3, <1>4 DEF WalletOf, At, UserOf
<1>6. ASSUME NEW v \in Users \ {u} PROVE WalletOf(v)'
  BY <1>2, <1>3, <1>4 DEF WalletInv, WalletOf, At, UserOf
<1> QED BY <1>5, <1>6 DEF WalletInv

\* The steps outside of the server that are not the approval.
LEMMA OtherQuiet ==
  ASSUME \/ \E p \in Procs : StartSignIn(p) \/ StartUpload(p) \/ StartSave(p) \/ Abort(p)
         \/ \E u \in Users, t \in Tabs : LoadForm(u, t) \/ ClearPhoto(u, t)
         \/ UNCHANGED vars
  PROVE  UNCHANGED <<wallets, circle, offered, profiles, accounts>>
<1> USE DEF OnlyRequests, onboarding
<1>1. ASSUME NEW p \in Procs, StartSignIn(p) \/ StartUpload(p) \/ StartSave(p)
      PROVE  UNCHANGED <<wallets, circle, offered, profiles, accounts>>
  <2>1. ASSUME NEW u, NEW q, Start(p, u, q)
        PROVE  UNCHANGED <<wallets, circle, offered, profiles, accounts>>
    BY <2>1 DEF Start
  <2> QED BY <1>1, <2>1 DEF StartSignIn, StartUpload, StartSave
<1>2. ASSUME NEW p \in Procs, Abort(p)
      PROVE  UNCHANGED <<wallets, circle, offered, profiles, accounts>>
  BY <1>2 DEF Abort
<1>3. ASSUME NEW u \in Users, NEW t \in Tabs, LoadForm(u, t) \/ ClearPhoto(u, t)
      PROVE  UNCHANGED <<wallets, circle, offered, profiles, accounts>>
  BY <1>3 DEF LoadForm, ClearPhoto
<1> QED BY <1>1, <1>2, <1>3 DEF vars

\* A request that begins: for whom, what it has in hand and who else is there.
Begins(p, q, u) ==
  /\ Become(p, q) /\ OnlyRequests /\ At(p, "idle")
  /\ q \in Request /\ q.step = "select" /\ q.user = u /\ q.before = None
  /\ \A o \in Procs \ {p} : UserOf(o) = u => ~workload.alone
  /\ IF q.route = "save" THEN q.tab \in workload.tabs /\ q.key = form[<<u, q.tab>>] ELSE q.key = None

LEMMA StartBegins ==
  ASSUME Inv, NEW p \in Procs, StartSignIn(p) \/ StartUpload(p) \/ StartSave(p)
  PROVE  \E u \in Users, q \in Request : Begins(p, q, u)
<1>1. ASSUME NEW u \in Users, NEW q \in Request, Start(p, u, q), q.step = "select", q.before = None,
             IF q.route = "save" THEN q.tab \in workload.tabs /\ q.key = form[<<u, q.tab>>]
             ELSE q.key = None
      PROVE  \E n \in Request : Begins(p, n, u)
  <2> DEFINE n == [q EXCEPT !.user = u]
  <2>1. /\ n \in Request /\ n.step = "select" /\ n.user = u /\ n.before = None
        /\ n.key = q.key /\ n.route = q.route /\ n.tab = q.tab
    BY <1>1 DEF Request
  <2>2. Become(p, n) /\ OnlyRequests /\ At(p, "idle")
        /\ \A o \in Procs \ {p} : UserOf(o) = u => ~workload.alone
    BY <1>1 DEF Start
  <2> HIDE DEF n
  <2>3. Begins(p, n, u)
    BY <1>1, <2>1, <2>2 DEF Begins
  <2> QED BY <2>1, <2>3
<1> USE FoundationConstants, WorkloadFacts
    DEF FoundationConstants, Request, Idle, Steps, Routes, Key, CircleWallets
<1>2. CASE StartSignIn(p)
  <2>1. PICK u \in Users, route \in {"signIn", "brand", "creator"} :
          Start(p, u, [Idle EXCEPT !.step = "select", !.route = route])
    BY <1>2 DEF StartSignIn
  <2> DEFINE q == [Idle EXCEPT !.step = "select", !.route = route]
  <2>2. q \in Request /\ q.step = "select" /\ q.route # "save" /\ q.before = None /\ q.key = None
    OBVIOUS
  <2> HIDE DEF q
  <2> QED BY <1>1, <2>1, <2>2 DEF q
<1>3. CASE StartUpload(p)
  <2>1. PICK u \in Users, t \in workload.tabs :
          Start(p, u, [Idle EXCEPT !.step = "select", !.route = "upload", !.tab = t])
    BY <1>3 DEF StartUpload
  <2> DEFINE q == [Idle EXCEPT !.step = "select", !.route = "upload", !.tab = t]
  <2>2. q \in Request /\ q.step = "select" /\ q.route # "save" /\ q.before = None /\ q.key = None
    BY DEF Inv
  <2> HIDE DEF q
  <2> QED BY <1>1, <2>1, <2>2 DEF q
<1>4. CASE StartSave(p)
  <2>1. PICK u \in Users, t \in workload.tabs, n \in Names :
          Start(p, u, [Idle EXCEPT !.step = "select", !.route = "save", !.tab = t, !.name = n,
                                   !.key = form[<<u, t>>]])
    BY <1>4 DEF StartSave
  <2> DEFINE q == [Idle EXCEPT !.step = "select", !.route = "save", !.tab = t, !.name = n,
                               !.key = form[<<u, t>>]]
  <2>2. form[<<u, t>>] \in Key
    BY DEF Inv, TypeOK
  <2>3. q \in Request /\ q.step = "select" /\ q.tab = t /\ q.before = None /\ q.key = form[<<u, t>>]
    BY <2>2 DEF Inv
  <2> HIDE DEF q
  <2>4. q.route = "save"
    BY DEF q
  <2> QED BY <1>1, <2>1, <2>3, <2>4 DEF q
<1> QED BY <1>2, <1>3, <1>4

LEMMA NextWallet ==
  ASSUME Inv, WalletInv, [Next]_vars
  PROVE  WalletInv' /\ \A u \in Users : wallets[u].status = "ACTIVE" => wallets'[u] = wallets[u]
<1>1. ASSUME NEW p \in Procs, Serve(p), ~WalletSteps(p)
      PROVE  WalletInv' /\ UNCHANGED wallets
  BY <1>1, ServeQuiet, WalletFrame DEF WalletInv
<1>2. ASSUME NEW p \in Procs, WalletSteps(p)
      PROVE  WalletInv' /\ \A u \in Users : wallets[u].status = "ACTIVE" => wallets'[u] = wallets[u]
  <2>1. CASE InsertWallet(p)
    <3>1. \A u \in Users : wallets[u].status = "ACTIVE" => wallets'[u] = wallets[u]
      BY <2>1 DEF InsertWallet, Inv, TypeOK
    <3> QED BY <2>1, <3>1, InsertWalletOf
  <2>2. CASE Initialize(p) \/ Offer(p) \/ ListWallets(p)
    <3>1. UNCHANGED wallets
      BY <2>2 DEF Initialize, Offer, ListWallets, OnlyRequests, onboarding
    <3> QED BY <2>2, <3>1, InitializeWallet, OfferWallet, ListWalletsWallet
  <2> QED BY <1>2, <2>1, <2>2, MarkFailedWallet, BindWalletWallet DEF WalletSteps
<1>3. ASSUME NEW p \in Procs, StartSignIn(p) \/ StartUpload(p) \/ StartSave(p)
      PROVE  WalletInv' /\ UNCHANGED wallets
  BY <1>3, StartBegins, OtherQuiet, WalletFrame DEF WalletInv, Begins, Attempting
<1>4. ASSUME NEW p \in Procs, Abort(p) PROVE WalletInv' /\ UNCHANGED wallets
  BY <1>4, OtherQuiet, WalletFrame DEF WalletInv, Abort, Finish, Idle, Attempting
<1>5. ASSUME NEW u \in Users, ApproveWallet(u) PROVE WalletInv' /\ UNCHANGED wallets
  BY <1>5, ApproveWalletOf DEF ApproveWallet
<1>6. CASE UNCHANGED <<wallets, circle, offered, requests>>
  BY <1>6 DEF WalletInv, WalletOf, Attempts, At, UserOf
<1>7. CASE (\E u \in Users, t \in Tabs : LoadForm(u, t) \/ ClearPhoto(u, t)) \/ UNCHANGED vars
  <2>1. UNCHANGED requests
    BY <1>7 DEF LoadForm, ClearPhoto, vars
  <2> QED BY <1>6, <1>7, <2>1, OtherQuiet
<1> QED BY <1>1, <1>2, <1>3, <1>4, <1>5, <1>7 DEF Next

LEMMA InitWallet == Init => WalletInv
<1> SUFFICES ASSUME Init PROVE WalletInv
  OBVIOUS
<1>1. "scoped" \notin workload.others
  BY InitInv, WorkloadFacts DEF Inv
<1>2. \A p \in Procs : requests[p].step = "idle"
  BY DEF Init, Idle
<1>3. \A u \in Users : Attempts(u) = {}
  BY <1>2 DEF Attempts, Attempting
<1> QED BY <1>1, <1>2, <1>3 DEF Init, WalletInv, WalletOf, At

\* One attempt at Circle per person, and one wallet.
THEOREM WalletInvHolds == Spec => []WalletInv
BY InitInv, NextInv, InitWallet, NextWallet, PTL DEF Spec

\* Circle is asked once to make the payout wallet of an account, however the
\* requests of the person overlap and are cut off.
THEOREM OneOperationHolds == Spec => []OneOperation
<1>1. WalletInv => OneOperation
  BY DEF WalletInv, WalletOf, OneOperation
<1> QED BY <1>1, WalletInvHolds, PTL

\* A verified payout wallet is the one the account's own challenge made.
THEOREM VerifiedIsTrustedHolds == Spec => []VerifiedIsTrusted
<1>1. WalletInv => VerifiedIsTrusted
  BY DEF WalletInv, WalletOf, VerifiedIsTrusted, Verified
<1> QED BY <1>1, WalletInvHolds, PTL

\* No request that began earlier takes an active wallet back.
THEOREM ActiveForGoodHolds == Spec => ActiveForGood
<1>1. Inv /\ WalletInv /\ [Next]_vars =>
        [\A u \in Users : wallets[u].status = "ACTIVE" => wallets'[u] = wallets[u]]_vars
  BY NextWallet
<1> QED BY <1>1, InvHolds, WalletInvHolds, PTL DEF Spec, ActiveForGood

-----------------------------------------------------------------------------
(* The role.                                                               *)

Admissions == {"enableBrand", "enableCreator"}
SameRoles == \A u \in Users : /\ accounts'[u].brand = accounts[u].brand
                              /\ accounts'[u].creator = accounts[u].creator
RoleSteps(p) == SelectAccount(p) \/ CreateAccount(p) \/ EnableBrand(p) \/ EnableCreator(p)

\* Requests that follow each other go on doing so.
LEMMA OneByOneStep ==
  ASSUME Inv, OneByOne, NEW p \in Procs, NEW q, Become(p, q),
         \/ q.user \in {UserOf(p), None}
         \/ \A o \in Procs \ {p} : UserOf(o) # q.user
  PROVE  OneByOne'
BY DEF OneByOne, Inv, TypeOK, Become, UserOf

LEMMA RoleFrame ==
  ASSUME Inv, RoleInv, NEW p \in Procs, NEW q, Become(p, q), UNCHANGED workload, SameRoles,
         \/ q.user \in {UserOf(p), None}
         \/ workload.alone => \A o \in Procs \ {p} : UserOf(o) # q.user,
         q.step = "enableBrand" => q.user \in Users /\ ~accounts[q.user].creator,
         q.step = "enableCreator" => q.user \in Users /\ ~accounts[q.user].brand
  PROVE  RoleInv'
<1>1. requests \in [Procs -> Request] /\ requests' = [requests EXCEPT ![p] = q]
  BY DEF Inv, TypeOK, Request, Become
<1>2. \A o \in Procs : requests[o].step # "idle" => UserOf(o) \in Users
  BY DEF Inv, Sound, UserOf
<1>3. workload.alone => OneByOne'
  BY OneByOneStep DEF RoleInv
<1> QED BY <1>1, <1>2, <1>3 DEF RoleInv, At, UserOf, SameRoles

\* The steps that are not about roles.
LEMMA ServeNoRole ==
  ASSUME Inv, NEW p \in Procs, Serve(p), ~RoleSteps(p)
  PROVE  SameRoles /\ \E q : Become(p, q) /\ q.user \in {UserOf(p), None} /\ q.step \notin Admissions
<1>0. requests[p] \in Request /\ (~At(p, "idle") => UserOf(p) \in Users)
  BY DEF Inv, Sound, At, UserOf
<1>1. \A step : /\ [requests[p] EXCEPT !.step = step].step = step
                /\ [requests[p] EXCEPT !.step = step].user = UserOf(p)
  BY <1>0 DEF Request, UserOf
<1>2. Idle.step = "idle" /\ Idle.user = None
  BY DEF Idle
<1>a. ASSUME NEW step, step \notin Admissions, Go(p, step)
      PROVE  \E q : Become(p, q) /\ q.user \in {UserOf(p), None} /\ q.step \notin Admissions
  BY <1>a, <1>1 DEF Go
<1>b. ASSUME Finish(p)
      PROVE  \E q : Become(p, q) /\ q.user \in {UserOf(p), None} /\ q.step \notin Admissions
  BY <1>b, <1>2 DEF Finish, Admissions
<1> USE <1>a, <1>b DEF Admissions
<1> USE DEF OnlyRequests, OnlyAccounts, OnlyProfiles, SameRoles
<1>3. CASE \/ InsertProfile(p) \/ SelectCircleUser(p) \/ CreateCircleUser(p) \/ InsertCircleUser(p)
           \/ InsertWallet(p) \/ Initialize(p) \/ MarkFailed(p) \/ Offer(p) \/ BindWallet(p)
  BY <1>3 DEF InsertProfile, SelectCircleUser, CreateCircleUser, InsertCircleUser, InsertWallet,
              Initialize, MarkFailed, Offer, BindWallet
<1>4. CASE SelectWallet(p)
  <2>1. Finish(p) \/ Go(p, "insertWallet") \/ Go(p, "list")
    BY <1>4, Zenon DEF SelectWallet, WalletStep
  <2> QED BY <1>4, <2>1 DEF SelectWallet
<1>5. CASE ListWallets(p)
  <2>1. \A w : LET q == [requests[p] EXCEPT !.step = "bind", !.wallet = w]
               IN q.step = "bind" /\ q.user = UserOf(p)
    BY <1>0 DEF Request, UserOf
  <2> QED BY <1>5, <2>1 DEF ListWallets, KeepPending
<1>6. CASE ReadIdentity(p)
  <2>1. LET q == [requests[p] EXCEPT !.step = "account", !.before = Shown(UserOf(p))]
        IN q.step = "account" /\ q.user = UserOf(p)
    BY <1>0 DEF Request, UserOf
  <2> QED BY <1>6, <2>1 DEF ReadIdentity
<1>7. CASE PutObject(p)
  <2>1. \A k : LET q == [requests[p] EXCEPT !.step = "uploaded", !.key = k]
               IN q.step = "uploaded" /\ q.user = UserOf(p)
    BY <1>0 DEF Request, UserOf
  <2> QED BY <1>7, <2>1 DEF PutObject
<1>8. CASE UpdateAccount(p)
  <2>1. SameRoles
    BY <1>8 DEF UpdateAccount, Inv, TypeOK
  <2> QED BY <1>8, <2>1 DEF UpdateAccount
<1>9. CASE CheckUsername(p) \/ UpsertProfile(p) \/ ReadBack(p) \/ RemoveOld(p) \/ AnswerSave(p) \/ KeepUploaded(p)
  BY <1>9 DEF CheckUsername, UpsertProfile, ReadBack, RemoveOld, AnswerSave, KeepUploaded
<1> QED BY <1>3, <1>4, <1>5, <1>6, <1>7, <1>8, <1>9 DEF Serve, RoleSteps

\* A request is admitted by the row as it is.
LEMMA AdmitRole ==
  ASSUME Inv, RoleInv, NEW p \in Procs, UserOf(p) \in Users, Admit(p, accounts[UserOf(p)]),
         UNCHANGED workload, SameRoles
  PROVE  RoleInv'
<1> DEFINE a == accounts[UserOf(p)]
           q(step) == [requests[p] EXCEPT !.step = step]
<1>1. requests[p] \in Request
  BY DEF Inv, Sound
<1>2. \A step : q(step).step = step /\ q(step).user = UserOf(p)
  BY <1>1 DEF Request, UserOf
<1>3. \/ Become(p, Idle)
      \/ Become(p, q("enableBrand")) /\ ~a.creator
      \/ Become(p, q("enableCreator")) /\ ~a.brand
      \/ Become(p, q("identity")) \/ Become(p, q("put"))
  BY Zenon DEF Admit, Admitted, Go, Finish
<1> HIDE DEF q
<1>4. CASE Become(p, Idle)
  BY <1>4, RoleFrame DEF Idle
<1> QED BY <1>2, <1>3, <1>4, RoleFrame

\* A role is set for the person alone.
LEMMA SetRole ==
  ASSUME Inv, RoleInv, workload.alone, NEW p \in Procs, EnableBrand(p) \/ EnableCreator(p)
  PROVE  /\ RoleInv'
         /\ \A u \in Users : RoleOf(accounts[u]) # None => RoleOf(accounts'[u]) = RoleOf(accounts[u])
<1>1. PICK u \in Users : u = UserOf(p) /\ requests[p] \in Request
  BY DEF EnableBrand, EnableCreator, Inv, Sound, At, UserOf
<1>2. \E q : Become(p, q) /\ q.user \in {u, None} /\ q.step \in {"idle", "profile"}
  <2> DEFINE n == [requests[p] EXCEPT !.step = "profile"]
  <2>1. n.step = "profile" /\ n.user = u
    BY <1>1 DEF Request, UserOf
  <2>2. Become(p, Idle) \/ Become(p, n)
    BY DEF EnableBrand, EnableCreator, Go, Finish
  <2> HIDE DEF n
  <2> QED BY <2>1, <2>2 DEF Idle
<1>3. PICK q : Become(p, q) /\ q.user \in {u, None} /\ q.step \in {"idle", "profile"}
  BY <1>2
<1>4. requests \in [Procs -> Request] /\ requests' = [requests EXCEPT ![p] = q]
  BY <1>3 DEF Inv, TypeOK, Request, Become
<1>5. \A v \in Users \ {u} : accounts'[v] = accounts[v]
  BY <1>1 DEF EnableBrand, EnableCreator, Inv, TypeOK
<1>6. OneByOne /\ OneByOne'
  BY <1>1, <1>3, OneByOneStep DEF RoleInv
<1>7. \A o \in Procs \ {p} : UserOf(o) # u
  BY <1>1, <1>6, FoundationConstants DEF OneByOne, FoundationConstants
<1>8. \A o \in Procs : requests'[o].step \in Admissions =>
        requests'[o] = requests[o] /\ UserOf(o) \in Users \ {u}
  <2>1. \A o \in Procs : requests[o].step # "idle" => UserOf(o) \in Users
    BY DEF Inv, Sound, UserOf
  <2> QED BY <1>3, <1>4, <1>7, <2>1 DEF Admissions
<1>9. RoleInv'
  BY <1>5, <1>6, <1>8 DEF RoleInv, At, UserOf, Admissions
<1>10. RoleOf(accounts[u]) # None => RoleOf(accounts'[u]) = RoleOf(accounts[u])
  <2>1. accounts \in [Users -> [exists : BOOLEAN, brand : BOOLEAN, creator : BOOLEAN, avatar : Key]]
    BY DEF Inv, TypeOK
  <2>2. CASE EnableBrand(p)
    <3>1. ~accounts[u].creator /\ accounts[u].creator \in BOOLEAN /\ accounts[u].brand \in BOOLEAN
      BY <1>1, <2>1, <2>2 DEF EnableBrand, RoleInv
    <3>2. accounts'[u].brand = TRUE /\ accounts'[u].creator = FALSE
      BY <1>1, <2>1, <2>2 DEF EnableBrand
    <3> QED BY <3>1, <3>2, Zenon DEF RoleOf
  <2>3. CASE EnableCreator(p)
    <3>1. ~accounts[u].brand /\ accounts[u].creator \in BOOLEAN /\ accounts[u].brand \in BOOLEAN
      BY <1>1, <2>1, <2>3 DEF EnableCreator, RoleInv
    <3>2. accounts'[u].creator = TRUE /\ accounts'[u].brand = FALSE
      BY <1>1, <2>1, <2>3 DEF EnableCreator
    <3> QED BY <3>1, <3>2, Zenon DEF RoleOf
  <2> QED BY <2>2, <2>3
<1> QED BY <1>5, <1>9, <1>10

LEMMA NextRole ==
  ASSUME Inv, RoleInv, [Next]_vars
  PROVE  /\ RoleInv'
         /\ workload.alone =>
              \A u \in Users : RoleOf(accounts[u]) # None => RoleOf(accounts'[u]) = RoleOf(accounts[u])
<1> DEFINE Kept ==
      workload.alone =>
        \A u \in Users : RoleOf(accounts[u]) # None => RoleOf(accounts'[u]) = RoleOf(accounts[u])
<1>1. SameRoles => Kept
  BY DEF SameRoles, RoleOf
<1>2. ASSUME NEW p \in Procs, Serve(p) PROVE UNCHANGED workload
  BY <1>2, ServeSound
<1>3. ASSUME NEW p \in Procs, SelectAccount(p) \/ CreateAccount(p)
      PROVE  RoleInv' /\ SameRoles
  <2>1. UserOf(p) \in Users /\ requests[p] \in Request /\ UNCHANGED workload
    BY <1>2, <1>3 DEF SelectAccount, CreateAccount, Inv, Sound, At, UserOf, Serve
  <2>2. SameRoles
    BY <1>3 DEF SelectAccount, CreateAccount, Inv, TypeOK, SameRoles, OnlyRequests
  <2>3. CASE Admit(p, accounts[UserOf(p)])
    BY <2>1, <2>2, <2>3, AdmitRole
  <2>4. CASE Go(p, "create")
    <3> DEFINE q == [requests[p] EXCEPT !.step = "create"]
    <3>1. q.step = "create" /\ q.user = UserOf(p) /\ Become(p, q)
      BY <2>1, <2>4 DEF Request, UserOf, Go
    <3> HIDE DEF q
    <3> QED BY <2>1, <2>2, <3>1, RoleFrame
  <2> QED BY <1>3, <2>2, <2>3, <2>4 DEF SelectAccount, CreateAccount
<1>4. ASSUME NEW p \in Procs, EnableBrand(p) \/ EnableCreator(p)
      PROVE  RoleInv' /\ Kept
  <2>1. CASE workload.alone
    BY <1>4, <2>1, SetRole
  <2>2. CASE ~workload.alone
    BY <1>2, <1>4, <2>2 DEF Serve, RoleInv
  <2> QED BY <2>1, <2>2
<1>5. ASSUME NEW p \in Procs, Serve(p), ~RoleSteps(p) PROVE RoleInv' /\ SameRoles
  BY <1>2, <1>5, ServeNoRole, RoleFrame DEF Admissions
<1>6. ASSUME NEW p \in Procs, StartSignIn(p) \/ StartUpload(p) \/ StartSave(p)
      PROVE  RoleInv' /\ SameRoles
  <2>1. PICK u \in Users, q \in Request : Begins(p, q, u)
    BY <1>6, StartBegins
  <2>2. Become(p, q) /\ q.step = "select" /\ q.user = u /\ UNCHANGED <<accounts, workload>>
    BY <2>1 DEF Begins, OnlyRequests, fixed
  <2>3. workload.alone => \A o \in Procs \ {p} : UserOf(o) # q.user
    BY <2>1 DEF Begins
  <2>4. SameRoles
    BY <2>2 DEF SameRoles
  <2> QED BY <2>2, <2>3, <2>4, RoleFrame
<1>7. ASSUME NEW p \in Procs, Abort(p) PROVE RoleInv' /\ SameRoles
  BY <1>7, OtherQuiet, RoleFrame DEF Abort, Finish, Idle, SameRoles
<1>8. CASE UNCHANGED <<accounts, requests, workload>>
  BY <1>8 DEF RoleInv, OneByOne, At, UserOf, SameRoles
<1>9. CASE \/ \E u \in Users : ApproveWallet(u)
           \/ \E u \in Users, t \in Tabs : LoadForm(u, t) \/ ClearPhoto(u, t)
           \/ UNCHANGED vars
  <2>1. UNCHANGED <<accounts, requests, workload>>
    BY <1>9 DEF ApproveWallet, LoadForm, ClearPhoto, vars, fixed
  <2> QED BY <1>8, <2>1 DEF SameRoles
<1> QED BY <1>1, <1>3, <1>4, <1>5, <1>6, <1>7, <1>9 DEF Next, RoleSteps

LEMMA InitRole == Init => RoleInv
BY DEF Init, RoleInv, OneByOne, At, UserOf, Idle

THEOREM RoleInvHolds == Spec => []RoleInv
BY InitInv, NextInv, InitRole, NextRole, PTL DEF Spec

\* The role of an account is never changed, if the requests of a person do not
\* overlap.
THEOREM RoleIsKeptHolds == Spec => RoleIsKept
<1>1. Inv /\ RoleInv /\ [Next]_vars =>
        [workload.alone =>
           \A u \in Users : RoleOf(accounts[u]) # None => RoleOf(accounts'[u]) = RoleOf(accounts[u])]_vars
  BY NextRole
<1> QED BY <1>1, InvHolds, RoleInvHolds, PTL DEF Spec, RoleIsKept

-----------------------------------------------------------------------------
(* The avatar.                                                             *)

\* Request p becomes q, of the same person; that person's rows and page may
\* take over keys, and nothing else changes.
Takes(p, q) ==
  /\ Become(p, q) /\ UNCHANGED workload /\ drawn \subseteq drawn'
  /\ q.user # None =>
       q.user \in Users /\ {q.key, q.before} \subseteq Holds(q.user) \cup (drawn' \ drawn) \cup {None}
  /\ \A u \in Users : Rows(u)' \cup Forms(u)' \subseteq Holds(u) \cup {None}

LEMMA TakesApart ==
  ASSUME Inv, KeysApart, NEW p \in Procs, NEW q, Takes(p, q)
  PROVE  KeysApart'
<1>1. requests \in [Procs -> Request] /\ requests' = [requests EXCEPT ![p] = q]
  BY DEF Inv, TypeOK, Request, Become, Takes
<1>2. ASSUME NEW u \in Users
      PROVE  Holds(u)' \subseteq Holds(u) \cup {None} \cup IF q.user = u THEN drawn' \ drawn ELSE {}
  <2>1. ASSUME NEW o \in Procs, requests'[o].user = u
        PROVE  {requests'[o].key, requests'[o].before} \subseteq
                 Holds(u) \cup {None} \cup IF q.user = u THEN drawn' \ drawn ELSE {}
    <3>1. CASE o = p
      BY <1>1, <2>1, <3>1, FoundationConstants DEF Takes, FoundationConstants
    <3>2. CASE o # p
      BY <1>1, <2>1, <3>2 DEF Holds, UserOf
    <3> QED BY <3>1, <3>2
  <2>2. Rows(u)' \cup Forms(u)' \subseteq Holds(u) \cup {None}
    BY DEF Takes
  <2> QED BY <2>1, <2>2 DEF Holds, UserOf
<1>3. drawn \subseteq drawn'
  BY DEF Takes
<1> QED BY <1>2, <1>3 DEF KeysApart

\* With one request of a person at a time, what the rows, the page and the
\* requests of others rely on stays.
LEMMA AvatarStep ==
  ASSUME Inv, RoleInv, AvatarInv, workload.alone, OneTab, UNCHANGED workload,
         NEW p \in Procs, NEW q, Become(p, q), NEW u \in Users, q.user \in {u, None},
         \A o \in Procs \ {p} : UserOf(o) # u,
         \A v \in Users \ {u} : /\ accounts'[v].avatar = accounts[v].avatar
                                /\ profiles'[v].avatar = profiles[v].avatar
                                /\ \A t \in Tabs : form'[<<v, t>>] = form[<<v, t>>],
         media \subseteq media',
         Rows(u)' \cup Forms(u)' \subseteq media' \cup {None},
         \A t \in Tabs \ workload.tabs : form'[<<u, t>>] = None,
         Replacing(q)'
  PROVE  AvatarInv'
<1>1. requests \in [Procs -> Request] /\ requests' = [requests EXCEPT ![p] = q]
  BY DEF Inv, TypeOK, Request, Become
<1>2. \A v \in Users : Rows(v)' \cup Forms(v)' \subseteq media' \cup {None}
  <2> SUFFICES ASSUME NEW v \in Users \ {u} PROVE Rows(v)' \cup Forms(v)' \subseteq media' \cup {None}
    OBVIOUS
  <2>1. Rows(v) \cup Forms(v) \subseteq media \cup {None}
    BY DEF AvatarInv
  <2> QED BY <2>1 DEF Rows, Forms
<1>3. ASSUME NEW v \in Users, NEW t \in Tabs \ workload.tabs PROVE form'[<<v, t>>] = None
  <2>1. form[<<v, t>>] = None
    BY DEF AvatarInv
  <2> QED BY <2>1
<1>4. ASSUME NEW o \in Procs PROVE Replacing(requests[o])'
  <2>1. CASE o = p
    BY <1>1, <2>1 DEF Replacing
  <2>2. CASE o # p
    <3>1. requests'[o] = requests[o] /\ Sound(requests[o]) /\ Replacing(requests[o]) /\ requests[o].user # u
      BY <1>1, <2>2 DEF Inv, AvatarInv, UserOf
    <3>2. requests[o].route = "save" => requests[o].tab \in Tabs /\ requests[o].user \in Users \ {u}
      BY <3>1, WorkloadFacts, FoundationConstants DEF FoundationConstants, Inv, Sound, Idle
    <3>3. requests[o].step # "idle" => requests[o].user \in Users \ {u}
      BY <3>1 DEF Sound
    <3> QED BY <3>1, <3>2, <3>3 DEF Replacing, Patched, Written
  <2> QED BY <2>1, <2>2
<1> QED BY <1>2, <1>3, <1>4 DEF AvatarInv, OneTab

\* The steps that touch neither rows, pages nor pictures.
SamePictures ==
  /\ UNCHANGED <<form, media, drawn, workload>>
  /\ \A u \in Users : /\ accounts'[u].avatar = accounts[u].avatar
                      /\ profiles'[u].avatar = profiles[u].avatar

\* What a request of one person at a time leaves alone.
LEMMA AloneFacts ==
  ASSUME Inv, RoleInv, workload.alone, NEW p \in Procs, UserOf(p) \in Users
  PROVE  \A o \in Procs \ {p} : UserOf(o) # UserOf(p)
BY FoundationConstants DEF FoundationConstants, RoleInv, OneByOne

LEMMA QuietAvatar ==
  ASSUME Inv, RoleInv, KeysApart, AvatarInv, SamePictures,
         NEW p \in Procs, NEW q, Become(p, q), UserOf(p) \in Users,
         \/ q.user = None /\ q = Idle
         \/ /\ q.user = UserOf(p) /\ {q.key, q.before} \subseteq Holds(UserOf(p)) \cup {None}
            /\ workload.alone /\ OneTab => Replacing(q)
  PROVE  KeysApart' /\ AvatarInv'
<1>1. PICK u \in Users : u = UserOf(p)
  OBVIOUS
<1>2. \A v \in Users : Rows(v)' = Rows(v) /\ Forms(v)' = Forms(v)
  BY DEF SamePictures, Rows, Forms
<1>3. KeysApart'
  <2>1. \A v \in Users : Rows(v)' \cup Forms(v)' \subseteq Holds(v) \cup {None}
    BY <1>2 DEF Holds
  <2>2. UNCHANGED workload /\ drawn \subseteq drawn'
    BY DEF SamePictures
  <2>3. Takes(p, q)
    <3>1. q.user # None =>
       q.user \in Users /\ {q.key, q.before} \subseteq Holds(q.user) \cup (drawn' \ drawn) \cup {None}
      <4>1. CASE q.user = None
        BY <4>1
      <4>2. CASE q.user = u /\ {q.key, q.before} \subseteq Holds(u) \cup {None}
        BY <4>2
      <4> QED BY <1>1, <4>1, <4>2, Zenon
    <3> QED BY <2>1, <2>2, <3>1, Zenon DEF Takes
  <2> QED BY <2>3, TakesApart
<1>4. AvatarInv'
  <2> SUFFICES ASSUME workload.alone, OneTab PROVE AvatarInv'
    BY DEF AvatarInv, SamePictures, OneTab
  <2>1. ASSUME q = Idle PROVE Replacing(q)'
    BY <2>1, FoundationConstants DEF FoundationConstants, Replacing, Idle, Routes, Patched, Written
  <2>2. ASSUME q.user = u, Replacing(q) PROVE Replacing(q)'
    BY <2>2 DEF Replacing, SamePictures
  <2>3. Replacing(q)'
    BY <1>1, <2>1, <2>2
  <2>4. Rows(u)' \cup Forms(u)' \subseteq media' \cup {None}
        /\ \A t \in Tabs \ workload.tabs : form'[<<u, t>>] = None
    BY <1>2 DEF AvatarInv, SamePictures
  <2>5. q.user \in {u, None} /\ \A o \in Procs \ {p} : UserOf(o) # u
    BY <1>1, AloneFacts
  <2> QED BY <2>3, <2>4, <2>5, AvatarStep DEF SamePictures
<1> QED BY <1>3, <1>4

\* A request that goes on with what it had, or ends.
LEMMA GoAvatar ==
  ASSUME Inv, RoleInv, KeysApart, AvatarInv, SamePictures,
         NEW p \in Procs, NEW q, Become(p, q), ~At(p, "idle"),
         \/ q = Idle
         \/ /\ q.user = UserOf(p) /\ q.key = requests[p].key /\ q.before = requests[p].before
            /\ q.route = requests[p].route /\ q.tab = requests[p].tab
            /\ q.step # "uploaded"
            /\ q.step \in Patched => requests[p].step \in Patched
            /\ q.step \in Written => requests[p].step \in Written
  PROVE  KeysApart' /\ AvatarInv'
<1>1. UserOf(p) \in Users
  BY DEF Inv, Sound, At, UserOf
<1>2. {requests[p].key, requests[p].before} \subseteq Holds(UserOf(p))
  BY DEF Holds
<1>3. workload.alone /\ OneTab => Replacing(requests[p])
  BY DEF AvatarInv
<1>4. CASE q = Idle
  BY <1>1, <1>4, QuietAvatar DEF Idle
<1>5. CASE q # Idle
  <2>1. workload.alone /\ OneTab => Replacing(q)
    BY <1>3, <1>5 DEF Replacing, UserOf
  <2> QED BY <1>1, <1>2, <1>5, <2>1, QuietAvatar
<1> QED BY <1>4, <1>5

\* The steps of a save and of an upload.
PictureSteps(p) ==
  \/ ReadIdentity(p) \/ UpdateAccount(p) \/ CheckUsername(p) \/ UpsertProfile(p)
  \/ ReadBack(p) \/ RemoveOld(p) \/ AnswerSave(p) \/ PutObject(p) \/ KeepUploaded(p)

LEMMA ServeNoPicture ==
  ASSUME Inv, RoleInv, KeysApart, AvatarInv, NEW p \in Procs, Serve(p), ~PictureSteps(p)
  PROVE  KeysApart' /\ AvatarInv'
<1>0. requests[p] \in Request /\ workload' = workload
  BY ServeSound DEF Inv, Sound
<1> DEFINE q(step) == [requests[p] EXCEPT !.step = step]
<1>1. \A step : /\ q(step).step = step /\ q(step).user = UserOf(p)
                /\ q(step).key = requests[p].key /\ q(step).before = requests[p].before
                /\ q(step).route = requests[p].route /\ q(step).tab = requests[p].tab
  BY <1>0 DEF Request, UserOf
<1> DEFINE Goes == Finish(p) \/ \E step \in Steps \ (Patched \cup {"uploaded"}) : Go(p, step)
<1>2. ASSUME SamePictures, ~At(p, "idle"), Goes PROVE KeysApart' /\ AvatarInv'
  <2>1. \/ Become(p, Idle)
        \/ \E step \in Steps \ (Patched \cup {"uploaded"}) : Become(p, q(step))
    BY <1>2 DEF Finish, Go
  <2> HIDE DEF q
  <2> QED BY <1>1, <1>2, <2>1, GoAvatar DEF Patched, Written
<1>3. ASSUME NEW a, Admit(p, a) PROVE Goes
  <2>1. \/ Finish(p) \/ Go(p, "enableBrand") \/ Go(p, "enableCreator")
        \/ Go(p, "identity") \/ Go(p, "put")
    BY <1>3, Zenon DEF Admit, Admitted
  <2> QED BY <2>1 DEF Steps, Patched
<1> USE DEF OnlyRequests, OnlyAccounts, OnlyProfiles, SamePictures, pictures, At
<1>4. CASE SelectAccount(p) \/ CreateAccount(p)
  <2>1. SamePictures /\ ~At(p, "idle")
    <3>1. CASE SelectAccount(p)
      BY <1>0, <3>1 DEF SelectAccount
    <3>2. CASE CreateAccount(p)
      <4>1. \A u \in Users : accounts'[u].avatar = accounts[u].avatar
        BY <3>2 DEF CreateAccount, Inv, TypeOK
      <4> QED BY <1>0, <3>2, <4>1 DEF CreateAccount
    <3> QED BY <1>4, <3>1, <3>2
  <2>2. Goes
    BY <1>3, <1>4 DEF SelectAccount, CreateAccount, Steps, Patched
  <2> QED BY <1>2, <2>1, <2>2
<1>5. CASE EnableBrand(p) \/ EnableCreator(p)
  <2>1. SamePictures /\ ~At(p, "idle")
    <3>1. \A u \in Users : accounts'[u].avatar = accounts[u].avatar
      <4>1. CASE EnableBrand(p)
        BY <4>1 DEF EnableBrand, Inv, TypeOK
      <4>2. CASE EnableCreator(p)
        BY <4>2 DEF EnableCreator, Inv, TypeOK
      <4> QED BY <1>5, <4>1, <4>2
    <3> QED BY <1>0, <1>5, <3>1 DEF EnableBrand, EnableCreator
  <2>2. Goes
    BY <1>5 DEF EnableBrand, EnableCreator, Steps, Patched
  <2> QED BY <1>2, <2>1, <2>2
<1>6. CASE InsertProfile(p)
  <2>1. SamePictures /\ ~At(p, "idle")
    BY <1>0, <1>6 DEF InsertProfile, Inv, TypeOK
  <2>2. Goes
    BY <1>6 DEF InsertProfile, Steps, Patched
  <2> QED BY <1>2, <2>1, <2>2
<1>7. CASE \/ SelectCircleUser(p) \/ CreateCircleUser(p) \/ InsertCircleUser(p)
           \/ InsertWallet(p) \/ Initialize(p) \/ MarkFailed(p) \/ Offer(p) \/ BindWallet(p)
  <2>1. SamePictures /\ ~At(p, "idle")
    BY <1>0, <1>7 DEF SelectCircleUser, CreateCircleUser, InsertCircleUser, InsertWallet,
              Initialize, MarkFailed, Offer, BindWallet
  <2>2. Goes
    BY <1>7 DEF SelectCircleUser, CreateCircleUser, InsertCircleUser, InsertWallet,
              Initialize, MarkFailed, Offer, BindWallet, Steps, Patched
  <2> QED BY <1>2, <2>1, <2>2
<1>8. CASE SelectWallet(p)
  <2>1. Finish(p) \/ Go(p, "insertWallet") \/ Go(p, "list")
    BY <1>8, Zenon DEF SelectWallet, WalletStep
  <2>2. SamePictures /\ ~At(p, "idle")
    BY <1>0, <1>8 DEF SelectWallet
  <2>3. Goes
    BY <2>1 DEF Steps, Patched
  <2> QED BY <1>2, <2>2, <2>3
<1>9. CASE ListWallets(p)
  <2>1. SamePictures /\ ~At(p, "idle")
    BY <1>0, <1>9 DEF ListWallets
  <2>2. CASE Finish(p)
    BY <1>2, <2>1, <2>2
  <2>3. ASSUME NEW w, Become(p, [requests[p] EXCEPT !.step = "bind", !.wallet = w])
        PROVE  KeysApart' /\ AvatarInv'
    <3> DEFINE n == [requests[p] EXCEPT !.step = "bind", !.wallet = w]
    <3>1. /\ n.step = "bind" /\ n.user = UserOf(p)
          /\ n.key = requests[p].key /\ n.before = requests[p].before
          /\ n.route = requests[p].route /\ n.tab = requests[p].tab
      BY <1>0 DEF Request, UserOf
    <3>2. Become(p, n)
      BY <2>3
    <3> HIDE DEF n
    <3> QED BY <2>1, <3>1, <3>2, GoAvatar DEF Patched, Written
  <2> QED BY <1>9, <2>2, <2>3 DEF ListWallets, KeepPending
<1> QED BY <1>4, <1>5, <1>6, <1>7, <1>8, <1>9 DEF Serve, PictureSteps

\* A step that changes the rows or the page of the person who asks.
LEMMA ChangeAvatar ==
  ASSUME Inv, RoleInv, KeysApart, AvatarInv, UNCHANGED workload,
         NEW p \in Procs, NEW q, Become(p, q), NEW u \in Users, UserOf(p) = u,
         \/ q = Idle
         \/ q.user = u /\ {q.key, q.before} \subseteq Holds(u) \cup (drawn' \ drawn) \cup {None},
         drawn \subseteq drawn', media \subseteq media',
         \A v \in Users \ {u} : /\ accounts'[v].avatar = accounts[v].avatar
                                /\ profiles'[v].avatar = profiles[v].avatar
                                /\ \A t \in Tabs : form'[<<v, t>>] = form[<<v, t>>],
         Rows(u)' \cup Forms(u)' \subseteq Holds(u) \cup {None},
         workload.alone /\ OneTab =>
           /\ Rows(u)' \cup Forms(u)' \subseteq media' \cup {None}
           /\ \A t \in Tabs \ workload.tabs : form'[<<u, t>>] = None
           /\ q # Idle => Replacing(q)'
  PROVE  KeysApart' /\ AvatarInv'
<1>1. q.user \in {u, None}
  BY DEF Idle
<1>2. KeysApart'
  <2>1. ASSUME NEW v \in Users PROVE Rows(v)' \cup Forms(v)' \subseteq Holds(v) \cup {None}
    <3>1. CASE v # u
      BY <3>1 DEF Rows, Forms, Holds
    <3> QED BY <3>1
  <2>2. q.user # None =>
          q.user \in Users /\ {q.key, q.before} \subseteq Holds(q.user) \cup (drawn' \ drawn) \cup {None}
    BY DEF Idle
  <2>3. Takes(p, q)
    BY <2>1, <2>2, Zenon DEF Takes
  <2> QED BY <2>3, TakesApart
<1>3. AvatarInv'
  <2> SUFFICES ASSUME workload.alone, OneTab PROVE AvatarInv'
    BY DEF AvatarInv, OneTab
  <2>1. q = Idle => Replacing(q)'
    BY FoundationConstants DEF FoundationConstants, Replacing, Idle, Routes, Patched, Written
  <2>2. \A o \in Procs \ {p} : UserOf(o) # u
    BY AloneFacts
  <2> QED BY <1>1, <2>1, <2>2, AvatarStep
<1> QED BY <1>2, <1>3

LEMMA ReadIdentityAvatar ==
  ASSUME Inv, RoleInv, KeysApart, AvatarInv, NEW p \in Procs, ReadIdentity(p)
  PROVE  KeysApart' /\ AvatarInv'
<1> DEFINE n == [requests[p] EXCEPT !.step = "account", !.before = Shown(UserOf(p))]
<1>1. requests[p] \in Request /\ UserOf(p) \in Users /\ SamePictures /\ Become(p, n)
  BY DEF ReadIdentity, Inv, Sound, At, UserOf, SamePictures, OnlyRequests, pictures, fixed
<1>2. /\ n.step = "account" /\ n.user = UserOf(p) /\ n.before = Shown(UserOf(p))
      /\ n.key = requests[p].key /\ n.route = requests[p].route /\ n.tab = requests[p].tab
  BY <1>1 DEF Request, UserOf
<1> HIDE DEF n
<1>3. n.before \in Holds(UserOf(p)) /\ n.key \in Holds(UserOf(p))
  BY <1>2 DEF Shown, Avatar, Holds, Rows
<1>4. workload.alone /\ OneTab => Replacing(n)
  BY <1>2 DEF AvatarInv, Replacing, UserOf, Patched, Written
<1> QED BY <1>1, <1>2, <1>3, <1>4, QuietAvatar

LEMMA UpdateAccountAvatar ==
  ASSUME Inv, RoleInv, KeysApart, AvatarInv, NEW p \in Procs, UpdateAccount(p)
  PROVE  KeysApart' /\ AvatarInv'
<1> DEFINE r == requests[p]
<1>1. PICK u \in Users : u = UserOf(p) /\ r \in Request /\ r.route = "save" /\ r.tab \in Tabs
  BY WorkloadFacts DEF UpdateAccount, Inv, Sound, At, UserOf, SaveSteps
<1>2. PICK n : /\ n.step = "username" /\ n.user = u /\ n.before = r.before
               /\ n.key = r.key /\ n.route = "save" /\ n.tab = r.tab /\ Become(p, n)
  <2> DEFINE q == [r EXCEPT !.step = "username"]
  <2>1. /\ q.step = "username" /\ q.user = u /\ q.before = r.before
        /\ q.key = r.key /\ q.route = "save" /\ q.tab = r.tab
    BY <1>1 DEF Request, UserOf
  <2>2. Become(p, q)
    BY DEF UpdateAccount, Go
  <2> HIDE DEF q
  <2> QED BY <2>1, <2>2
<1>3. UNCHANGED <<workload, profiles, media, drawn, form>>
      /\ accounts' = [accounts EXCEPT ![u].avatar = r.key]
  BY <1>1 DEF UpdateAccount, OnlyAccounts, pictures, fixed
<1>4. accounts'[u].avatar = r.key /\ \A v \in Users \ {u} : accounts'[v].avatar = accounts[v].avatar
  BY <1>1, <1>3 DEF Inv, TypeOK
<1>5. {r.key, r.before} \subseteq Holds(u)
  BY <1>1 DEF Holds, UserOf
<1>6. Rows(u)' = {profiles[u].avatar, r.key} /\ Forms(u)' = Forms(u)
  BY <1>3, <1>4 DEF Rows, Forms
<1>7. Rows(u)' \cup Forms(u)' \subseteq Holds(u)
  BY <1>5, <1>6 DEF Holds, Rows
<1>8. ASSUME workload.alone, OneTab
      PROVE  /\ Rows(u)' \cup Forms(u)' \subseteq media' \cup {None}
             /\ \A t \in Tabs \ workload.tabs : form'[<<u, t>>] = None
             /\ Replacing(n)'
  <2>1. r.key = form[<<u, r.tab>>]
    BY <1>1, <1>8 DEF AvatarInv, Replacing, UserOf
  <2>2. r.key \in Forms(u) /\ Rows(u) \cup Forms(u) \subseteq media \cup {None}
    BY <1>1, <1>8, <2>1 DEF Forms, AvatarInv
  <2>3. Replacing(n)'
    BY <1>2, <1>3, <1>4, <2>1 DEF Replacing, Written
  <2> QED BY <1>3, <1>6, <1>8, <2>2, <2>3 DEF AvatarInv, Rows
<1> QED BY <1>1, <1>2, <1>3, <1>4, <1>5, <1>7, <1>8, ChangeAvatar

LEMMA UpsertProfileAvatar ==
  ASSUME Inv, RoleInv, KeysApart, AvatarInv, NEW p \in Procs, UpsertProfile(p)
  PROVE  KeysApart' /\ AvatarInv'
<1> DEFINE r == requests[p]
           row == [exists |-> TRUE, name |-> r.name, avatar |-> r.key]
<1>1. PICK u \in Users : u = UserOf(p) /\ r \in Request /\ r.step = "upsert" /\ r.route = "save" /\ r.tab \in Tabs
  BY WorkloadFacts DEF UpsertProfile, Inv, Sound, At, UserOf, SaveSteps
<1>2. CASE Taken(p)
  <2>1. SamePictures /\ Become(p, Idle) /\ ~At(p, "idle")
    BY <1>2 DEF UpsertProfile, Finish, SamePictures, OnlyProfiles, pictures, fixed, At
  <2> QED BY <2>1, GoAvatar
<1>3. CASE ~Taken(p)
  <2>1. PICK n : /\ n.step = "readback" /\ n.user = u /\ n.before = r.before
                 /\ n.key = r.key /\ n.route = "save" /\ n.tab = r.tab /\ Become(p, n)
    <3> DEFINE q == [r EXCEPT !.step = "readback"]
    <3>1. /\ q.step = "readback" /\ q.user = u /\ q.before = r.before
          /\ q.key = r.key /\ q.route = "save" /\ q.tab = r.tab
      BY <1>1 DEF Request, UserOf
    <3>2. Become(p, q)
      BY <1>3 DEF UpsertProfile, Go
    <3> HIDE DEF q
    <3> QED BY <3>1, <3>2
  <2>2. UNCHANGED <<workload, accounts, media, drawn, form>>
        /\ profiles' = [profiles EXCEPT ![u] = row]
    BY <1>1, <1>3 DEF UpsertProfile, OnlyProfiles, pictures, fixed
  <2>3. profiles'[u].avatar = r.key /\ \A v \in Users \ {u} : profiles'[v].avatar = profiles[v].avatar
    BY <1>1, <2>2 DEF Inv, TypeOK
  <2>4. {r.key, r.before} \subseteq Holds(u)
    BY <1>1 DEF Holds, UserOf
  <2>5. Rows(u)' = {r.key, accounts[u].avatar} /\ Forms(u)' = Forms(u)
    BY <2>2, <2>3 DEF Rows, Forms
  <2>6. Rows(u)' \cup Forms(u)' \subseteq Holds(u)
    BY <2>4, <2>5 DEF Holds, Rows
  <2>7. ASSUME workload.alone, OneTab
        PROVE  /\ Rows(u)' \cup Forms(u)' \subseteq media' \cup {None}
               /\ \A t \in Tabs \ workload.tabs : form'[<<u, t>>] = None
               /\ Replacing(n)'
    <3>1. r.key = form[<<u, r.tab>>] /\ accounts[u].avatar = r.key
      BY <1>1, <2>7 DEF AvatarInv, Replacing, UserOf, Patched
    <3>2. r.key \in Forms(u) /\ Rows(u) \cup Forms(u) \subseteq media \cup {None}
      BY <1>1, <2>7, <3>1 DEF Forms, AvatarInv
    <3>3. Replacing(n)'
      BY <2>1, <2>2, <2>3, <3>1 DEF Replacing
    <3> QED BY <2>2, <2>5, <2>7, <3>2, <3>3 DEF AvatarInv, Rows
  <2> QED BY <1>1, <2>1, <2>2, <2>3, <2>4, <2>6, <2>7, ChangeAvatar
<1> QED BY <1>2, <1>3

\* The page takes over a key that its request holds.
LEMMA FormAvatar ==
  ASSUME Inv, RoleInv, KeysApart, AvatarInv, NEW p \in Procs, AnswerSave(p) \/ KeepUploaded(p)
  PROVE  KeysApart' /\ AvatarInv'
<1> DEFINE r == requests[p]
<1>1. PICK u \in Users : /\ u = UserOf(p) /\ r \in Request /\ r.tab \in workload.tabs /\ r.tab \in Tabs
                         /\ r.step = "uploaded" \/ r.route = "save"
  BY WorkloadFacts DEF AnswerSave, KeepUploaded, Inv, Sound, At, UserOf, SaveSteps, UploadSteps
<1>2. Become(p, Idle) /\ UNCHANGED <<workload, profiles, accounts, media, drawn>>
      /\ form' = [form EXCEPT ![<<u, r.tab>>] = r.key]
  BY <1>1 DEF AnswerSave, KeepUploaded, Finish, fixed
<1>3. form \in [Users \X Tabs -> Key]
  BY DEF Inv, TypeOK
<1>4. \A v \in Users, t \in Tabs :
        form'[<<v, t>>] = IF v = u /\ t = r.tab THEN r.key ELSE form[<<v, t>>]
  BY <1>1, <1>2, <1>3
<1>5. r.key \in Holds(u)
  BY <1>1 DEF Holds, UserOf
<1>6. Rows(u)' = Rows(u) /\ Forms(u)' \subseteq Forms(u) \cup {r.key}
  BY <1>2, <1>4 DEF Rows, Forms
<1>7. Rows(u)' \cup Forms(u)' \subseteq Holds(u)
  BY <1>5, <1>6 DEF Holds
<1>8. ASSUME workload.alone, OneTab
      PROVE  /\ Rows(u)' \cup Forms(u)' \subseteq media' \cup {None}
             /\ \A t \in Tabs \ workload.tabs : form'[<<u, t>>] = None
  <2>1. Rows(u) \cup Forms(u) \subseteq media \cup {None}
    BY <1>8 DEF AvatarInv
  <2>2. r.key \in media \cup {None}
    <3>1. CASE r.step = "uploaded"
      BY <1>8, <3>1 DEF AvatarInv, Replacing
    <3>2. CASE r.route = "save"
      <4>1. form[<<u, r.tab>>] = r.key
        BY <1>1, <1>8, <3>2 DEF AvatarInv, Replacing, UserOf
      <4> QED BY <1>1, <2>1, <4>1 DEF Forms
    <3> QED BY <1>1, <3>1, <3>2
  <2> QED BY <1>1, <1>2, <1>4, <1>6, <1>8, <2>1, <2>2 DEF AvatarInv
<1> QED BY <1>1, <1>2, <1>4, <1>7, <1>8, ChangeAvatar

LEMMA PutObjectAvatar ==
  ASSUME Inv, RoleInv, KeysApart, AvatarInv, NEW p \in Procs, PutObject(p)
  PROVE  KeysApart' /\ AvatarInv'
<1> DEFINE r == requests[p]
<1>1. PICK u \in Users : u = UserOf(p) /\ r \in Request /\ r.route = "upload"
  BY DEF PutObject, Inv, Sound, At, UserOf, UploadSteps
<1>2. PICK k \in Keys \ drawn : /\ media' = media \cup {k} /\ drawn' = drawn \cup {k}
                                /\ Become(p, [r EXCEPT !.step = "uploaded", !.key = k])
  BY DEF PutObject
<1>3. PICK n : /\ n.step = "uploaded" /\ n.user = u /\ n.before = r.before
               /\ n.key = k /\ n.route = "upload" /\ Become(p, n)
  <2> DEFINE q == [r EXCEPT !.step = "uploaded", !.key = k]
  <2>1. /\ q.step = "uploaded" /\ q.user = u /\ q.before = r.before
        /\ q.key = k /\ q.route = "upload"
    BY <1>1 DEF Request, UserOf
  <2>2. Become(p, q)
    BY <1>2
  <2> HIDE DEF q
  <2> QED BY <2>1, <2>2
<1>4. UNCHANGED <<workload, accounts, profiles, form>>
  BY DEF PutObject, fixed
<1>5. r.before \in Holds(u) /\ n.key \in drawn' \ drawn
  BY <1>1, <1>2, <1>3 DEF Holds, UserOf
<1>6. Rows(u)' = Rows(u) /\ Forms(u)' = Forms(u)
  BY <1>4 DEF Rows, Forms
<1>7. Replacing(n)'
  BY <1>2, <1>3 DEF Replacing, Patched, Written
<1>8. ASSUME workload.alone, OneTab
      PROVE  /\ Rows(u)' \cup Forms(u)' \subseteq media' \cup {None}
             /\ \A t \in Tabs \ workload.tabs : form'[<<u, t>>] = None
  BY <1>2, <1>4, <1>6, <1>8 DEF AvatarInv
<1>9. Rows(u)' \cup Forms(u)' \subseteq Holds(u) \cup {None}
  BY <1>6 DEF Holds
<1>10. {n.key, n.before} \subseteq Holds(u) \cup (drawn' \ drawn) \cup {None}
  BY <1>3, <1>5
<1> QED BY <1>1, <1>2, <1>3, <1>4, <1>7, <1>8, <1>9, <1>10, ChangeAvatar

\* What is removed is neither shown nor held by the page, nor somebody else's.
LEMMA RemoveOldAvatar ==
  ASSUME Inv, RoleInv, KeysApart, AvatarInv, NEW p \in Procs, RemoveOld(p)
  PROVE  KeysApart' /\ AvatarInv'
<1> DEFINE r == requests[p]
           q == [r EXCEPT !.step = "saved"]
<1>1. /\ UserOf(p) \in Users /\ r \in Request /\ r.step = "remove"
      /\ r.route = "save" /\ r.tab \in workload.tabs /\ r.tab \in Tabs
  BY WorkloadFacts DEF RemoveOld, Inv, Sound, At, UserOf, SaveSteps
<1>2. /\ q.step = "saved" /\ q.user = UserOf(p) /\ q.key = r.key /\ q.before = r.before
      /\ q.route = r.route /\ q.tab = r.tab
  BY <1>1 DEF Request, UserOf
<1>3. Become(p, q) /\ UNCHANGED <<accounts, profiles, form, drawn, workload>>
  BY DEF RemoveOld, Go, fixed
<1> HIDE DEF q
<1>4. CASE UNCHANGED media
  <2>1. SamePictures /\ ~At(p, "idle")
    BY <1>1, <1>3, <1>4 DEF SamePictures, At
  <2> QED BY <1>2, <1>3, <2>1, GoAvatar DEF Patched, Written
<1>5. CASE r.before # r.key /\ media' = media \ {r.before}
  <2>1. requests \in [Procs -> Request] /\ requests' = [requests EXCEPT ![p] = q]
    BY <1>3 DEF Inv, TypeOK, Request, Become
  <2>2. \A v \in Users : Rows(v)' = Rows(v) /\ Forms(v)' = Forms(v)
    BY <1>3 DEF Rows, Forms
  <2>3. KeysApart'
    <3>1. {q.key, q.before} \subseteq Holds(UserOf(p))
      BY <1>2 DEF Holds
    <3>2. \A v \in Users : Rows(v)' \cup Forms(v)' \subseteq Holds(v) \cup {None}
      BY <2>2 DEF Holds
    <3>3. q.user # None =>
            q.user \in Users /\ {q.key, q.before} \subseteq Holds(q.user) \cup (drawn' \ drawn) \cup {None}
      BY <1>1, <1>2, <3>1
    <3>4. drawn \subseteq drawn'
      BY <1>3
    <3>5. Takes(p, q)
      BY <1>3, <3>2, <3>3, <3>4, Zenon DEF Takes
    <3> QED BY <3>5, TakesApart
  <2>4. AvatarInv'
    <3> SUFFICES ASSUME workload.alone, OneTab PROVE AvatarInv'
      BY <1>3 DEF AvatarInv, OneTab
    <3>1. /\ form[<<UserOf(p), r.tab>>] = r.key
          /\ accounts[UserOf(p)].avatar = r.key /\ profiles[UserOf(p)].avatar = r.key
      BY <1>1 DEF AvatarInv, Replacing, Patched, Written, UserOf
    <3>2. ASSUME NEW v \in Users PROVE Rows(v) \cup Forms(v) \subseteq media' \cup {None}
      <4>1. Rows(v) \cup Forms(v) \subseteq media \cup {None}
        BY DEF AvatarInv
      <4>2. CASE v = UserOf(p)
        <5>1. Rows(v) = {r.key}
          BY <3>1, <4>2 DEF Rows
        <5>2. \A t \in Tabs : form[<<v, t>>] \in {r.key, None}
          BY <1>1, <3>1, <4>2 DEF AvatarInv, OneTab
        <5> QED BY <1>5, <4>1, <5>1, <5>2 DEF Forms
      <4>3. CASE v # UserOf(p)
        <5>1. r.before \in Holds(UserOf(p)) /\ Rows(v) \cup Forms(v) \subseteq Holds(v)
          BY DEF Holds
        <5>2. r.before = None \/ r.before \notin Rows(v) \cup Forms(v)
          BY <1>1, <4>3, <5>1 DEF KeysApart
        <5> QED BY <1>5, <4>1, <5>2
      <4> QED BY <4>2, <4>3
    <3>3. ASSUME NEW o \in Procs PROVE Replacing(requests[o])'
      <4>1. CASE o = p
        BY <1>1, <1>2, <1>3, <2>1, <3>1, <4>1 DEF Replacing, Patched, Written, UserOf
      <4>2. CASE o # p
        <5>1. requests'[o] = requests[o] /\ Replacing(requests[o])
          BY <2>1, <4>2 DEF AvatarInv
        <5>2. requests[o].step = "uploaded" => requests[o].key # r.before
          <6> SUFFICES ASSUME requests[o].step = "uploaded" PROVE requests[o].key # r.before
            OBVIOUS
          <6>1. UserOf(o) \in Users /\ UserOf(o) # UserOf(p)
            BY <1>1, <4>2, AloneFacts DEF Inv, Sound, UserOf
          <6>2. r.before \in Holds(UserOf(p)) /\ requests[o].key \in Holds(UserOf(o))
            BY DEF Holds
          <6>3. requests[o].key \in media /\ None \notin media
            BY <5>1, FoundationConstants DEF FoundationConstants, Replacing, Inv, TypeOK
          <6> QED BY <1>1, <6>1, <6>2, <6>3 DEF KeysApart
        <5> QED BY <1>3, <1>5, <5>1, <5>2 DEF Replacing
      <4> QED BY <4>1, <4>2
    <3>4. \A v \in Users, t \in Tabs \ workload'.tabs : form'[<<v, t>>] = None
      BY <1>3 DEF AvatarInv
    <3> QED BY <2>2, <3>2, <3>3, <3>4 DEF AvatarInv
  <2> QED BY <2>3, <2>4
<1> QED BY <1>4, <1>5 DEF RemoveOld

LEMMA ServeAvatar ==
  ASSUME Inv, RoleInv, KeysApart, AvatarInv, NEW p \in Procs, Serve(p)
  PROVE  KeysApart' /\ AvatarInv'
<1>1. CASE CheckUsername(p) \/ ReadBack(p)
  <2> DEFINE q(step) == [requests[p] EXCEPT !.step = step]
  <2>1. requests[p] \in Request /\ SamePictures /\ requests[p].step \in {"username", "readback"}
    BY <1>1 DEF CheckUsername, ReadBack, SamePictures, OnlyRequests, pictures, fixed, Inv, Sound, At
  <2>2. \A step : /\ q(step).step = step /\ q(step).user = UserOf(p)
                  /\ q(step).key = requests[p].key /\ q(step).before = requests[p].before
                  /\ q(step).route = requests[p].route /\ q(step).tab = requests[p].tab
    BY <2>1 DEF Request, UserOf
  <2>3. \/ Become(p, Idle)
        \/ requests[p].step = "username" /\ Become(p, q("upsert"))
        \/ requests[p].step = "readback" /\ Become(p, q("remove"))
    BY <1>1 DEF CheckUsername, ReadBack, Finish, Go, At
  <2> HIDE DEF q
  <2> QED BY <2>1, <2>2, <2>3, GoAvatar DEF Patched, Written, At
<1> QED BY <1>1, ServeNoPicture, ReadIdentityAvatar, UpdateAccountAvatar, UpsertProfileAvatar,
           FormAvatar, PutObjectAvatar, RemoveOldAvatar DEF PictureSteps

LEMMA StartAvatar ==
  ASSUME Inv, RoleInv, KeysApart, AvatarInv, NEW p \in Procs, NEW u \in Users, NEW q \in Request,
         Begins(p, q, u)
  PROVE  KeysApart' /\ AvatarInv'
<1>1. SamePictures /\ Become(p, q) /\ q.step = "select" /\ q.user = u /\ q.before = None
  BY DEF Begins, SamePictures, OnlyRequests, pictures, fixed
<1>2. \A v \in Users : Rows(v)' = Rows(v) /\ Forms(v)' = Forms(v)
  BY <1>1 DEF SamePictures, Rows, Forms
<1>3. q.key \in Holds(u) \cup {None}
  BY WorkloadFacts DEF Begins, Holds, Forms, Inv
<1>4. KeysApart'
  <2>1. \A v \in Users : Rows(v)' \cup Forms(v)' \subseteq Holds(v) \cup {None}
    BY <1>2 DEF Holds
  <2>2. UNCHANGED workload /\ drawn \subseteq drawn'
    BY <1>1 DEF SamePictures
  <2>3. q.user # None =>
          q.user \in Users /\ {q.key, q.before} \subseteq Holds(q.user) \cup (drawn' \ drawn) \cup {None}
    BY <1>1, <1>3
  <2>4. Takes(p, q)
    BY <1>1, <2>1, <2>2, <2>3, Zenon DEF Takes
  <2> QED BY <2>4, TakesApart
<1>5. AvatarInv'
  <2> SUFFICES ASSUME workload.alone, OneTab PROVE AvatarInv'
    BY <1>1 DEF AvatarInv, SamePictures, OneTab
  <2>1. Replacing(q)'
    BY <1>1 DEF Begins, Replacing, SamePictures, Patched, Written
  <2>2. \A o \in Procs \ {p} : UserOf(o) # u
    BY DEF Begins
  <2>3. Rows(u)' \cup Forms(u)' \subseteq media' \cup {None}
        /\ \A t \in Tabs \ workload.tabs : form'[<<u, t>>] = None
    BY <1>1, <1>2 DEF AvatarInv, SamePictures
  <2> QED BY <1>1, <2>1, <2>2, <2>3, AvatarStep DEF SamePictures
<1> QED BY <1>4, <1>5

\* The page is opened, opened again or cleared while it waits for nothing.
LEMMA PageAvatar ==
  ASSUME Inv, RoleInv, KeysApart, AvatarInv, NEW u \in Users, NEW t \in Tabs,
         LoadForm(u, t) \/ ClearPhoto(u, t)
  PROVE  KeysApart' /\ AvatarInv'
<1>1. PICK k \in Rows(u) \cup {None} :
        /\ form' = [form EXCEPT ![<<u, t>>] = k]
        /\ t \in workload.tabs /\ \A p \in Procs : ~(UserOf(p) = u /\ requests[p].tab = t)
        /\ UNCHANGED <<workload, accounts, profiles, media, drawn, requests>>
  BY DEF LoadForm, ClearPhoto, Shown, Avatar, Rows, fixed
<1>2. form \in [Users \X Tabs -> Key]
  BY DEF Inv, TypeOK
<1>3. \A v \in Users, s \in Tabs :
        form'[<<v, s>>] = IF v = u /\ s = t THEN k ELSE form[<<v, s>>]
  BY <1>1, <1>2
<1>4. \A v \in Users : Rows(v)' = Rows(v) /\ Forms(v)' \subseteq Forms(v) \cup Rows(v) \cup {None}
  BY <1>1, <1>3 DEF Rows, Forms
<1>5. KeysApart'
  <2>1. \A v \in Users : Holds(v)' \subseteq Holds(v) \cup {None}
    BY <1>1, <1>4 DEF Holds, UserOf
  <2> QED BY <1>1, <2>1 DEF KeysApart
<1>6. AvatarInv'
  <2> SUFFICES ASSUME workload.alone, OneTab PROVE AvatarInv'
    BY <1>1 DEF AvatarInv, OneTab
  <2>1. \A v \in Users : Rows(v)' \cup Forms(v)' \subseteq media' \cup {None}
    BY <1>1, <1>4 DEF AvatarInv
  <2>2. ASSUME NEW v \in Users, NEW s \in Tabs \ workload'.tabs
        PROVE  form'[<<v, s>>] = None
    <3>1. s # t /\ s \in Tabs \ workload.tabs
      BY <1>1
    <3>2. form[<<v, s>>] = None
      BY <3>1 DEF AvatarInv
    <3> QED BY <1>3, <3>1, <3>2
  <2>3. ASSUME NEW o \in Procs PROVE Replacing(requests[o])'
    <3>1. Replacing(requests[o]) /\ Sound(requests[o])
      BY DEF AvatarInv, Inv
    <3>2. requests[o].route = "save" =>
            requests[o].tab = t /\ requests[o].user \in Users \ {u}
      BY <1>1, <3>1, FoundationConstants DEF FoundationConstants, Sound, Idle, Routes, OneTab, UserOf
    <3> QED BY <1>1, <1>3, <3>1, <3>2 DEF Replacing
  <2> QED BY <2>1, <2>2, <2>3 DEF AvatarInv
<1> QED BY <1>5, <1>6

LEMMA NextAvatar == Inv /\ RoleInv /\ KeysApart /\ AvatarInv /\ [Next]_vars => KeysApart' /\ AvatarInv'
<1> SUFFICES ASSUME Inv, RoleInv, KeysApart, AvatarInv, [Next]_vars PROVE KeysApart' /\ AvatarInv'
  OBVIOUS
<1>1. ASSUME NEW p \in Procs, StartSignIn(p) \/ StartUpload(p) \/ StartSave(p)
      PROVE  KeysApart' /\ AvatarInv'
  BY <1>1, StartBegins, StartAvatar
<1>2. ASSUME NEW p \in Procs, Abort(p) PROVE KeysApart' /\ AvatarInv'
  <2>1. SamePictures /\ ~At(p, "idle") /\ Become(p, Idle)
    BY <1>2 DEF Abort, Finish, SamePictures, pictures
  <2> QED BY <2>1, GoAvatar
<1>3. CASE UNCHANGED <<workload, accounts, profiles, form, media, drawn, requests>>
  <2>1. \A u \in Users : Rows(u)' = Rows(u) /\ Forms(u)' = Forms(u)
    BY <1>3 DEF Rows, Forms
  <2>2. \A u \in Users : Holds(u)' = Holds(u)
    BY <1>3, <2>1 DEF Holds, UserOf
  <2>3. KeysApart'
    BY <1>3, <2>2 DEF KeysApart
  <2>4. \A o \in Procs : Replacing(requests[o]) => Replacing(requests[o])'
    BY <1>3 DEF Replacing
  <2>5. AvatarInv'
    BY <1>3, <2>1, <2>4 DEF AvatarInv, OneTab
  <2> QED BY <2>3, <2>5
<1>4. CASE (\E u \in Users : ApproveWallet(u)) \/ UNCHANGED vars
  BY <1>3, <1>4 DEF ApproveWallet, vars, pictures, fixed
<1> QED BY <1>1, <1>2, <1>4, ServeAvatar, PageAvatar DEF Next

LEMMA InitAvatar == Init => KeysApart /\ AvatarInv
<1> SUFFICES ASSUME Init PROVE KeysApart /\ AvatarInv
  OBVIOUS
<1>1. \A p \in Procs : requests[p] = Idle
  BY DEF Init
<1>2. \A u \in Users, t \in Tabs : form[<<u, t>>] = None
  BY DEF Init
<1>3. \A u \in Users : Rows(u) = {None} /\ Forms(u) \subseteq {None}
  BY <1>2 DEF Init, Rows, Forms
<1>4. \A u \in Users : Holds(u) \subseteq {None}
  BY <1>1, <1>3 DEF Holds, Idle
<1>5. Replacing(Idle)
  BY FoundationConstants DEF FoundationConstants, Replacing, Idle, Routes, Patched, Written
<1> QED BY <1>1, <1>2, <1>3, <1>4, <1>5 DEF KeysApart, AvatarInv

\* Whatever is uploaded, saved, refused or cut off, nobody's rows, page or
\* requests hold the object key of somebody else.
THEOREM KeysApartHolds == Spec => [](KeysApart /\ AvatarInv)
BY InitInv, NextInv, InitRole, NextRole, InitAvatar, NextAvatar, PTL DEF Spec

\* With one page and one request at a time, the avatar a creator is shown with
\* is an object in the bucket.
THEOREM AvatarExistsHolds == Spec => []AvatarExists
<1>1. AvatarInv => AvatarExists
  BY DEF AvatarInv, OneTab, AvatarExists, Shown, Avatar, Rows
<1> QED BY <1>1, KeysApartHolds, PTL
=============================================================================
