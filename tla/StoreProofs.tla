----------------------------- MODULE StoreProofs -----------------------------
(***************************************************************************)
(* Theorems about the persistence engine for every number of servers,      *)
(* drafts, requests and retries.                                           *)
(*                                                                         *)
(* QueueInv says who may write: the running update of a server is at the   *)
(* head of its queue and not answered yet.  What the memory of a running   *)
(* update reflects, compared with what is stored, is then what each        *)
(* property needs: nothing that failed (FileInv); with one server and the  *)
(* file exactly what is stored (ExactInv); with one server and the tables  *)
(* at least what is stored (AheadInv).                                     *)
(* BoundInv counts: no revision is ahead of the answers.                   *)
(***************************************************************************)
EXTENDS Store, SequenceTheorems, FiniteSetTheorems, TLAPS

Tables == UNION {[D -> SUBSET Nat] : D \in SUBSET Drafts}
Stores == [revision : Nat, drafts : Tables, records : Tables]
Request == [op : Ops, draft : Drafts, server : Servers, status : Statuses]
Steps == {"read", "check", "writeFile", "writeDrafts", "writeRecords"}
Work == [pc : Steps, have : SUBSET {"drafts", "records"}, tries : Nat, store : Stores]

StoreType ==
  /\ adapter \in {"filesystem", "supabase"}
  /\ stored \in Stores
  /\ requests \in Seq(Request)
  /\ queue \in [Servers -> Seq(Nat)]
  /\ work \in [Servers -> Work]

\* What waits in a queue was given to that server and is not answered; an
\* update that has read something is at the head of a queue.
QueueInv ==
  /\ \A s \in Servers : \A i \in 1..Len(queue[s]) :
       /\ queue[s][i] \in Made
       /\ requests[queue[s][i]].server = s
       /\ Status(queue[s][i]) = "queued"
  /\ \A s \in Servers : \A i, j \in 1..Len(queue[s]) : queue[s][i] = queue[s][j] => i = j
  /\ \A s \in Servers : queue[s] = <<>> => work[s] = Resting
  /\ adapter = "filesystem" => \A s \in Servers :
       work[s].pc \in {"read", "check", "writeFile"} /\ work[s].have = {}
  /\ adapter = "supabase" => \A s \in Servers :
       /\ work[s].pc # "writeFile"
       /\ work[s].pc # "read" => work[s].have = {"drafts", "records"}

-----------------------------------------------------------------------------
\* What the operations on tables yield.

LEMMA TableSet ==
  ASSUME NEW t
  PROVE  t \in Tables <=> t \in [DOMAIN t -> SUBSET Nat] /\ DOMAIN t \subseteq Drafts
BY DEF Tables

LEMMA AddingTable ==
  ASSUME NEW t \in Tables, NEW d \in Drafts, NEW r \in Nat
  PROVE  /\ Adding(t, d, r) \in Tables
         /\ DOMAIN Adding(t, d, r) = DOMAIN t \cup {d}
         /\ r \in Adding(t, d, r)[d]
         /\ \A e \in DOMAIN t : t[e] \subseteq Adding(t, d, r)[e]
         /\ \A e \in DOMAIN t \cup {d} : \A q \in Adding(t, d, r)[e] :
              q = r \/ (e \in DOMAIN t /\ q \in t[e])
<1>1. t \in [DOMAIN t -> SUBSET Nat] /\ DOMAIN t \subseteq Drafts
  BY TableSet
<1>2. Adding(t, d, r) \in [DOMAIN t \cup {d} -> SUBSET Nat]
  BY <1>1 DEF Adding
<1>3. Adding(t, d, r) \in Tables
  BY <1>1, <1>2 DEF Tables
<1> QED BY <1>1, <1>3 DEF Adding

LEMMA WithoutTable ==
  ASSUME NEW t \in Tables, NEW d
  PROVE  /\ Without(t, d) \in Tables
         /\ DOMAIN Without(t, d) = DOMAIN t \ {d}
         /\ \A e \in DOMAIN t \ {d} : Without(t, d)[e] = t[e]
<1>1. t \in [DOMAIN t -> SUBSET Nat] /\ DOMAIN t \subseteq Drafts
  BY TableSet
<1>2. Without(t, d) \in [DOMAIN t \ {d} -> SUBSET Nat]
  BY <1>1 DEF Without
<1>3. Without(t, d) \in Tables
  BY <1>1, <1>2 DEF Tables
<1> QED BY <1>3 DEF Without

LEMMA UpsertedTable ==
  ASSUME NEW t \in Tables, NEW u \in Tables
  PROVE  /\ Upserted(t, u) \in Tables
         /\ DOMAIN Upserted(t, u) = DOMAIN t \cup DOMAIN u
         /\ \A e \in DOMAIN u : Upserted(t, u)[e] = u[e]
         /\ \A e \in DOMAIN t \ DOMAIN u : Upserted(t, u)[e] = t[e]
<1>1. t \in [DOMAIN t -> SUBSET Nat] /\ DOMAIN t \subseteq Drafts
  BY TableSet
<1>2. u \in [DOMAIN u -> SUBSET Nat] /\ DOMAIN u \subseteq Drafts
  BY TableSet
<1>3. Upserted(t, u) \in [DOMAIN t \cup DOMAIN u -> SUBSET Nat]
  BY <1>1, <1>2 DEF Upserted
<1>4. Upserted(t, u) \in Tables
  BY <1>1, <1>2, <1>3 DEF Tables
<1> QED BY <1>4 DEF Upserted

LEMMA EmptyTable == Nothing \in Tables /\ DOMAIN Nothing = {} /\ Resting \in Work
<1>1. Nothing \in [{} -> SUBSET Nat] /\ DOMAIN Nothing = {}
  BY DEF Nothing
<1>2. Nothing \in Tables
  BY <1>1 DEF Tables
<1> HIDE DEF Nothing
<1> QED BY <1>1, <1>2 DEF Resting, Work, Stores, Steps

\* What a mutator does to the two tables.
LEMMA MutatedStore ==
  ASSUME NEW store \in Stores, NEW op \in Ops, NEW d \in Drafts, NEW r \in Nat
  PROVE  LET new == Mutated(op, d, r, store)
         IN /\ new \in Stores /\ new.revision = store.revision
            /\ op \in {"create", "save"} =>
                 new.drafts = Adding(store.drafts, d, r) /\ new.records = store.records
            /\ op = "record" =>
                 new.drafts = store.drafts /\ new.records = Adding(store.records, d, r)
            /\ op = "delete" =>
                 new.drafts = Without(store.drafts, d) /\ new.records = store.records
<1> DEFINE new == Mutated(op, d, r, store)
<1>1. store.drafts \in Tables /\ store.records \in Tables
  BY DEF Stores
<1>2. CASE op \in {"create", "save"}
  <2>1. new = [store EXCEPT !.drafts = Adding(@, d, r)]
    BY <1>2, Zenon DEF Mutated
  <2> HIDE DEF new
  <2>2. new \in Stores /\ new.revision = store.revision
        /\ new.drafts = Adding(store.drafts, d, r) /\ new.records = store.records
    BY <2>1, <1>1, AddingTable DEF Stores
  <2> QED BY <2>2, <1>2 DEF new
<1>3. CASE op = "record"
  <2>1. new = [store EXCEPT !.records = Adding(@, d, r)]
    BY <1>3 DEF Mutated
  <2> HIDE DEF new
  <2>2. new \in Stores /\ new.revision = store.revision
        /\ new.records = Adding(store.records, d, r) /\ new.drafts = store.drafts
    BY <2>1, <1>1, AddingTable DEF Stores
  <2> QED BY <2>2, <1>3 DEF new
<1>4. CASE op = "delete"
  <2>1. new = [store EXCEPT !.drafts = Without(@, d)]
    BY <1>4 DEF Mutated
  <2> HIDE DEF new
  <2>2. new \in Stores /\ new.revision = store.revision
        /\ new.drafts = Without(store.drafts, d) /\ new.records = store.records
    BY <2>1, <1>1, WithoutTable DEF Stores
  <2> QED BY <2>2, <1>4 DEF new
<1> QED BY <1>2, <1>3, <1>4 DEF Ops

-----------------------------------------------------------------------------
\* The running update is a request of its server that has no answer yet.
LEMMA CurrentRequest ==
  ASSUME StoreType, QueueInv, NEW s \in Servers, queue[s] # <<>>
  PROVE  /\ Current(s) \in Made /\ Current(s) \in Nat
         /\ requests[Current(s)] \in Request
         /\ requests[Current(s)].server = s
         /\ requests[Current(s)].status = "queued"
<1>1. queue[s] \in Seq(Nat) /\ Len(queue[s]) >= 1
  BY DEF StoreType
<1>2. Current(s) = queue[s][1] /\ 1 \in 1..Len(queue[s])
  BY <1>1 DEF Current
<1>3. /\ Current(s) \in Made /\ requests[Current(s)].server = s
      /\ requests[Current(s)].status = "queued"
  BY <1>2 DEF QueueInv, Status
<1>4. requests \in Seq(Request)
  BY DEF StoreType
<1> QED BY <1>3, <1>4 DEF Made

\* Two servers never run the same request.
LEMMA OwnRequests ==
  ASSUME StoreType, QueueInv, NEW s \in Servers, NEW t \in Servers, s # t,
         queue[s] # <<>>, queue[t] # <<>>
  PROVE  Current(s) # Current(t)
BY CurrentRequest

\* Answering a request takes it off its queue; nothing else changes.
LEMMA LeaveEffect ==
  ASSUME StoreType, QueueInv, NEW s \in Servers, queue[s] # <<>>,
         NEW status \in Statuses, Leave(s, status)
  PROVE  /\ requests' \in Seq(Request) /\ Len(requests') = Len(requests)
         /\ \A r \in Made :
              /\ requests'[r].op = requests[r].op
              /\ requests'[r].draft = requests[r].draft
              /\ requests'[r].server = requests[r].server
              /\ requests'[r].status = IF r = Current(s) THEN status ELSE requests[r].status
         /\ queue' \in [Servers -> Seq(Nat)] /\ work' \in [Servers -> Work]
         /\ queue'[s] = Tail(queue[s]) /\ work'[s] = Resting
         /\ \A t \in Servers \ {s} : queue'[t] = queue[t] /\ work'[t] = work[t]
<1>1. /\ requests' = [requests EXCEPT ![Current(s)].status = status]
      /\ queue' = [queue EXCEPT ![s] = Tail(@)]
      /\ work' = [work EXCEPT ![s] = Resting]
  BY DEF Leave
<1>2. Current(s) \in Made /\ requests[Current(s)] \in Request
  BY CurrentRequest
<1>3. requests \in Seq(Request) /\ queue \in [Servers -> Seq(Nat)] /\ work \in [Servers -> Work]
  BY DEF StoreType
<1>4. [requests[Current(s)] EXCEPT !.status = status] \in Request
  BY <1>2 DEF Request
<1>5. requests' \in Seq(Request) /\ Len(requests') = Len(requests)
  BY <1>1, <1>2, <1>3, <1>4 DEF Made
<1>6. \A r \in Made :
        requests'[r] = IF r = Current(s) THEN [requests[r] EXCEPT !.status = status] ELSE requests[r]
  <2>1. DOMAIN requests = Made
    BY <1>3 DEF Made
  <2> QED BY <1>1, <2>1
<1>7. \A r \in Made : requests[r] \in Request
  BY <1>3 DEF Made
<1>8. queue' \in [Servers -> Seq(Nat)]
  <2>1. Tail(queue[s]) \in Seq(Nat)
    BY <1>3
  <2> QED BY <1>1, <1>3, <2>1
<1>9. work' \in [Servers -> Work]
  BY <1>1, <1>3, EmptyTable
<1>10. \A r \in Made :
         /\ requests'[r].op = requests[r].op
         /\ requests'[r].draft = requests[r].draft
         /\ requests'[r].server = requests[r].server
         /\ requests'[r].status = IF r = Current(s) THEN status ELSE requests[r].status
  BY <1>6, <1>7 DEF Request
<1>11. queue'[s] = Tail(queue[s]) /\ work'[s] = Resting
  BY <1>1, <1>3
<1>12. \A t \in Servers \ {s} : queue'[t] = queue[t] /\ work'[t] = work[t]
  BY <1>1, <1>3
<1> QED BY <1>5, <1>8, <1>9, <1>10, <1>11, <1>12

LEMMA LeaveQueue ==
  ASSUME StoreType, QueueInv, NEW s \in Servers, queue[s] # <<>>,
         NEW status \in Statuses, Leave(s, status), UNCHANGED adapter
  PROVE  QueueInv'
<1>1. /\ Len(requests') = Len(requests)
      /\ \A r \in Made :
           /\ requests'[r].server = requests[r].server
           /\ requests'[r].status = IF r = Current(s) THEN status ELSE requests[r].status
      /\ queue'[s] = Tail(queue[s]) /\ work'[s] = Resting
      /\ \A t \in Servers \ {s} : queue'[t] = queue[t] /\ work'[t] = work[t]
  BY LeaveEffect
<1>2. queue[s] \in Seq(Nat)
  BY DEF StoreType
<1>3. /\ Len(Tail(queue[s])) = Len(queue[s]) - 1
      /\ \A i \in 1..Len(Tail(queue[s])) : Tail(queue[s])[i] = queue[s][i + 1] /\ i + 1 \in 1..Len(queue[s])
      /\ Current(s) = queue[s][1] /\ 1 \in 1..Len(queue[s]) /\ Len(queue[s]) \in Nat
  BY <1>2 DEF Current
<1>4. ASSUME NEW t \in Servers, NEW i \in 1..Len(queue'[t])
      PROVE  /\ queue'[t][i] \in Made'
             /\ requests'[queue'[t][i]].server = t
             /\ requests'[queue'[t][i]].status = "queued"
  <2>1. CASE t = s
    <3>1. queue'[t][i] = queue[s][i + 1] /\ i + 1 \in 1..Len(queue[s])
      BY <2>1, <1>1, <1>3
    <3>2. queue[s][i + 1] \in Made /\ requests[queue[s][i + 1]].server = s
          /\ requests[queue[s][i + 1]].status = "queued"
      BY <3>1 DEF QueueInv, Status
    <3>3. i + 1 # 1
      BY <2>1, <1>1, <1>3
    <3>4. queue[s][i + 1] # Current(s)
      BY <3>1, <3>3, <1>3, Zenon DEF QueueInv
    <3> QED BY <2>1, <3>1, <3>2, <3>4, <1>1 DEF Made
  <2>2. CASE t # s
    <3>1. queue'[t] = queue[t]
      BY <2>2, <1>1
    <3>2. queue[t][i] \in Made /\ requests[queue[t][i]].server = t
          /\ requests[queue[t][i]].status = "queued"
      BY <3>1 DEF QueueInv, Status
    <3>3. queue[t][i] # Current(s)
      BY <2>2, <3>2, CurrentRequest
    <3> QED BY <3>1, <3>2, <3>3, <1>1 DEF Made
  <2> QED BY <2>1, <2>2
<1>5. ASSUME NEW t \in Servers, NEW i \in 1..Len(queue'[t]), NEW j \in 1..Len(queue'[t]),
             queue'[t][i] = queue'[t][j]
      PROVE  i = j
  <2>1. CASE t = s
    <3>1. /\ queue[s][i + 1] = queue[s][j + 1]
          /\ i + 1 \in 1..Len(queue[s]) /\ j + 1 \in 1..Len(queue[s])
      BY <2>1, <1>5, <1>1, <1>3
    <3>2. i + 1 = j + 1
      BY <3>1, Zenon DEF QueueInv
    <3>3. i \in Nat /\ j \in Nat
      OBVIOUS
    <3> QED BY <3>2, <3>3
  <2>2. CASE t # s
    <3>1. queue'[t] = queue[t]
      BY <2>2, <1>1
    <3> QED BY <3>1, <1>5 DEF QueueInv
  <2> QED BY <2>1, <2>2
<1>6. \A t \in Servers : queue'[t] = <<>> => work'[t] = Resting
  BY <1>1 DEF QueueInv
<1>7. \A t \in Servers : work'[t] \in {work[t], Resting}
  BY <1>1
<1>8. Resting.pc = "read" /\ Resting.have = {}
  BY DEF Resting
<1>9. adapter' = "filesystem" => \A t \in Servers :
        work'[t].pc \in {"read", "check", "writeFile"} /\ work'[t].have = {}
  BY <1>7, <1>8 DEF QueueInv
<1>10. adapter' = "supabase" => \A t \in Servers :
         /\ work'[t].pc # "writeFile"
         /\ work'[t].pc # "read" => work'[t].have = {"drafts", "records"}
  BY <1>7, <1>8 DEF QueueInv
<1> QED BY <1>4, <1>5, <1>6, <1>9, <1>10 DEF QueueInv, Status

\* A step of the running update of one server.
LEMMA WorkQueue ==
  ASSUME StoreType, QueueInv, NEW s \in Servers, queue[s] # <<>>,
         UNCHANGED <<adapter, requests, queue>>,
         \A t \in Servers \ {s} : work'[t] = work[t],
         adapter = "filesystem" =>
           work'[s].pc \in {"read", "check", "writeFile"} /\ work'[s].have = {},
         adapter = "supabase" =>
           /\ work'[s].pc # "writeFile"
           /\ work'[s].pc # "read" => work'[s].have = {"drafts", "records"}
  PROVE  QueueInv'
<1>1. ASSUME NEW t \in Servers PROVE t = s \/ work'[t] = work[t]
  OBVIOUS
<1> QED BY <1>1 DEF QueueInv, Made, Status

\* What the steps of a running update do to its local variables.
LEMMA ReadFileEffect ==
  ASSUME StoreType, QueueInv, NEW s \in Servers, ReadFile(s)
  PROVE  /\ StoreType' /\ QueueInv'
         /\ \A t \in Servers \ {s} : work'[t] = work[t]
         /\ work'[s].store = stored /\ work'[s].pc = "check"
         /\ queue[s] # <<>> /\ UNCHANGED <<adapter, stored, requests, queue>>
<1>1. work[s] \in Work /\ stored \in Stores
  BY DEF StoreType
<1>2. /\ work' = [work EXCEPT ![s] = [work[s] EXCEPT !.store = stored, !.pc = "check"]]
      /\ UNCHANGED <<adapter, stored, requests, queue>>
      /\ queue[s] # <<>> /\ work[s].pc = "read" /\ adapter = "filesystem"
  BY DEF ReadFile, Running
<1>3. PICK w : w = [work[s] EXCEPT !.store = stored, !.pc = "check"]
  OBVIOUS
<1>4. /\ w \in Work /\ w.store = stored /\ w.pc = "check" /\ w.have = work[s].have
  BY <1>1, <1>3 DEF Work, Steps
<1>5. work' \in [Servers -> Work] /\ work'[s] = w /\ \A t \in Servers \ {s} : work'[t] = work[t]
  BY <1>2, <1>3, <1>4 DEF StoreType
<1>6. StoreType'
  BY <1>2, <1>5 DEF StoreType
<1>7. QueueInv'
  <2>1. work[s].have = {}
    BY <1>2 DEF QueueInv
  <2> QED BY <1>2, <1>4, <1>5, <2>1, WorkQueue
<1> QED BY <1>2, <1>4, <1>5, <1>6, <1>7

LEMMA ReadTableEffect ==
  ASSUME StoreType, QueueInv, NEW s \in Servers, NEW table \in {"drafts", "records"},
         ReadTable(s, table)
  PROVE  /\ StoreType' /\ QueueInv'
         /\ \A t \in Servers \ {s} : work'[t] = work[t]
         /\ work'[s].store.drafts =
              IF table = "drafts" THEN stored.drafts ELSE work[s].store.drafts
         /\ work'[s].store.records =
              IF table = "records" THEN stored.records ELSE work[s].store.records
         /\ work'[s].have = work[s].have \cup {table} /\ table \notin work[s].have
         /\ work[s].pc = "read" /\ work'[s].pc \in {"read", "check"}
         /\ work'[s].store.revision = work[s].store.revision
         /\ queue[s] # <<>> /\ UNCHANGED <<adapter, stored, requests, queue>>
<1>1. work[s] \in Work /\ stored \in Stores /\ work[s].store \in Stores
  BY DEF StoreType, Work
<1>2. PICK next \in {"read", "check"} : next = IF work[s].have = {} THEN "read" ELSE "check"
  OBVIOUS
<1>3. PICK new : new = [work[s].store EXCEPT ![table] = stored[table]]
  OBVIOUS
<1>4. /\ work' = [work EXCEPT ![s] =
           [work[s] EXCEPT !.store = new, !.have = work[s].have \cup {table}, !.pc = next]]
      /\ UNCHANGED <<adapter, stored, requests, queue>>
      /\ queue[s] # <<>> /\ work[s].pc = "read" /\ adapter = "supabase"
      /\ table \notin work[s].have
  BY <1>2, <1>3 DEF ReadTable, Running
<1>5. /\ new \in Stores /\ new.revision = work[s].store.revision
      /\ new.drafts = IF table = "drafts" THEN stored.drafts ELSE work[s].store.drafts
      /\ new.records = IF table = "records" THEN stored.records ELSE work[s].store.records
  <2>1. CASE table = "drafts"
    <3>1. new = [work[s].store EXCEPT !.drafts = stored.drafts]
      BY <1>3, <2>1
    <3> QED BY <1>1, <2>1, <3>1 DEF Stores
  <2>2. CASE table = "records"
    <3>1. new = [work[s].store EXCEPT !.records = stored.records]
      BY <1>3, <2>2
    <3> QED BY <1>1, <2>2, <3>1 DEF Stores
  <2> QED BY <2>1, <2>2
<1>6. PICK w : w = [work[s] EXCEPT !.store = new, !.have = work[s].have \cup {table}, !.pc = next]
  OBVIOUS
<1>7. /\ w \in Work /\ w.store = new /\ w.pc = next /\ w.have = work[s].have \cup {table}
  BY <1>1, <1>2, <1>5, <1>6 DEF Work, Steps
<1>8. work' \in [Servers -> Work] /\ work'[s] = w /\ \A t \in Servers \ {s} : work'[t] = work[t]
  BY <1>4, <1>6, <1>7 DEF StoreType
<1>9. StoreType'
  BY <1>4, <1>8 DEF StoreType
<1>10. QueueInv'
  <2>1. next # "read" => w.have = {"drafts", "records"}
    <3>1. work[s].have \subseteq {"drafts", "records"}
      BY <1>1 DEF Work
    <3> QED BY <1>2, <1>4, <1>7, <3>1
  <2> QED BY <1>2, <1>4, <1>7, <1>8, <2>1, WorkQueue
<1> QED BY <1>4, <1>5, <1>7, <1>8, <1>9, <1>10

\* The check either refuses the update, starts it over, or changes memory.
LEMMA CheckChanges ==
  ASSUME StoreType, QueueInv, NEW s \in Servers, Check(s)
  PROVE  /\ StoreType' /\ QueueInv' /\ queue[s] # <<>> /\ work[s].pc = "check"
         /\ UNCHANGED <<adapter, stored>>
         /\ \/ Leave(s, "failed")
            \/ /\ UNCHANGED <<requests, queue>>
               /\ \A t \in Servers \ {s} : work'[t] = work[t]
               /\ work'[s].pc = "read" /\ work'[s].have = {} /\ work'[s].store = Resting.store
            \/ /\ UNCHANGED <<requests, queue>>
               /\ \A t \in Servers \ {s} : work'[t] = work[t]
               /\ Admits(requests[Current(s)].op, requests[Current(s)].draft, work[s].store)
               /\ work'[s].store =
                    Mutated(requests[Current(s)].op, requests[Current(s)].draft, Current(s), work[s].store)
               /\ work'[s].have = work[s].have
               /\ work'[s].pc = IF adapter = "filesystem" THEN "writeFile" ELSE "writeDrafts"
<1> DEFINE r == Current(s)
           op == requests[r].op
           d == requests[r].draft
<1>1. queue[s] # <<>> /\ work[s].pc = "check" /\ UNCHANGED <<adapter, stored>>
  BY DEF Check, Running
<1>2. work[s] \in Work /\ work[s].store \in Stores /\ work \in [Servers -> Work]
  BY DEF StoreType, Work
<1>3. r \in Nat /\ op \in Ops /\ d \in Drafts
  BY <1>1, CurrentRequest DEF Request
<1>4. CASE Leave(s, "failed")
  <2>1. StoreType'
    BY <1>1, <1>4, LeaveEffect DEF StoreType, Statuses
  <2>2. QueueInv'
    BY <1>1, <1>4, LeaveQueue DEF Statuses
  <2> QED BY <1>1, <1>4, <2>1, <2>2
<1>5. CASE /\ work' = [work EXCEPT ![s] = [Resting EXCEPT !.tries = work[s].tries + 1]]
           /\ UNCHANGED <<requests, queue>>
  <2>1. PICK w : w = [Resting EXCEPT !.tries = work[s].tries + 1]
    OBVIOUS
  <2>2. w \in Work /\ w.pc = "read" /\ w.have = {} /\ w.store = Resting.store
    <3>1. Resting \in Work /\ Resting.pc = "read" /\ Resting.have = {}
      BY EmptyTable DEF Resting
    <3>2. work[s].tries + 1 \in Nat
      BY <1>2 DEF Work
    <3> HIDE DEF Resting
    <3> QED BY <2>1, <3>1, <3>2 DEF Work
  <2>3. /\ work' \in [Servers -> Work] /\ work'[s] = w
        /\ \A t \in Servers \ {s} : work'[t] = work[t]
    BY <1>2, <1>5, <2>1, <2>2
  <2>4. StoreType'
    BY <1>1, <1>5, <2>3 DEF StoreType
  <2>5. QueueInv'
    BY <1>1, <1>5, <2>2, <2>3, WorkQueue
  <2> QED BY <1>1, <1>5, <2>2, <2>3, <2>4, <2>5
<1>6. CASE /\ Admits(op, d, work[s].store)
           /\ work' = [work EXCEPT
                ![s].store = Mutated(op, d, r, @),
                ![s].pc = IF adapter = "filesystem" THEN "writeFile" ELSE "writeDrafts"]
           /\ UNCHANGED <<requests, queue>>
  <2>1. PICK new : new = Mutated(op, d, r, work[s].store)
    OBVIOUS
  <2>2. new \in Stores
    BY <1>2, <1>3, <2>1, MutatedStore
  <2>3. PICK next \in {"writeFile", "writeDrafts"} :
          next = IF adapter = "filesystem" THEN "writeFile" ELSE "writeDrafts"
    OBVIOUS
  <2>4. PICK w : w = [work[s] EXCEPT !.store = new, !.pc = next]
    OBVIOUS
  <2>5. /\ w \in Work /\ w.store = new /\ w.pc = next /\ w.have = work[s].have
    BY <1>2, <2>2, <2>3, <2>4 DEF Work, Steps
  <2>6. work' = [work EXCEPT ![s] = w]
    BY <1>6, <2>1, <2>3, <2>4
  <2>7. /\ work' \in [Servers -> Work] /\ work'[s] = w
        /\ \A t \in Servers \ {s} : work'[t] = work[t]
    BY <1>2, <2>5, <2>6
  <2>8. StoreType'
    BY <1>1, <1>6, <2>7 DEF StoreType
  <2>9. QueueInv'
    <3>1. adapter = "filesystem" => work[s].have = {}
      BY DEF QueueInv
    <3>2. adapter = "supabase" => work[s].have = {"drafts", "records"}
      BY <1>1 DEF QueueInv
    <3>3. adapter \in {"filesystem", "supabase"}
      BY DEF StoreType
    <3> QED BY <1>1, <1>6, <2>3, <2>5, <2>7, <3>1, <3>2, <3>3, WorkQueue
  <2> QED BY <1>1, <1>6, <2>1, <2>3, <2>5, <2>7, <2>8, <2>9
<1> QED BY <1>4, <1>5, <1>6 DEF Check

\* The new file reflects the memory of the update.
LEMMA WriteFileEffect ==
  ASSUME StoreType, QueueInv, NEW s \in Servers, WriteFile(s)
  PROVE  /\ StoreType' /\ QueueInv' /\ queue[s] # <<>> /\ work[s].pc = "writeFile"
         /\ stored'.drafts = work[s].store.drafts /\ stored'.records = work[s].store.records
         /\ Leave(s, "done") /\ UNCHANGED adapter
<1>1. /\ queue[s] # <<>> /\ work[s].pc = "writeFile" /\ Leave(s, "done") /\ UNCHANGED adapter
      /\ stored' = [work[s].store EXCEPT !.revision = @ + 1]
  BY DEF WriteFile, Running, NewFile
<1>2. work[s].store \in Stores
  BY DEF StoreType, Work
<1>3. /\ stored' \in Stores
      /\ stored'.drafts = work[s].store.drafts /\ stored'.records = work[s].store.records
  BY <1>1, <1>2 DEF Stores
<1>4. StoreType'
  BY <1>1, <1>3, LeaveEffect DEF StoreType, Statuses
<1>5. QueueInv'
  BY <1>1, LeaveQueue DEF Statuses
<1> QED BY <1>1, <1>3, <1>4, <1>5

LEMMA WriteDraftsEffect ==
  ASSUME StoreType, QueueInv, NEW s \in Servers, WriteDrafts(s)
  PROVE  /\ StoreType' /\ QueueInv' /\ queue[s] # <<>> /\ work[s].pc = "writeDrafts"
         /\ stored'.drafts = Upserted(stored.drafts, work[s].store.drafts)
         /\ stored'.records = stored.records
         /\ work'[s].pc = "writeRecords" /\ work'[s].store = work[s].store
         /\ work'[s].have = work[s].have
         /\ \A t \in Servers \ {s} : work'[t] = work[t]
         /\ UNCHANGED <<adapter, requests, queue>>
<1>1. /\ queue[s] # <<>> /\ work[s].pc = "writeDrafts"
      /\ stored' = [stored EXCEPT !.drafts = Upserted(@, work[s].store.drafts)]
      /\ work' = [work EXCEPT ![s].pc = "writeRecords"]
      /\ UNCHANGED <<adapter, requests, queue>>
  BY DEF WriteDrafts, Running
<1>2. /\ work[s] \in Work /\ stored \in Stores /\ stored.drafts \in Tables
      /\ work[s].store.drafts \in Tables /\ work \in [Servers -> Work]
  BY DEF StoreType, Work, Stores
<1>3. PICK new \in Tables : new = Upserted(stored.drafts, work[s].store.drafts)
  BY <1>2, UpsertedTable
<1>4. stored' \in Stores /\ stored'.drafts = new /\ stored'.records = stored.records
  BY <1>1, <1>2, <1>3 DEF Stores
<1>5. PICK w : w = [work[s] EXCEPT !.pc = "writeRecords"]
  OBVIOUS
<1>6. w \in Work /\ w.pc = "writeRecords" /\ w.store = work[s].store /\ w.have = work[s].have
  BY <1>2, <1>5 DEF Work, Steps
<1>7. /\ work' \in [Servers -> Work] /\ work'[s] = w
      /\ \A t \in Servers \ {s} : work'[t] = work[t]
  BY <1>1, <1>2, <1>5, <1>6
<1>8. StoreType'
  BY <1>1, <1>4, <1>7 DEF StoreType
<1>9. QueueInv'
  <2>1. adapter = "supabase"
    BY <1>1 DEF QueueInv, StoreType
  <2>2. work[s].have = {"drafts", "records"}
    BY <1>1, <2>1 DEF QueueInv
  <2> QED BY <1>1, <1>6, <1>7, <2>1, <2>2, WorkQueue
<1> QED BY <1>1, <1>3, <1>4, <1>6, <1>7, <1>8, <1>9

LEMMA WriteRecordsEffect ==
  ASSUME StoreType, QueueInv, NEW s \in Servers, WriteRecords(s)
  PROVE  /\ StoreType' /\ QueueInv' /\ queue[s] # <<>> /\ work[s].pc = "writeRecords"
         /\ stored'.drafts = stored.drafts /\ UNCHANGED adapter
         /\ \/ /\ stored'.records = Upserted(stored.records, work[s].store.records)
               /\ Leave(s, IF requests[Current(s)].op = "delete" THEN "deleting" ELSE "done")
            \/ stored' = stored /\ Leave(s, "failed")
<1>1. /\ queue[s] # <<>> /\ work[s].pc = "writeRecords" /\ UNCHANGED adapter
      /\ \/ /\ stored' = [stored EXCEPT !.records = Upserted(@, work[s].store.records)]
            /\ Leave(s, IF requests[Current(s)].op = "delete" THEN "deleting" ELSE "done")
         \/ stored' = stored /\ Leave(s, "failed")
  BY DEF WriteRecords, Running
<1>2. PICK status \in Statuses :
        /\ Leave(s, status)
        /\ \/ /\ stored' = [stored EXCEPT !.records = Upserted(@, work[s].store.records)]
              /\ status = IF requests[Current(s)].op = "delete" THEN "deleting" ELSE "done"
           \/ stored' = stored /\ status = "failed"
  BY <1>1 DEF Statuses
<1>3. /\ stored \in Stores /\ stored.records \in Tables /\ work[s].store.records \in Tables
  BY DEF StoreType, Work, Stores
<1>4. PICK new \in Tables : new = Upserted(stored.records, work[s].store.records)
  BY <1>3, UpsertedTable
<1>5. /\ stored' \in Stores /\ stored'.drafts = stored.drafts
      /\ \/ /\ stored'.records = new
            /\ status = IF requests[Current(s)].op = "delete" THEN "deleting" ELSE "done"
         \/ stored' = stored /\ status = "failed"
  BY <1>2, <1>3, <1>4 DEF Stores
<1>6. StoreType'
  BY <1>1, <1>2, <1>5, LeaveEffect DEF StoreType
<1>7. QueueInv'
  BY <1>1, <1>2, LeaveQueue
<1> QED BY <1>1, <1>2, <1>4, <1>5, <1>6, <1>7

LEMMA FailWriteEffect ==
  ASSUME StoreType, QueueInv, NEW s \in Servers, FailWrite(s)
  PROVE  /\ StoreType' /\ QueueInv' /\ queue[s] # <<>>
         /\ Leave(s, "failed") /\ UNCHANGED <<adapter, stored>>
<1>1. /\ queue[s] # <<>> /\ Leave(s, "failed") /\ UNCHANGED <<adapter, stored>>
  BY DEF FailWrite, Running, AfterFailedWrite
<1>2. StoreType'
  BY <1>1, LeaveEffect DEF StoreType, Statuses
<1>3. QueueInv'
  BY <1>1, LeaveQueue DEF Statuses
<1> QED BY <1>1, <1>2, <1>3

\* A request that comes in is the last of all and the last of its queue.
LEMMA SubmitEffect ==
  ASSUME StoreType, QueueInv, NEW s \in Servers, NEW op \in Ops, NEW d \in Drafts,
         Submit(s, op, d)
  PROVE  /\ StoreType' /\ QueueInv'
         /\ Len(requests') = Len(requests) + 1
         /\ \A r \in Made : requests'[r] = requests[r]
         /\ requests'[Len(requests) + 1]
              = [op |-> op, draft |-> d, server |-> s, status |-> "queued"]
         /\ \A t \in Servers : queue[t] # <<>> => Head(queue'[t]) = Head(queue[t])
         /\ \A t \in Servers : queue'[t] # <<>> => queue[t] # <<>> \/ t = s
         /\ UNCHANGED <<adapter, stored, work>>
<1> DEFINE n == Len(requests) + 1
           q == [op |-> op, draft |-> d, server |-> s, status |-> "queued"]
<1>1. /\ requests' = Append(requests, q) /\ queue' = [queue EXCEPT ![s] = Append(@, n)]
      /\ UNCHANGED <<adapter, stored, work>>
  BY DEF Submit
<1>2. requests \in Seq(Request) /\ queue \in [Servers -> Seq(Nat)] /\ Len(requests) \in Nat
  BY DEF StoreType
<1>3. q \in Request
  BY DEF Request, Statuses
<1> HIDE DEF q
<1>4. /\ requests' \in Seq(Request) /\ Len(requests') = n /\ requests'[n] = q
      /\ \A r \in Made : requests'[r] = requests[r]
  BY <1>1, <1>2, <1>3 DEF Made
<1>5. /\ queue' \in [Servers -> Seq(Nat)] /\ queue'[s] = Append(queue[s], n)
      /\ \A t \in Servers \ {s} : queue'[t] = queue[t]
  BY <1>1, <1>2
<1>6. StoreType'
  BY <1>1, <1>4, <1>5 DEF StoreType
<1>7. /\ Len(queue'[s]) = Len(queue[s]) + 1 /\ queue'[s][Len(queue[s]) + 1] = n
      /\ \A i \in 1..Len(queue[s]) : queue'[s][i] = queue[s][i]
      /\ Len(queue[s]) \in Nat
  BY <1>2, <1>5
<1>8. QueueInv'
  <2>1. \A t \in Servers : \A i \in 1..Len(queue'[t]) :
          \/ queue'[t][i] = n /\ t = s
          \/ i \in 1..Len(queue[t]) /\ queue'[t][i] = queue[t][i]
    <3>1. ASSUME NEW i \in 1..Len(queue'[s])
          PROVE  \/ queue'[s][i] = n
                 \/ i \in 1..Len(queue[s]) /\ queue'[s][i] = queue[s][i]
      <4>1. i = Len(queue[s]) + 1 \/ i \in 1..Len(queue[s])
        BY <1>7
      <4> QED BY <4>1, <1>7
    <3> QED BY <3>1, <1>5
  <2>2. \A t \in Servers : \A i \in 1..Len(queue'[t]) :
          /\ queue'[t][i] \in Made'
          /\ requests'[queue'[t][i]].server = t
          /\ requests'[queue'[t][i]].status = "queued"
    <3> SUFFICES ASSUME NEW t \in Servers, NEW i \in 1..Len(queue'[t])
                 PROVE  /\ queue'[t][i] \in Made'
                        /\ requests'[queue'[t][i]].server = t
                        /\ requests'[queue'[t][i]].status = "queued"
      OBVIOUS
    <3>1. CASE queue'[t][i] = n /\ t = s
      BY <3>1, <1>2, <1>4 DEF Made, q
    <3>2. CASE i \in 1..Len(queue[t]) /\ queue'[t][i] = queue[t][i]
      <4>1. /\ queue[t][i] \in Made /\ requests[queue[t][i]].server = t
            /\ requests[queue[t][i]].status = "queued"
        BY <3>2 DEF QueueInv, Status
      <4> QED BY <3>2, <4>1, <1>2, <1>4 DEF Made
    <3> QED BY <2>1, <3>1, <3>2
  <2>3. \A t \in Servers : \A i, j \in 1..Len(queue'[t]) : queue'[t][i] = queue'[t][j] => i = j
    <3> SUFFICES ASSUME NEW t \in Servers, NEW i \in 1..Len(queue'[t]),
                        NEW j \in 1..Len(queue'[t]), queue'[t][i] = queue'[t][j]
                 PROVE  i = j
      OBVIOUS
    <3>1. CASE t = s
      <4>1. \A k \in 1..Len(queue[s]) : queue[s][k] # n
        <5>1. \A k \in 1..Len(queue[s]) : queue[s][k] \in Made
          BY DEF QueueInv
        <5> QED BY <5>1, <1>2 DEF Made
      <4>2. i \in 1..(Len(queue[s]) + 1) /\ j \in 1..(Len(queue[s]) + 1)
        BY <3>1, <1>7
      <4>3. CASE i \in 1..Len(queue[s]) /\ j \in 1..Len(queue[s])
        BY <3>1, <4>3, <1>7 DEF QueueInv
      <4>4. CASE i = Len(queue[s]) + 1 \/ j = Len(queue[s]) + 1
        BY <3>1, <4>1, <4>2, <4>4, <1>7
      <4> QED BY <4>2, <4>3, <4>4, <1>7
    <3>2. CASE t # s
      <4>1. queue'[t] = queue[t]
        BY <3>2, <1>5
      <4> QED BY <4>1 DEF QueueInv
    <3> QED BY <3>1, <3>2
  <2>4. \A t \in Servers : queue'[t] = <<>> => work'[t] = Resting
    <3>1. queue'[s] # <<>>
      BY <1>5, <1>2
    <3> QED BY <3>1, <1>1, <1>5 DEF QueueInv
  <2>5. /\ adapter' = "filesystem" => \A t \in Servers :
             work'[t].pc \in {"read", "check", "writeFile"} /\ work'[t].have = {}
        /\ adapter' = "supabase" => \A t \in Servers :
             /\ work'[t].pc # "writeFile"
             /\ work'[t].pc # "read" => work'[t].have = {"drafts", "records"}
    BY <1>1 DEF QueueInv
  <2> QED BY <2>2, <2>3, <2>4, <2>5 DEF QueueInv, Status
<1>9. \A t \in Servers : queue[t] # <<>> => Head(queue'[t]) = Head(queue[t])
  <2>1. queue[s] # <<>> => Head(Append(queue[s], n)) = Head(queue[s])
    BY <1>2
  <2> QED BY <2>1, <1>5
<1>10. \A t \in Servers : queue'[t] # <<>> => queue[t] # <<>> \/ t = s
  BY <1>5
<1> QED BY <1>1, <1>4, <1>6, <1>8, <1>9, <1>10 DEF q

\* The answer of a request that is in no queue.
LEMMA AnswerQueue ==
  ASSUME StoreType, QueueInv, NEW r \in Made, Status(r) # "queued",
         NEW status \in Statuses, requests' = [requests EXCEPT ![r].status = status],
         stored' \in Stores, UNCHANGED <<adapter, queue, work>>
  PROVE  /\ StoreType' /\ QueueInv' /\ Len(requests') = Len(requests)
         /\ \A q \in Made :
              /\ requests'[q].op = requests[q].op
              /\ requests'[q].draft = requests[q].draft
              /\ requests'[q].server = requests[q].server
              /\ requests'[q].status = IF q = r THEN status ELSE requests[q].status
<1>1. requests \in Seq(Request) /\ requests[r] \in Request /\ DOMAIN requests = Made
  BY DEF StoreType, Made
<1>2. [requests[r] EXCEPT !.status = status] \in Request
  BY <1>1 DEF Request
<1>3. requests' \in Seq(Request) /\ Len(requests') = Len(requests)
  BY <1>1, <1>2
<1>4. \A q \in Made :
        requests'[q] = IF q = r THEN [requests[q] EXCEPT !.status = status] ELSE requests[q]
  BY <1>1
<1>5. \A q \in Made : requests[q] \in Request
  BY <1>1 DEF Made
<1>6. \A q \in Made :
        /\ requests'[q].op = requests[q].op
        /\ requests'[q].draft = requests[q].draft
        /\ requests'[q].server = requests[q].server
        /\ requests'[q].status = IF q = r THEN status ELSE requests[q].status
  BY <1>4, <1>5 DEF Request
<1>7. StoreType'
  BY <1>3 DEF StoreType
<1>8. Made' = Made
  BY <1>3 DEF Made
<1>9. QueueInv'
  <2>1. \A t \in Servers : \A i \in 1..Len(queue[t]) :
          /\ queue[t][i] \in Made /\ queue[t][i] # r
          /\ requests[queue[t][i]].server = t /\ requests[queue[t][i]].status = "queued"
    BY DEF QueueInv, Status
  <2> QED BY <2>1, <1>6, <1>8 DEF QueueInv, Status
<1> QED BY <1>3, <1>6, <1>7, <1>9

LEMMA DeleteRowsEffect ==
  ASSUME StoreType, QueueInv, NEW r \in Made, DeleteRows(r)
  PROVE  /\ StoreType' /\ QueueInv' /\ Len(requests') = Len(requests)
         /\ requests[r].status = "deleting"
         /\ \A q \in Made :
              /\ requests'[q].op = requests[q].op
              /\ requests'[q].draft = requests[q].draft
              /\ requests'[q].server = requests[q].server
              /\ requests'[q].status = IF q = r THEN "done" ELSE requests[q].status
         /\ stored'.drafts = Without(stored.drafts, requests[r].draft)
         /\ stored'.records = Without(stored.records, requests[r].draft)
         /\ UNCHANGED <<adapter, queue, work>>
<1> DEFINE d == requests[r].draft
<1>1. /\ requests[r].status = "deleting"
      /\ stored' = [stored EXCEPT !.drafts = Without(@, d), !.records = Without(@, d)]
      /\ requests' = [requests EXCEPT ![r].status = "done"]
      /\ UNCHANGED <<adapter, queue, work>>
  BY DEF DeleteRows
<1>2. stored \in Stores /\ stored.drafts \in Tables /\ stored.records \in Tables
  BY DEF StoreType, Stores
<1>3. PICK drafts \in Tables : drafts = Without(stored.drafts, d)
  BY <1>2, WithoutTable
<1>4. PICK records \in Tables : records = Without(stored.records, d)
  BY <1>2, WithoutTable
<1>5. stored' = [stored EXCEPT !.drafts = drafts, !.records = records]
  BY <1>1, <1>3, <1>4
<1>6. stored' \in Stores /\ stored'.drafts = drafts /\ stored'.records = records
  BY <1>2, <1>5 DEF Stores
<1>7. /\ StoreType' /\ QueueInv' /\ Len(requests') = Len(requests)
      /\ \A q \in Made :
           /\ requests'[q].op = requests[q].op
           /\ requests'[q].draft = requests[q].draft
           /\ requests'[q].server = requests[q].server
           /\ requests'[q].status = IF q = r THEN "done" ELSE requests[q].status
  BY <1>1, <1>6, AnswerQueue DEF Status, Statuses
<1> QED BY <1>1, <1>3, <1>4, <1>6, <1>7

LEMMA FailDeleteRowsEffect ==
  ASSUME StoreType, QueueInv, NEW r \in Made, FailDeleteRows(r)
  PROVE  /\ StoreType' /\ QueueInv' /\ Len(requests') = Len(requests)
         /\ requests[r].status = "deleting"
         /\ \A q \in Made :
              /\ requests'[q].op = requests[q].op
              /\ requests'[q].draft = requests[q].draft
              /\ requests'[q].server = requests[q].server
              /\ requests'[q].status = IF q = r THEN "failed" ELSE requests[q].status
         /\ UNCHANGED <<adapter, stored, queue, work>>
<1>1. /\ requests[r].status = "deleting"
      /\ requests' = [requests EXCEPT ![r].status = "failed"]
      /\ UNCHANGED <<adapter, stored, queue, work>>
  BY DEF FailDeleteRows
<1>2. stored' \in Stores
  BY <1>1 DEF StoreType
<1> QED BY <1>1, <1>2, AnswerQueue DEF Status, Statuses

LEMMA CrashEffect ==
  ASSUME StoreType, QueueInv, NEW s \in Servers, Crash(s)
  PROVE  /\ StoreType' /\ QueueInv' /\ Len(requests') = Len(requests)
         /\ \A q \in Made :
              /\ requests'[q].op = requests[q].op
              /\ requests'[q].draft = requests[q].draft
              /\ requests'[q].server = requests[q].server
              /\ \/ requests'[q].status = requests[q].status
                 \/ /\ requests[q].status \in {"queued", "deleting"}
                    /\ requests'[q].status = "lost"
         /\ work'[s] = Resting /\ queue'[s] = <<>>
         /\ \A t \in Servers \ {s} : queue'[t] = queue[t] /\ work'[t] = work[t]
         /\ UNCHANGED <<adapter, stored>>
<1>1. /\ requests' = [i \in 1..Len(requests) |->
           IF requests[i].server = s /\ requests[i].status \in {"queued", "deleting"}
           THEN [requests[i] EXCEPT !.status = "lost"] ELSE requests[i]]
      /\ queue' = [queue EXCEPT ![s] = <<>>] /\ work' = [work EXCEPT ![s] = Resting]
      /\ UNCHANGED <<adapter, stored>>
  BY DEF Crash
<1>2. /\ requests \in Seq(Request) /\ Len(requests) \in Nat /\ \A q \in Made : requests[q] \in Request
      /\ queue \in [Servers -> Seq(Nat)] /\ work \in [Servers -> Work]
  BY DEF StoreType, Made
<1>3. \A q \in Made :
        requests'[q] = IF requests[q].server = s /\ requests[q].status \in {"queued", "deleting"}
                       THEN [requests[q] EXCEPT !.status = "lost"] ELSE requests[q]
  BY <1>1 DEF Made
<1>4. \A q \in Made :
        /\ requests'[q] \in Request
        /\ requests'[q].op = requests[q].op
        /\ requests'[q].draft = requests[q].draft
        /\ requests'[q].server = requests[q].server
        /\ \/ requests'[q].status = requests[q].status
           \/ /\ requests[q].server = s
              /\ requests[q].status \in {"queued", "deleting"}
              /\ requests'[q].status = "lost"
  BY <1>2, <1>3 DEF Request, Statuses
<1>5. requests' \in Seq(Request) /\ Len(requests') = Len(requests)
  <2>1. \A i \in 1..Len(requests) : requests'[i] \in Request
    BY <1>4 DEF Made
  <2>2. DOMAIN requests' = 1..Len(requests) /\ requests' = [i \in 1..Len(requests) |-> requests'[i]]
    BY <1>1
  <2>3. PICK new : new = requests'
    OBVIOUS
  <2>4. new \in [1..Len(requests) -> Request]
    BY <2>1, <2>2, <2>3
  <2>5. PICK n \in Nat : n = Len(requests)
    BY <1>2
  <2>6. new \in [1..n -> Request]
    BY <2>4, <2>5
  <2>7. new \in Seq(Request)
    BY <2>6, SeqDef
  <2>8. DOMAIN new = 1..Len(new) /\ Len(new) \in Nat
    BY <2>7
  <2>9. Len(new) = n
    BY <2>6, <2>8
  <2> QED BY <2>3, <2>5, <2>7, <2>9
<1>6. /\ queue' \in [Servers -> Seq(Nat)] /\ work' \in [Servers -> Work]
      /\ work'[s] = Resting /\ queue'[s] = <<>>
      /\ \A t \in Servers \ {s} : queue'[t] = queue[t] /\ work'[t] = work[t]
  BY <1>1, <1>2, EmptyTable
<1>7. StoreType'
  BY <1>1, <1>5, <1>6 DEF StoreType
<1>8. QueueInv'
  <2>1. \A t \in Servers : \A i \in 1..Len(queue'[t]) :
          /\ t # s /\ queue'[t] = queue[t] /\ i \in 1..Len(queue[t])
    BY <1>6
  <2>2. \A t \in Servers : \A i \in 1..Len(queue[t]) :
          /\ queue[t][i] \in Made /\ requests[queue[t][i]].server = t
          /\ requests[queue[t][i]].status = "queued"
    BY DEF QueueInv, Status
  <2>3. Made' = Made
    BY <1>5 DEF Made
  <2>4. \A t \in Servers : \A i \in 1..Len(queue'[t]) :
          /\ queue'[t][i] \in Made'
          /\ requests'[queue'[t][i]].server = t
          /\ requests'[queue'[t][i]].status = "queued"
    BY <2>1, <2>2, <2>3, <1>4
  <2>5. \A t \in Servers : \A i, j \in 1..Len(queue'[t]) : queue'[t][i] = queue'[t][j] => i = j
    BY <2>1 DEF QueueInv
  <2>6. \A t \in Servers : 
          \/ work'[t] = Resting
          \/ t # s /\ work'[t] = work[t] /\ queue'[t] = queue[t]
    BY <1>6
  <2>7. Resting.pc = "read" /\ Resting.have = {}
    BY DEF Resting
  <2>8. \A t \in Servers : queue'[t] = <<>> => work'[t] = Resting
    BY <2>6 DEF QueueInv
  <2>9. /\ adapter' = "filesystem" => \A t \in Servers :
             work'[t].pc \in {"read", "check", "writeFile"} /\ work'[t].have = {}
        /\ adapter' = "supabase" => \A t \in Servers :
             /\ work'[t].pc # "writeFile"
             /\ work'[t].pc # "read" => work'[t].have = {"drafts", "records"}
    BY <1>1, <2>6, <2>7 DEF QueueInv
  <2> QED BY <2>4, <2>5, <2>8, <2>9 DEF QueueInv, Status
<1> QED BY <1>1, <1>4, <1>5, <1>6, <1>7, <1>8

\* The store a server starts with.
LEMMA InitQueue == Init => StoreType /\ QueueInv
<1> SUFFICES ASSUME Init PROVE StoreType /\ QueueInv
  OBVIOUS
<1>1. stored \in Stores
  <2>1. [d \in Original |-> {}] \in Tables
    <3>1. [d \in Original |-> {}] \in [Original -> SUBSET Nat]
      OBVIOUS
    <3> QED BY <3>1, StoreConstants DEF Tables, StoreConstants
  <2> QED BY <2>1, EmptyTable DEF Init, Stores
<1>2. StoreType
  BY <1>1, EmptyTable, StoreConstants DEF Init, StoreType, StoreConstants
<1>3. \A s \in Servers : queue[s] = <<>> /\ Len(queue[s]) = 0 /\ work[s] = Resting
  BY DEF Init
<1>4. Resting.pc = "read" /\ Resting.have = {}
  BY DEF Resting
<1>5. QueueInv
  BY <1>3, <1>4 DEF QueueInv
<1> QED BY <1>2, <1>5

\* The kinds of steps a server takes.
LEMMA RunCases ==
  ASSUME NEW s, Run(s)
  PROVE  \/ ReadFile(s) \/ ReadTable(s, "drafts") \/ ReadTable(s, "records")
         \/ Check(s) \/ WriteFile(s) \/ WriteDrafts(s) \/ WriteRecords(s) \/ FailWrite(s)
BY DEF Run

\* Every step keeps the types and the queues.
LEMMA NextQueue == StoreType /\ QueueInv /\ [Next]_vars => StoreType' /\ QueueInv'
<1> SUFFICES ASSUME StoreType, QueueInv, [Next]_vars PROVE StoreType' /\ QueueInv'
  OBVIOUS
<1>1. ASSUME NEW s \in Servers, Run(s) PROVE StoreType' /\ QueueInv'
  BY <1>1, RunCases, ReadFileEffect, ReadTableEffect, CheckChanges, WriteFileEffect,
     WriteDraftsEffect, WriteRecordsEffect, FailWriteEffect
<1>2. ASSUME NEW s \in Servers, NEW op \in Ops, NEW d \in Drafts, Submit(s, op, d)
      PROVE  StoreType' /\ QueueInv'
  BY <1>2, SubmitEffect
<1>3. ASSUME NEW s \in Servers, Crash(s) PROVE StoreType' /\ QueueInv'
  BY <1>3, CrashEffect
<1>4. ASSUME NEW r \in Made, DeleteRows(r) \/ FailDeleteRows(r)
      PROVE  StoreType' /\ QueueInv'
  BY <1>4, DeleteRowsEffect, FailDeleteRowsEffect
<1>5. CASE UNCHANGED vars
  BY <1>5 DEF vars, StoreType, QueueInv, Made, Status
<1> QED BY <1>1, <1>2, <1>3, <1>4, <1>5 DEF Next, Made

-----------------------------------------------------------------------------
Done == {r \in Made : Status(r) = "done"}

\* A store reflects none but the updates R.
OnlyOf(store, R) ==
  /\ \A d \in DOMAIN store.drafts : store.drafts[d] \subseteq R
  /\ \A d \in DOMAIN store.records : store.records[d] \subseteq R

\* What is in the file was answered with success; what a process is about to
\* rename into place reflects its own update besides.
FileInv ==
  adapter = "filesystem" =>
    /\ OnlyOf(stored, Done)
    /\ \A s \in Servers :
         OnlyOf(work[s].store,
                Done \cup (IF work[s].pc = "writeFile" THEN {Current(s)} ELSE {}))

LEMMA OnlyOfMore ==
  ASSUME NEW store, NEW R, NEW S, OnlyOf(store, R), R \subseteq S
  PROVE  OnlyOf(store, S)
BY DEF OnlyOf

LEMMA OnlyOfMutated ==
  ASSUME NEW store \in Stores, NEW op \in Ops, NEW d \in Drafts, NEW r \in Nat, NEW R,
         OnlyOf(store, R)
  PROVE  OnlyOf(Mutated(op, d, r, store), R \cup {r})
<1> DEFINE new == Mutated(op, d, r, store)
<1>1. /\ op \in {"create", "save"} =>
           new.drafts = Adding(store.drafts, d, r) /\ new.records = store.records
      /\ op = "record" =>
           new.drafts = store.drafts /\ new.records = Adding(store.records, d, r)
      /\ op = "delete" =>
           new.drafts = Without(store.drafts, d) /\ new.records = store.records
  BY MutatedStore
<1>2. store.drafts \in Tables /\ store.records \in Tables
  BY DEF Stores
<1> HIDE DEF new
<1>3. ASSUME NEW t \in Tables, \A e \in DOMAIN t : t[e] \subseteq R
      PROVE  /\ \A e \in DOMAIN Adding(t, d, r) : Adding(t, d, r)[e] \subseteq R \cup {r}
             /\ \A e \in DOMAIN Without(t, d) : Without(t, d)[e] \subseteq R \cup {r}
  <2>1. \A e \in DOMAIN Adding(t, d, r) : Adding(t, d, r)[e] \subseteq R \cup {r}
    BY <1>3 DEF Adding
  <2>2. \A e \in DOMAIN Without(t, d) : Without(t, d)[e] \subseteq R \cup {r}
    BY <1>3 DEF Without
  <2> QED BY <2>1, <2>2
<1>4. /\ \A e \in DOMAIN store.drafts : store.drafts[e] \subseteq R
      /\ \A e \in DOMAIN store.records : store.records[e] \subseteq R
  BY DEF OnlyOf
<1>5. OnlyOf(new, R \cup {r})
  BY <1>1, <1>2, <1>3, <1>4 DEF OnlyOf, Ops
<1> QED BY <1>5 DEF new

LEMMA OnlyOfResting == ASSUME NEW R PROVE OnlyOf(Resting.store, R)
BY EmptyTable DEF OnlyOf, Resting

\* An answer is for good.
LEMMA DoneStays ==
  ASSUME StoreType, StoreType', Len(requests') >= Len(requests),
         \A q \in Made : Status(q) = "done" => requests'[q].status = "done"
  PROVE  Done \subseteq Done'
<1>1. Made \subseteq Made'
  BY DEF StoreType, Made
<1> QED BY <1>1 DEF Done, Status

LEMMA LeaveDone ==
  ASSUME StoreType, QueueInv, NEW s \in Servers, queue[s] # <<>>,
         NEW status \in Statuses, Leave(s, status)
  PROVE  /\ Done' = IF status = "done" THEN Done \cup {Current(s)} ELSE Done
         /\ Current(s) \notin Done
<1>1. /\ Current(s) \in Made /\ requests[Current(s)].status = "queued"
  BY CurrentRequest
<1>2. /\ Made' = Made
      /\ \A r \in Made : requests'[r].status =
           IF r = Current(s) THEN status ELSE requests[r].status
  BY LeaveEffect DEF Made
<1> QED BY <1>1, <1>2 DEF Done, Status

\* An update that ends keeps FileInv, if the file it leaves does.
LEMMA LeaveFile ==
  ASSUME StoreType, QueueInv, FileInv, NEW s \in Servers, queue[s] # <<>>,
         NEW status \in Statuses, Leave(s, status), UNCHANGED adapter,
         adapter = "filesystem" => OnlyOf(stored', Done')
  PROVE  FileInv'
<1> SUFFICES ASSUME adapter = "filesystem" PROVE FileInv!2'
  BY DEF FileInv
<1>1. Done \subseteq Done'
  BY LeaveDone
<1>2. /\ work'[s] = Resting
      /\ \A t \in Servers \ {s} : queue'[t] = queue[t] /\ work'[t] = work[t]
  BY LeaveEffect
<1>3. ASSUME NEW t \in Servers
      PROVE  OnlyOf(work[t].store, Done \cup (IF work[t].pc = "writeFile" THEN {Current(t)} ELSE {}))'
  <2>1. CASE t = s
    BY <2>1, <1>2, OnlyOfResting
  <2>2. CASE t # s
    <3>1. work'[t] = work[t] /\ Current(t)' = Current(t)
      BY <2>2, <1>2 DEF Current
    <3>2. OnlyOf(work[t].store, Done \cup (IF work[t].pc = "writeFile" THEN {Current(t)} ELSE {}))
      BY DEF FileInv
    <3> QED BY <1>1, <3>1, <3>2 DEF OnlyOf
  <2> QED BY <2>1, <2>2
<1> QED BY <1>3

\* A step of a running update keeps FileInv, if what it has in memory does.
LEMMA WorkFile ==
  ASSUME FileInv, NEW s \in Servers, UNCHANGED <<adapter, stored, requests, queue>>,
         \A t \in Servers \ {s} : work'[t] = work[t],
         adapter = "filesystem" =>
           OnlyOf(work'[s].store, Done \cup (IF work'[s].pc = "writeFile" THEN {Current(s)} ELSE {}))
  PROVE  FileInv'
<1> SUFFICES ASSUME adapter = "filesystem" PROVE FileInv!2'
  BY DEF FileInv
<1>1. Done' = Done /\ \A t \in Servers : Current(t)' = Current(t)
  BY DEF Done, Made, Status, Current
<1>2. OnlyOf(stored, Done)'
  BY <1>1 DEF FileInv, OnlyOf
<1>3. ASSUME NEW t \in Servers
      PROVE  OnlyOf(work[t].store, Done \cup (IF work[t].pc = "writeFile" THEN {Current(t)} ELSE {}))'
  <2>1. CASE t = s
    BY <2>1, <1>1 DEF OnlyOf
  <2>2. CASE t # s
    BY <2>2, <1>1 DEF FileInv, OnlyOf
  <2> QED BY <2>1, <2>2
<1> QED BY <1>2, <1>3

\* Every step keeps FileInv.
LEMMA NextFile == StoreType /\ QueueInv /\ FileInv /\ [Next]_vars => FileInv'
<1> SUFFICES ASSUME StoreType, QueueInv, FileInv, [Next]_vars PROVE FileInv'
  OBVIOUS
<1>1. ASSUME NEW s \in Servers, Run(s) PROVE FileInv'
  <2>1. CASE ReadFile(s)
    <3>1. /\ \A t \in Servers \ {s} : work'[t] = work[t]
          /\ work'[s].store = stored /\ work'[s].pc = "check"
          /\ UNCHANGED <<adapter, stored, requests, queue>>
      BY <2>1, ReadFileEffect
    <3>2. adapter = "filesystem" =>
            OnlyOf(work'[s].store, Done \cup (IF work'[s].pc = "writeFile" THEN {Current(s)} ELSE {}))
      BY <3>1, OnlyOfMore DEF FileInv
    <3> QED BY <3>1, <3>2, WorkFile
  <2>2. CASE ReadTable(s, "drafts") \/ ReadTable(s, "records")
    <3>1. /\ \A t \in Servers \ {s} : work'[t] = work[t]
          /\ UNCHANGED <<adapter, stored, requests, queue>>
      BY <2>2, ReadTableEffect
    <3>2. adapter # "filesystem"
      BY <2>2 DEF ReadTable
    <3> QED BY <3>1, <3>2, WorkFile
  <2>3. CASE Check(s)
    <3>1. CASE Leave(s, "failed")
      <4>1. /\ queue[s] # <<>> /\ UNCHANGED <<adapter, stored>>
        BY <2>3, CheckChanges
      <4>2. Done' = Done
        BY <3>1, <4>1, LeaveDone DEF Statuses
      <4>3. adapter = "filesystem" => OnlyOf(stored', Done')
        BY <4>1, <4>2 DEF FileInv
      <4> QED BY <3>1, <4>1, <4>3, LeaveFile DEF Statuses
    <3>2. CASE ~Leave(s, "failed")
      <4>1. /\ queue[s] # <<>> /\ work[s].pc = "check"
            /\ UNCHANGED <<adapter, stored, requests, queue>>
            /\ \A t \in Servers \ {s} : work'[t] = work[t]
            /\ \/ work'[s].pc = "read" /\ work'[s].store = Resting.store
               \/ /\ work'[s].store = Mutated(requests[Current(s)].op,
                         requests[Current(s)].draft, Current(s), work[s].store)
                  /\ work'[s].pc = IF adapter = "filesystem" THEN "writeFile" ELSE "writeDrafts"
        BY <2>3, <3>2, CheckChanges
      <4>2. requests[Current(s)] \in Request /\ Current(s) \in Nat
        BY <4>1, CurrentRequest
      <4>3. work[s].store \in Stores
        BY DEF StoreType, Work
      <4>4. ASSUME adapter = "filesystem"
            PROVE  OnlyOf(work'[s].store, Done \cup (IF work'[s].pc = "writeFile" THEN {Current(s)} ELSE {}))
        <5>1. OnlyOf(work[s].store, Done)
          BY <4>1, <4>4 DEF FileInv, OnlyOf
        <5>2. OnlyOf(Mutated(requests[Current(s)].op, requests[Current(s)].draft, Current(s), work[s].store),
                     Done \cup {Current(s)})
          BY <4>2, <4>3, <5>1, OnlyOfMutated DEF Request
        <5> QED BY <4>1, <4>4, <5>2, OnlyOfResting
      <4> QED BY <4>1, <4>4, WorkFile
    <3> QED BY <3>1, <3>2
  <2>4. CASE WriteFile(s)
    <3>1. /\ queue[s] # <<>> /\ work[s].pc = "writeFile"
          /\ stored'.drafts = work[s].store.drafts /\ stored'.records = work[s].store.records
          /\ Leave(s, "done") /\ UNCHANGED adapter
      BY <2>4, WriteFileEffect
    <3>2. Done' = Done \cup {Current(s)}
      BY <3>1, LeaveDone DEF Statuses
    <3>3. adapter = "filesystem" => OnlyOf(stored', Done')
      BY <3>1, <3>2 DEF FileInv, OnlyOf
    <3> QED BY <3>1, <3>3, LeaveFile DEF Statuses
  <2>5. CASE WriteDrafts(s) \/ WriteRecords(s)
    <3>1. adapter # "filesystem"
      <4>1. work[s].pc \in {"writeDrafts", "writeRecords"}
        BY <2>5, WriteDraftsEffect, WriteRecordsEffect
      <4> QED BY <4>1 DEF QueueInv
    <3>2. UNCHANGED adapter
      BY <2>5, WriteDraftsEffect, WriteRecordsEffect
    <3> QED BY <3>1, <3>2 DEF FileInv
  <2>6. CASE FailWrite(s)
    <3>1. queue[s] # <<>> /\ Leave(s, "failed") /\ UNCHANGED <<adapter, stored>>
      BY <2>6, FailWriteEffect
    <3>2. Done' = Done
      BY <3>1, LeaveDone DEF Statuses
    <3>3. adapter = "filesystem" => OnlyOf(stored', Done')
      BY <3>1, <3>2 DEF FileInv
    <3> QED BY <3>1, <3>3, LeaveFile DEF Statuses
  <2> QED BY <1>1, RunCases, <2>1, <2>2, <2>3, <2>4, <2>5, <2>6
<1>2. ASSUME UNCHANGED adapter, Done \subseteq Done',
             adapter = "filesystem" => OnlyOf(stored', Done),
             \A t \in Servers :
               \/ work'[t] = Resting
               \/ work'[t] = work[t] /\ (work[t].pc = "writeFile" => Current(t)' = Current(t))
      PROVE  FileInv'
  <2> SUFFICES ASSUME adapter = "filesystem" PROVE FileInv!2'
    BY <1>2 DEF FileInv
  <2>1. OnlyOf(stored, Done)'
    BY <1>2, OnlyOfMore
  <2>2. ASSUME NEW t \in Servers
        PROVE  OnlyOf(work[t].store, Done \cup (IF work[t].pc = "writeFile" THEN {Current(t)} ELSE {}))'
    <3>1. CASE work'[t] = Resting
      BY <3>1, OnlyOfResting
    <3>2. CASE work'[t] = work[t] /\ (work[t].pc = "writeFile" => Current(t)' = Current(t))
      BY <3>2, <1>2 DEF FileInv, OnlyOf
    <3> QED BY <3>1, <3>2, <1>2
  <2> QED BY <2>1, <2>2
<1>3. ASSUME NEW s \in Servers, NEW op \in Ops, NEW d \in Drafts, Submit(s, op, d)
      PROVE  FileInv'
  <2>1. /\ StoreType' /\ Len(requests') = Len(requests) + 1
        /\ \A r \in Made : requests'[r] = requests[r]
        /\ \A t \in Servers : queue[t] # <<>> => Current(t)' = Current(t)
        /\ UNCHANGED <<adapter, stored, work>>
    BY <1>3, SubmitEffect DEF Current
  <2>2. Done \subseteq Done'
    <3>1. Len(requests) \in Nat
      BY DEF StoreType
    <3> QED BY <2>1, <3>1, DoneStays DEF Status
  <2>3. \A t \in Servers : work[t].pc = "writeFile" => queue[t] # <<>>
    BY DEF QueueInv, Resting
  <2> QED BY <1>2, <2>1, <2>2, <2>3 DEF FileInv
<1>4. ASSUME NEW s \in Servers, Crash(s) PROVE FileInv'
  <2>1. /\ StoreType' /\ Len(requests') = Len(requests) /\ work'[s] = Resting
        /\ \A q \in Made : requests[q].status = "done" => requests'[q].status = "done"
        /\ \A t \in Servers \ {s} : queue'[t] = queue[t] /\ work'[t] = work[t]
        /\ UNCHANGED <<adapter, stored>>
    BY <1>4, CrashEffect
  <2>2. Done \subseteq Done'
    <3>1. Len(requests) \in Nat
      BY DEF StoreType
    <3> QED BY <2>1, <3>1, DoneStays DEF Status
  <2>3. \A t \in Servers \ {s} : Current(t)' = Current(t)
    BY <2>1 DEF Current
  <2> QED BY <1>2, <2>1, <2>2, <2>3 DEF FileInv
<1>5. ASSUME NEW r \in Made, DeleteRows(r) PROVE FileInv'
  <2>1. /\ StoreType' /\ Len(requests') = Len(requests)
        /\ \A q \in Made : requests[q].status = "done" => requests'[q].status = "done"
        /\ stored'.drafts = Without(stored.drafts, requests[r].draft)
        /\ stored'.records = Without(stored.records, requests[r].draft)
        /\ UNCHANGED <<adapter, queue, work>>
    BY <1>5, DeleteRowsEffect
  <2>2. Done \subseteq Done'
    <3>1. Len(requests) \in Nat
      BY DEF StoreType
    <3> QED BY <2>1, <3>1, DoneStays DEF Status
  <2>3. adapter = "filesystem" => OnlyOf(stored', Done)
    BY <2>1 DEF FileInv, OnlyOf, Without
  <2> QED BY <1>2, <2>1, <2>2, <2>3 DEF Current
<1>6. ASSUME NEW r \in Made, FailDeleteRows(r) PROVE FileInv'
  <2>1. /\ StoreType' /\ Len(requests') = Len(requests)
        /\ \A q \in Made : requests[q].status = "done" => requests'[q].status = "done"
        /\ UNCHANGED <<adapter, stored, queue, work>>
    BY <1>6, FailDeleteRowsEffect
  <2>2. Done \subseteq Done'
    <3>1. Len(requests) \in Nat
      BY DEF StoreType
    <3> QED BY <2>1, <3>1, DoneStays DEF Status
  <2> QED BY <1>2, <2>1, <2>2 DEF Current, FileInv
<1>7. CASE UNCHANGED vars
  <2>1. Done' = Done /\ \A t \in Servers : Current(t)' = Current(t)
    BY <1>7 DEF vars, Done, Made, Status, Current
  <2> QED BY <1>2, <1>7, <2>1 DEF vars, FileInv
<1> QED BY <1>1, <1>3, <1>4, <1>5, <1>6, <1>7 DEF Next, Made

\* With the file, an update that failed has changed nothing: however many
\* processes write, what is renamed into place reflects no update but those that
\* were answered with success.
THEOREM FailureLeavesNoTraceHolds == Spec => []FailureLeavesNoTrace
<1>1. Init => FileInv
  <2> SUFFICES ASSUME Init PROVE FileInv
    OBVIOUS
  <2>1. OnlyOf(stored, Done)
    BY EmptyTable DEF Init, OnlyOf
  <2> QED BY <2>1, OnlyOfResting DEF Init, FileInv
<1>2. ASSUME FileInv PROVE FailureLeavesNoTrace
  <2> SUFFICES ASSUME adapter = "filesystem", NEW r \in Made, Status(r) = "failed", Reflected(r)
               PROVE  FALSE
    BY DEF FailureLeavesNoTrace
  <2>1. r \in Done
    BY <1>2, Zenon DEF FileInv, OnlyOf, Reflected
  <2> QED BY <2>1 DEF Done
<1>3. FileInv => FailureLeavesNoTrace
  BY <1>2
<1> QED BY InitQueue, NextQueue, <1>1, NextFile, <1>3, PTL DEF Spec

-----------------------------------------------------------------------------
\* A request that comes in is a new one.
LEMMA SubmitMade ==
  ASSUME StoreType, QueueInv, NEW s \in Servers, NEW op \in Ops, NEW d \in Drafts,
         Submit(s, op, d)
  PROVE  /\ Made' = Made \cup {Len(requests) + 1} /\ Len(requests) + 1 \notin Made
         /\ requests'[Len(requests) + 1]
              = [op |-> op, draft |-> d, server |-> s, status |-> "queued"]
         /\ \A q \in Made : requests'[q] = requests[q]
<1>1. PICK n \in Nat : n = Len(requests)
  BY DEF StoreType
<1>2. Made = 1..n /\ Len(requests') = n + 1
  BY <1>1, SubmitEffect DEF Made
<1>3. Made' = 1..(n + 1)
  BY <1>2 DEF Made
<1>4. Made' = Made \cup {n + 1} /\ n + 1 \notin Made
  BY <1>2, <1>3
<1> QED BY <1>1, <1>4, SubmitEffect

\* A request keeps what it asks for, and its success.
LEMMA RequestsStay ==
  ASSUME StoreType, QueueInv, [Next]_vars
  PROVE  /\ \/ Made' = Made
            \/ \E s \in Servers, op \in Ops, d \in Drafts : Submit(s, op, d)
         /\ Made \subseteq Made'
         /\ \A q \in Made :
              /\ requests'[q].op = requests[q].op
              /\ requests'[q].draft = requests[q].draft
              /\ requests'[q].server = requests[q].server
              /\ requests[q].status = "done" => requests'[q].status = "done"
<1> DEFINE Same ==
      /\ Made' = Made
      /\ \A q \in Made :
           /\ requests'[q].op = requests[q].op
           /\ requests'[q].draft = requests[q].draft
           /\ requests'[q].server = requests[q].server
           /\ requests[q].status = "done" => requests'[q].status = "done"
<1>1. ASSUME NEW s \in Servers, Run(s) PROVE Same
  <2>1. ASSUME NEW status \in Statuses, queue[s] # <<>>, Leave(s, status) PROVE Same
    <3>1. requests[Current(s)].status = "queued"
      BY <2>1, CurrentRequest
    <3> QED BY <2>1, <3>1, LeaveEffect DEF Made
  <2>2. CASE UNCHANGED requests
    BY <2>2 DEF Made
  <2>3. queue[s] # <<>>
    BY <1>1, RunCases DEF ReadFile, ReadTable, Check, WriteFile, WriteDrafts, WriteRecords, FailWrite, Running
  <2>4. UNCHANGED requests \/ \E status \in Statuses : Leave(s, status)
    <3>1. {"failed", "done", "deleting"} \subseteq Statuses
      BY DEF Statuses
    <3>2. WriteRecords(s) => Leave(s, "failed") \/ Leave(s, "done") \/ Leave(s, "deleting")
      BY DEF WriteRecords
    <3> QED BY <1>1, <3>1, <3>2, RunCases, CheckChanges
            DEF ReadFile, ReadTable, WriteFile, WriteDrafts, FailWrite
  <2> QED BY <2>1, <2>2, <2>3, <2>4
<1>2. ASSUME NEW s \in Servers, NEW op \in Ops, NEW d \in Drafts, Submit(s, op, d)
      PROVE  /\ Made \subseteq Made'
             /\ \A q \in Made : requests'[q] = requests[q]
  BY <1>2, SubmitMade
<1>3. ASSUME NEW s \in Servers, Crash(s) PROVE Same
  BY <1>3, CrashEffect DEF Made
<1>4. ASSUME NEW r \in Made, DeleteRows(r) PROVE Same
  BY <1>4, DeleteRowsEffect DEF Made
<1>5. ASSUME NEW r \in Made, FailDeleteRows(r) PROVE Same
  BY <1>5, FailDeleteRowsEffect DEF Made
<1>6. CASE UNCHANGED vars
  BY <1>6 DEF vars, Made
<1> QED BY <1>1, <1>2, <1>3, <1>4, <1>5, <1>6 DEF Next, Made

\* One server now was one server before.
LEMMA OneServerBefore ==
  ASSUME StoreType, QueueInv, [Next]_vars, OneServer'
  PROVE  OneServer
<1>1. /\ Made \subseteq Made'
      /\ \A q \in Made : requests'[q].server = requests[q].server
  BY RequestsStay
<1>2. \A r, q \in Made' : requests'[r].server = requests'[q].server
  BY DEF OneServer
<1> QED BY <1>1, <1>2 DEF OneServer

\* While it is so, no other server has anything to do.
LEMMA OthersRest ==
  ASSUME StoreType, QueueInv, OneServer, NEW s \in Servers, queue[s] # <<>>,
         NEW t \in Servers, t # s
  PROVE  queue[t] = <<>> /\ work[t] = Resting
<1>1. queue[t] = <<>>
  BY CurrentRequest DEF OneServer
<1> QED BY <1>1 DEF QueueInv

\* A draft is created by one request, and by none that another request of the
\* draft did not wait for; rows of drafts are deleted from tables only.
RequestInv ==
  /\ \A r \in Made : requests[r].op = "create" =>
       /\ requests[r].draft \notin Original
       /\ \A q \in Made : q # r /\ requests[q].draft = requests[r].draft => Status(r) = "done"
  /\ adapter = "filesystem" => \A r \in Made : Status(r) # "deleting"

LEMMA InitRequest == Init => RequestInv
BY DEF Init, RequestInv, Made

LEMMA NextRequest == StoreType /\ QueueInv /\ RequestInv /\ [Next]_vars => RequestInv'
<1> SUFFICES ASSUME StoreType, QueueInv, RequestInv, [Next]_vars PROVE RequestInv'
  OBVIOUS
<1>1. /\ \/ Made' = Made
         \/ \E s \in Servers, op \in Ops, d \in Drafts : Submit(s, op, d)
      /\ \A q \in Made :
           /\ requests'[q].op = requests[q].op
           /\ requests'[q].draft = requests[q].draft
           /\ requests[q].status = "done" => requests'[q].status = "done"
  BY RequestsStay
<1> DEFINE Alone(r) ==
      /\ requests'[r].draft \notin Original
      /\ \A q \in Made' : q # r /\ requests'[q].draft = requests'[r].draft =>
           requests'[r].status = "done"
<1>2. ASSUME NEW r \in Made', requests'[r].op = "create" PROVE Alone(r)
  <2>1. CASE Made' = Made
    BY <1>1, <1>2, <2>1 DEF RequestInv, Status
  <2>2. ASSUME NEW s \in Servers, NEW op \in Ops, NEW d \in Drafts, Submit(s, op, d)
        PROVE  Alone(r)
    <3> DEFINE n == Len(requests) + 1
    <3>1. /\ Made' = Made \cup {n} /\ n \notin Made
          /\ requests'[n].op = op /\ requests'[n].draft = d
          /\ \A q \in Made : requests'[q] = requests[q]
      <4>1. /\ Made' = Made \cup {n} /\ n \notin Made
            /\ requests'[n] = [op |-> op, draft |-> d, server |-> s, status |-> "queued"]
            /\ \A q \in Made : requests'[q] = requests[q]
        BY <2>2, SubmitMade
      <4> HIDE DEF n
      <4> QED BY <4>1
    <3> HIDE DEF n
    <3>2. CASE r = n
      <4>1. d \notin Original /\ \A q \in Made : requests[q].draft # d
        BY <1>2, <2>2, <3>1, <3>2 DEF Submit, Made
      <4> QED BY <3>1, <3>2, <4>1
    <3>3. CASE r # n
      <4>1. r \in Made /\ requests'[r] = requests[r] /\ requests[r].op = "create"
        BY <1>2, <3>1, <3>3
      <4>2. ASSUME d = requests[r].draft PROVE Status(r) = "done"
        <5>1. op # "create" /\ d \notin Original
          BY <2>2, <4>1, <4>2 DEF Submit, RequestInv, Made
        <5>2. PICK i \in Made :
                requests[i].op = "create" /\ requests[i].draft = d /\ requests[i].status = "done"
          BY <2>2, <5>1 DEF Submit, Made
        <5> QED BY <4>1, <4>2, <5>2 DEF RequestInv, Status
      <4> QED BY <3>1, <4>1, <4>2 DEF RequestInv, Status
    <3> QED BY <3>2, <3>3
  <2> QED BY <1>1, <2>1, <2>2
<1>3. ASSUME adapter' = "filesystem", NEW r \in Made' PROVE requests'[r].status # "deleting"
  <2>1. ASSUME NEW s \in Servers, NEW status \in Statuses, queue[s] # <<>>,
               Leave(s, status), status # "deleting", adapter = "filesystem"
        PROVE  requests'[r].status # "deleting"
    <3>1. r \in Made
      BY <2>1, LeaveEffect DEF Made
    <3> QED BY <2>1, <3>1, LeaveEffect DEF RequestInv, Status
  <2>2. CASE UNCHANGED <<adapter, requests>>
    BY <1>3, <2>2 DEF RequestInv, Status, Made
  <2>3. ASSUME NEW s \in Servers, Run(s) PROVE requests'[r].status # "deleting"
    <3>1. adapter = "filesystem"
      BY <1>3, <2>3, RunCases, CheckChanges
         DEF ReadFile, ReadTable, WriteFile, WriteDrafts, WriteRecords, FailWrite
    <3>2. ~WriteRecords(s)
      BY <3>1 DEF WriteRecords, Running, QueueInv
    <3>3. queue[s] # <<>>
      BY <2>3, RunCases DEF ReadFile, ReadTable, Check, WriteFile, WriteDrafts, WriteRecords, FailWrite, Running
    <3>4. UNCHANGED <<adapter, requests>> \/ Leave(s, "failed") \/ Leave(s, "done")
      BY <2>3, <3>2, RunCases, CheckChanges DEF ReadFile, ReadTable, WriteFile, WriteDrafts, FailWrite
    <3> QED BY <2>1, <2>2, <3>1, <3>3, <3>4 DEF Statuses
  <2>4. ASSUME NEW s \in Servers, NEW op \in Ops, NEW d \in Drafts, Submit(s, op, d)
        PROVE  requests'[r].status # "deleting"
    <3>1. /\ r \in Made => requests'[r] = requests[r]
          /\ r \notin Made => requests'[r].status = "queued"
          /\ UNCHANGED adapter
      <4>1. PICK n : /\ Made' = Made \cup {n}
                     /\ requests'[n] = [op |-> op, draft |-> d, server |-> s, status |-> "queued"]
                     /\ \A q \in Made : requests'[q] = requests[q]
        BY <2>4, SubmitMade
      <4> QED BY <2>4, <4>1, SubmitEffect
    <3> QED BY <1>3, <3>1 DEF RequestInv, Status
  <2>5. ASSUME NEW s \in Servers, Crash(s) PROVE requests'[r].status # "deleting"
    BY <1>3, <2>5, CrashEffect DEF RequestInv, Status, Made
  <2>6. ASSUME NEW q \in Made, DeleteRows(q) PROVE requests'[r].status # "deleting"
    BY <1>3, <2>6, DeleteRowsEffect DEF RequestInv, Status, Made
  <2>7. ASSUME NEW q \in Made, FailDeleteRows(q) PROVE requests'[r].status # "deleting"
    BY <1>3, <2>7, FailDeleteRowsEffect DEF RequestInv, Status, Made
  <2>8. CASE UNCHANGED vars
    BY <2>2, <2>8 DEF vars
  <2> QED BY <2>3, <2>4, <2>5, <2>6, <2>7, <2>8 DEF Next, Made
<1> QED BY <1>2, <1>3 DEF RequestInv, Status

-----------------------------------------------------------------------------
\* One server and the file.

\* What a running update has read is what is stored, and what it is about to
\* rename into place is that with its own change.
Exact(s) ==
  LET r == Current(s)
  IN /\ work[s].pc = "check" => work[s].store = stored
     /\ work[s].pc = "writeFile" =>
          /\ Admits(requests[r].op, requests[r].draft, stored)
          /\ work[s].store = Mutated(requests[r].op, requests[r].draft, r, stored)

Gone(d) ==
  \E q \in Made : requests[q].op = "delete" /\ Status(q) = "done" /\ requests[q].draft = d

\* No accepted update is missing, unless its draft was deleted.
Kept == \A r \in Done : requests[r].op # "delete" => Reflected(r) \/ Gone(requests[r].draft)

DeletedGone == \A r \in Done : requests[r].op = "delete" => requests[r].draft \notin DOMAIN stored.drafts

ExactInv ==
  OneServer /\ adapter = "filesystem" => (\A s \in Servers : Exact(s)) /\ Kept /\ DeletedGone

LEMMA InitExact == Init => ExactInv
<1> SUFFICES ASSUME Init PROVE ExactInv
  OBVIOUS
<1>1. \A s \in Servers : Exact(s)
  BY DEF Init, Exact, Resting
<1>2. Done = {}
  BY DEF Init, Done, Made
<1> QED BY <1>1, <1>2 DEF ExactInv, Kept, DeletedGone

\* A draft that is gone stays so.
LEMMA GoneStays ==
  ASSUME StoreType, QueueInv, [Next]_vars, NEW d, Gone(d)
  PROVE  Gone(d)'
<1>1. /\ Made \subseteq Made'
      /\ \A q \in Made :
           /\ requests'[q].op = requests[q].op
           /\ requests'[q].draft = requests[q].draft
           /\ requests[q].status = "done" => requests'[q].status = "done"
  BY RequestsStay
<1> QED BY <1>1 DEF Gone, Status

\* A step that accepts no update and does not write.
LEMMA QuietKept ==
  ASSUME StoreType, QueueInv, [Next]_vars, UNCHANGED stored, Done' = Done
  PROVE  (Kept => Kept') /\ (DeletedGone => DeletedGone')
<1>1. \A q \in Made :
        requests'[q].op = requests[q].op /\ requests'[q].draft = requests[q].draft
  BY RequestsStay
<1>2. \A r \in Done : r \in Made /\ Reflected(r)' = Reflected(r)
  BY <1>1 DEF Done, Reflected
<1>3. Kept => Kept'
  BY <1>1, <1>2, GoneStays DEF Kept
<1>4. DeletedGone => DeletedGone'
  BY <1>1, <1>2 DEF DeletedGone
<1> QED BY <1>3, <1>4

LEMMA ExactStays ==
  ASSUME StoreType, QueueInv, [Next]_vars, UNCHANGED stored, NEW s \in Servers, Exact(s),
         \/ work'[s].pc \notin {"check", "writeFile"}
         \/ work'[s] = work[s] /\ (queue[s] # <<>> => Current(s)' = Current(s))
  PROVE  Exact(s)'
<1>1. CASE work'[s].pc \notin {"check", "writeFile"}
  BY <1>1 DEF Exact
<1>2. CASE /\ work'[s] = work[s] /\ queue[s] # <<>> /\ Current(s)' = Current(s)
  <2>1. Current(s) \in Made
    BY <1>2, CurrentRequest
  <2>2. /\ requests'[Current(s)].op = requests[Current(s)].op
        /\ requests'[Current(s)].draft = requests[Current(s)].draft
    BY <2>1, RequestsStay
  <2> QED BY <1>2, <2>2 DEF Exact
<1>3. CASE work'[s] = work[s] /\ queue[s] = <<>>
  BY <1>3 DEF QueueInv, Exact, Resting
<1> QED BY <1>1, <1>2, <1>3

\* The rename of the running update, with nobody else at work.
LEMMA WriteFileExact ==
  ASSUME StoreType, QueueInv, RequestInv, ExactInv, OneServer, adapter = "filesystem",
         [Next]_vars, NEW s \in Servers, WriteFile(s)
  PROVE  (\A t \in Servers : Exact(t))' /\ Kept' /\ DeletedGone'
<1> DEFINE r == Current(s)
           op == requests[r].op
           d == requests[r].draft
<1>1. /\ queue[s] # <<>> /\ work[s].pc = "writeFile"
      /\ stored'.drafts = work[s].store.drafts /\ stored'.records = work[s].store.records
      /\ Leave(s, "done")
  BY WriteFileEffect
<1>2. /\ r \in Made /\ r \in Nat /\ requests[r].status = "queued"
      /\ op \in Ops /\ d \in Drafts /\ requests[r].server = s
  BY <1>1, CurrentRequest DEF Request
<1>3. /\ Admits(op, d, stored) /\ work[s].store = Mutated(op, d, r, stored)
      /\ Kept /\ DeletedGone
  BY <1>1 DEF ExactInv, Exact
<1>4. stored \in Stores /\ stored.drafts \in Tables /\ stored.records \in Tables
  BY DEF StoreType, Stores
<1>5. /\ op \in {"create", "save"} =>
           stored'.drafts = Adding(stored.drafts, d, r) /\ stored'.records = stored.records
      /\ op = "record" =>
           stored'.drafts = stored.drafts /\ stored'.records = Adding(stored.records, d, r)
      /\ op = "delete" =>
           stored'.drafts = Without(stored.drafts, d) /\ stored'.records = stored.records
  BY <1>1, <1>2, <1>3, <1>4, MutatedStore
<1>6. Done' = Done \cup {r} /\ r \notin Done
  BY <1>1, LeaveDone DEF Statuses
<1>7. /\ Made' = Made
      /\ \A q \in Made :
           requests'[q].op = requests[q].op /\ requests'[q].draft = requests[q].draft
      /\ requests'[r].status = "done"
  BY <1>1, <1>2, LeaveEffect DEF Made, Statuses
<1> HIDE DEF r, op, d
<1>a. \A u \in Tables :
        /\ DOMAIN Adding(u, d, r) = DOMAIN u \cup {d} /\ r \in Adding(u, d, r)[d]
        /\ \A e \in DOMAIN u : u[e] \subseteq Adding(u, d, r)[e]
        /\ DOMAIN Without(u, d) = DOMAIN u \ {d}
        /\ \A e \in DOMAIN u \ {d} : Without(u, d)[e] = u[e]
  BY <1>2, AddingTable, WithoutTable
<1>b. /\ op \in {"create", "save"} =>
           /\ DOMAIN stored'.drafts = DOMAIN stored.drafts \cup {d} /\ r \in stored'.drafts[d]
           /\ \A e \in DOMAIN stored.drafts : stored.drafts[e] \subseteq stored'.drafts[e]
           /\ stored'.records = stored.records
      /\ op = "record" =>
           /\ DOMAIN stored'.records = DOMAIN stored.records \cup {d} /\ r \in stored'.records[d]
           /\ \A e \in DOMAIN stored.records : stored.records[e] \subseteq stored'.records[e]
           /\ stored'.drafts = stored.drafts
      /\ op = "delete" =>
           /\ DOMAIN stored'.drafts = DOMAIN stored.drafts \ {d}
           /\ \A e \in DOMAIN stored.drafts \ {d} : stored'.drafts[e] = stored.drafts[e]
           /\ stored'.records = stored.records
  BY <1>4, <1>5, <1>a
<1>8. ASSUME NEW t \in Servers PROVE Exact(t)'
  <2>1. work'[t] = Resting
    BY <1>1, LeaveEffect, OthersRest DEF Statuses
  <2> QED BY <2>1 DEF Exact, Resting
<1>9. op = "delete" => \A e : e = d => Gone(e)'
  <2>1. requests'[r].op = op /\ requests'[r].draft = d /\ r \in Made'
    BY <1>2, <1>7 DEF op, d
  <2> QED BY <2>1, <1>7 DEF Gone, Status
<1>10. Kept'
  <2> SUFFICES ASSUME NEW q \in Done', requests'[q].op # "delete"
               PROVE  Reflected(q)' \/ Gone(requests[q].draft)'
    BY DEF Kept
  <2>1. CASE q = r
    <3>1. requests'[q].op = op /\ requests'[q].draft = d /\ op # "delete"
      BY <2>1, <1>2, <1>7 DEF op, d
    <3>2. /\ op \in {"create", "save"} => d \in DOMAIN stored'.drafts /\ r \in stored'.drafts[d]
          /\ op = "record" => d \in DOMAIN stored'.records /\ r \in stored'.records[d]
      BY <1>b
    <3> QED BY <2>1, <3>1, <3>2, <1>2 DEF Reflected, Ops
  <2>2. CASE q # r
    <3>1. q \in Done /\ q \in Made /\ requests[q].op # "delete" /\ requests[q] \in Request
      BY <2>2, <1>6, <1>7 DEF Done, StoreType, Made
    <3>2. CASE Gone(requests[q].draft)
      <4>1. Gone(requests[q].draft)'
        BY <3>2, <3>1, GoneStays, <1>7 DEF Gone
      <4> QED BY <4>1
    <3>3. CASE Reflected(q)
      <4>1. CASE op \in {"create", "save"}
        BY <4>1, <3>1, <3>3, <1>b, <1>7 DEF Reflected
      <4>2. CASE op = "record"
        BY <4>2, <3>1, <3>3, <1>b, <1>7 DEF Reflected
      <4>3. CASE op = "delete"
        <5>1. CASE requests[q].draft = d
          <6>1. Gone(requests[q].draft)'
            BY <4>3, <5>1, <3>1, <1>7, <1>9 DEF Gone
          <6> QED BY <6>1
        <5>2. CASE requests[q].draft # d
          BY <4>3, <5>2, <3>1, <3>3, <1>b, <1>7 DEF Reflected
        <5> QED BY <5>1, <5>2
      <4> QED BY <4>1, <4>2, <4>3, <1>2 DEF Ops
    <3> QED BY <3>1, <3>2, <3>3, <1>3 DEF Kept
  <2> QED BY <2>1, <2>2
<1>11. DeletedGone'
  <2> SUFFICES ASSUME NEW q \in Done', requests'[q].op = "delete",
                      requests'[q].draft \in DOMAIN stored'.drafts
               PROVE  FALSE
    BY DEF DeletedGone
  <2>1. CASE q = r
    <3>1. op = "delete" /\ requests'[q].draft = d
      BY <2>1, <1>2, <1>7 DEF op, d
    <3> QED BY <3>1, <1>b
  <2>2. CASE q # r
    <3>1. q \in Done /\ q \in Made /\ requests[q].op = "delete"
          /\ requests'[q].draft = requests[q].draft
          /\ requests[q].draft \notin DOMAIN stored.drafts
      BY <2>2, <1>3, <1>6, <1>7 DEF Done, DeletedGone
    <3>2. op \in {"create", "save"} /\ requests[q].draft = d
      BY <3>1, <1>2, <1>b DEF Ops
    <3>3. CASE op = "save"
      <4>1. d \in DOMAIN stored.drafts
        BY <3>3, <1>3, Zenon DEF Admits
      <4> QED BY <4>1, <3>1, <3>2
    <3>4. CASE op = "create"
      <4>1. requests[r].op = "create" /\ requests[r].draft = d
        BY <3>4 DEF op, d
      <4>2. Status(r) = "done"
        BY <4>1, <3>1, <3>2, <2>2, <1>2 DEF RequestInv
      <4> QED BY <4>2, <1>2 DEF Status
    <3> QED BY <3>2, <3>3, <3>4
  <2> QED BY <2>1, <2>2
<1> QED BY <1>8, <1>10, <1>11

\* A step that answers no request with success.
LEMMA SubmitDone ==
  ASSUME StoreType, QueueInv, NEW s \in Servers, NEW op \in Ops, NEW d \in Drafts,
         Submit(s, op, d)
  PROVE  Done' = Done
<1>1. PICK n : /\ Made' = Made \cup {n} /\ n \notin Made
               /\ requests'[n] = [op |-> op, draft |-> d, server |-> s, status |-> "queued"]
               /\ \A q \in Made : requests'[q] = requests[q]
  BY SubmitMade
<1> QED BY <1>1 DEF Done, Status

LEMMA CrashDone ==
  ASSUME StoreType, QueueInv, NEW s \in Servers, Crash(s)
  PROVE  Done' = Done
BY CrashEffect DEF Done, Status, Made

\* Every step keeps what one server and the file guarantee.
LEMMA NextExact ==
  StoreType /\ QueueInv /\ RequestInv /\ ExactInv /\ [Next]_vars => ExactInv'
<1> SUFFICES ASSUME StoreType, QueueInv, RequestInv, ExactInv, [Next]_vars,
                    OneServer', adapter' = "filesystem"
             PROVE  (\A t \in Servers : Exact(t))' /\ Kept' /\ DeletedGone'
  BY DEF ExactInv
<1>1. OneServer
  BY OneServerBefore
<1>2. adapter = "filesystem"
  BY DEF Next, Run, Submit, ReadFile, ReadTable, Check, WriteFile, WriteDrafts, WriteRecords,
         FailWrite, DeleteRows, FailDeleteRows, Crash, vars
<1>3. (\A t \in Servers : Exact(t)) /\ Kept /\ DeletedGone
  BY <1>1, <1>2 DEF ExactInv
<1> DEFINE Good == (\A t \in Servers : Exact(t))' /\ Kept' /\ DeletedGone'
<1>4. ASSUME UNCHANGED stored, Done' = Done,
             \A t \in Servers :
               \/ work'[t].pc \notin {"check", "writeFile"}
               \/ work'[t] = work[t] /\ (queue[t] # <<>> => Current(t)' = Current(t))
               \/ Exact(t)'
      PROVE  Good
  BY <1>3, <1>4, QuietKept, ExactStays
<1>5. Resting.pc = "read"
  BY DEF Resting
<1>6. ASSUME NEW s \in Servers, NEW status \in Statuses, queue[s] # <<>>, Leave(s, status),
             status # "done", UNCHANGED stored
      PROVE  Good
  <2>1. Done' = Done
    BY <1>6, LeaveDone
  <2>2. /\ work'[s] = Resting
        /\ \A t \in Servers \ {s} : queue'[t] = queue[t] /\ work'[t] = work[t]
    BY <1>6, LeaveEffect
  <2>3. \A t \in Servers \ {s} : Current(t)' = Current(t)
    BY <2>2 DEF Current
  <2> QED BY <1>4, <1>5, <1>6, <2>1, <2>2, <2>3
<1>7. ASSUME NEW s \in Servers, UNCHANGED <<stored, requests, queue>>,
             \A t \in Servers \ {s} : work'[t] = work[t],
             work'[s].pc \notin {"check", "writeFile"} \/ Exact(s)'
      PROVE  Good
  <2>1. Done' = Done /\ \A t \in Servers : Current(t)' = Current(t)
    BY <1>7 DEF Done, Made, Status, Current
  <2> QED BY <1>4, <1>7, <2>1
<1>8. ASSUME NEW s \in Servers, Run(s) PROVE Good
  <2>1. CASE ReadFile(s)
    <3>1. /\ \A t \in Servers \ {s} : work'[t] = work[t]
          /\ work'[s].store = stored /\ work'[s].pc = "check"
          /\ UNCHANGED <<adapter, stored, requests, queue>>
      BY <2>1, ReadFileEffect
    <3>2. Exact(s)'
      BY <3>1 DEF Exact
    <3> QED BY <1>7, <3>1, <3>2
  <2>2. CASE Check(s)
    <3>0. queue[s] # <<>> /\ work[s].pc = "check" /\ UNCHANGED stored
      BY <2>2, CheckChanges
    <3>1. CASE Leave(s, "failed")
      BY <3>0, <3>1, <1>6 DEF Statuses
    <3>2. CASE ~Leave(s, "failed")
      <4>1. /\ UNCHANGED <<stored, requests, queue>>
            /\ \A t \in Servers \ {s} : work'[t] = work[t]
            /\ \/ work'[s].pc = "read"
               \/ /\ Admits(requests[Current(s)].op, requests[Current(s)].draft, work[s].store)
                  /\ work'[s].store =
                       Mutated(requests[Current(s)].op, requests[Current(s)].draft, Current(s), work[s].store)
                  /\ work'[s].pc = "writeFile"
        BY <2>2, <3>2, <1>2, CheckChanges
      <4>2. work[s].store = stored
        BY <3>0, <1>3 DEF Exact
      <4>3. work'[s].pc = "read" \/ Exact(s)'
        BY <4>1, <4>2 DEF Exact, Current
      <4> QED BY <1>7, <4>1, <4>3
    <3> QED BY <3>1, <3>2
  <2>3. CASE WriteFile(s)
    BY <2>3, <1>1, <1>2, WriteFileExact
  <2>4. CASE FailWrite(s)
    BY <2>4, <1>6, FailWriteEffect DEF Statuses
  <2>5. ~ReadTable(s, "drafts") /\ ~ReadTable(s, "records") /\ ~WriteDrafts(s) /\ ~WriteRecords(s)
    BY <1>2 DEF ReadTable, WriteDrafts, WriteRecords, Running, QueueInv
  <2> QED BY <1>8, RunCases, <2>1, <2>2, <2>3, <2>4, <2>5
<1>9. ASSUME NEW s \in Servers, NEW op \in Ops, NEW d \in Drafts, Submit(s, op, d) PROVE Good
  BY <1>4, <1>9, SubmitEffect, SubmitDone DEF Current
<1>10. ASSUME NEW s \in Servers, Crash(s) PROVE Good
  <2>1. /\ work'[s] = Resting /\ UNCHANGED stored
        /\ \A t \in Servers \ {s} : queue'[t] = queue[t] /\ work'[t] = work[t]
    BY <1>10, CrashEffect
  <2>2. Done' = Done
    BY <1>10, CrashDone
  <2>3. \A t \in Servers \ {s} : Current(t)' = Current(t)
    BY <2>1 DEF Current
  <2> QED BY <1>4, <1>5, <2>1, <2>2, <2>3
<1>11. ASSUME NEW r \in Made, DeleteRows(r) \/ FailDeleteRows(r) PROVE FALSE
  BY <1>2, <1>11 DEF DeleteRows, FailDeleteRows, RequestInv, Status
<1>12. CASE UNCHANGED vars
  <2>1. /\ UNCHANGED stored /\ Done' = Done
        /\ \A t \in Servers : work'[t] = work[t] /\ Current(t)' = Current(t)
    BY <1>12 DEF vars, Done, Made, Status, Current
  <2> QED BY <1>4, <2>1
<1> QED BY <1>8, <1>9, <1>10, <1>11, <1>12 DEF Next, Made

\* In one process and with the file, a draft that was deleted does not come back
\* with somebody's older copy of the store.
THEOREM DeletedStaysDeletedHolds == Spec => []DeletedStaysDeleted
<1>1. ExactInv => DeletedStaysDeleted
  BY DEF ExactInv, DeletedGone, DeletedStaysDeleted, Done
<1> QED BY InitQueue, NextQueue, InitRequest, NextRequest, InitExact, NextExact, <1>1, PTL DEF Spec

\* In one process and with the file, no draft is deleted that a payment attempt
\* or chain evidence refers to, although a delete looks before it queues.
THEOREM OneServerSparesPaymentsHolds == Spec => OneServerSparesPayments
<1>1. ASSUME StoreType, QueueInv, RequestInv, ExactInv, [Next]_vars,
             OneServer, adapter = "filesystem",
             NEW d \in DOMAIN stored.drafts \cap DOMAIN stored.records
      PROVE  d \in DOMAIN stored'.drafts
  <2>1. ASSUME NEW s \in Servers, WriteFile(s) PROVE d \in DOMAIN stored'.drafts
    <3> DEFINE r == Current(s)
               op == requests[r].op
               e == requests[r].draft
    <3>1. queue[s] # <<>> /\ work[s].pc = "writeFile" /\ stored'.drafts = work[s].store.drafts
      BY <1>1, <2>1, WriteFileEffect
    <3>2. Admits(op, e, stored) /\ work[s].store = Mutated(op, e, r, stored)
      BY <1>1, <3>1 DEF ExactInv, Exact
    <3>3. r \in Nat /\ op \in Ops /\ e \in Drafts
      BY <1>1, <3>1, CurrentRequest DEF Request
    <3>4. stored \in Stores /\ stored.drafts \in Tables
      BY <1>1 DEF StoreType, Stores
    <3> HIDE DEF r, op, e
    <3>5. /\ op \in {"create", "save"} => stored'.drafts = Adding(stored.drafts, e, r)
          /\ op = "record" => stored'.drafts = stored.drafts
          /\ op = "delete" => stored'.drafts = Without(stored.drafts, e)
      BY <3>1, <3>2, <3>3, <3>4, MutatedStore
    <3>6. op = "delete" => e \notin DOMAIN stored.records
      <4>1. op = "delete" => Deletable(stored, e)
        BY <3>2 DEF Admits
      <4> QED BY <4>1 DEF Deletable
    <3>7. DOMAIN Adding(stored.drafts, e, r) = DOMAIN stored.drafts \cup {e}
          /\ DOMAIN Without(stored.drafts, e) = DOMAIN stored.drafts \ {e}
      BY <3>3, <3>4, AddingTable, WithoutTable
    <3> QED BY <3>3, <3>5, <3>6, <3>7 DEF Ops
  <2>2. ASSUME NEW s \in Servers, Run(s), ~WriteFile(s) PROVE UNCHANGED stored
    <3>1. ~WriteDrafts(s) /\ ~WriteRecords(s)
      BY <1>1 DEF WriteDrafts, WriteRecords, Running, QueueInv
    <3> QED BY <2>2, <3>1, RunCases
            DEF ReadFile, ReadTable, Check, FailWrite, AfterFailedWrite
  <2>3. ASSUME NEW r \in Made, DeleteRows(r) \/ FailDeleteRows(r) PROVE FALSE
    BY <1>1, <2>3 DEF DeleteRows, FailDeleteRows, RequestInv, Status
  <2>4. UNCHANGED stored \/ \E s \in Servers : WriteFile(s)
    BY <1>1, <2>2, <2>3 DEF Next, Made, Submit, Crash, vars
  <2> QED BY <2>1, <2>4
<1>2. StoreType /\ QueueInv /\ RequestInv /\ ExactInv /\ [Next]_vars =>
        [OneServer /\ adapter = "filesystem" =>
           \A d \in DOMAIN stored.drafts \cap DOMAIN stored.records :
             d \in DOMAIN stored'.drafts]_vars
  BY <1>1
<1> QED BY InitQueue, NextQueue, InitRequest, NextRequest, InitExact, NextExact, <1>2, PTL
        DEF Spec, OneServerSparesPayments

-----------------------------------------------------------------------------
\* One server and the tables.

Covers(u, t) == \A e \in DOMAIN t : e \in DOMAIN u /\ t[e] \subseteq u[e]

\* What a running update has read is no older than what is stored: rows leave
\* the tables behind its back, but none are added.
Ahead(s) ==
  LET r == Current(s)
      op == requests[r].op
      d == requests[r].draft
      memory == work[s].store
      step == work[s].pc
  IN /\ "drafts" \in work[s].have /\ step \in {"read", "check"} =>
          Covers(memory.drafts, stored.drafts)
     /\ "records" \in work[s].have => Covers(memory.records, stored.records)
     /\ step = "writeDrafts" =>
          /\ \A e \in DOMAIN stored.drafts \cap DOMAIN memory.drafts :
               stored.drafts[e] \subseteq memory.drafts[e]
          /\ op \in {"create", "save"} => d \in DOMAIN memory.drafts /\ r \in memory.drafts[d]
     /\ step \in {"writeDrafts", "writeRecords"} /\ op = "record" =>
          d \in DOMAIN memory.records /\ r \in memory.records[d]
     /\ step = "writeRecords" /\ op \in {"create", "save"} =>
          (d \in DOMAIN stored.drafts /\ r \in stored.drafts[d]) \/ Gone(d)

AheadInv ==
  OneServer /\ adapter = "supabase" => (\A s \in Servers : queue[s] # <<>> => Ahead(s)) /\ Kept

LEMMA InitAhead == Init => AheadInv
<1> SUFFICES ASSUME Init PROVE AheadInv
  OBVIOUS
<1>1. \A s \in Servers : queue[s] = <<>>
  BY DEF Init
<1>2. Done = {}
  BY DEF Init, Done, Made
<1> QED BY <1>1, <1>2 DEF AheadInv, Kept

\* An update that has read nothing is ahead.
LEMMA RestingAhead ==
  ASSUME NEW s, work'[s].pc = "read", work'[s].have = {}
  PROVE  Ahead(s)'
BY DEF Ahead

\* Tables that only lose drafts that are gone.
LEMMA AheadStays ==
  ASSUME StoreType, QueueInv, [Next]_vars, NEW s \in Servers, queue[s] # <<>>, Ahead(s),
         UNCHANGED adapter, adapter = "supabase",
         work'[s] = work[s], Current(s)' = Current(s),
         \A e \in DOMAIN stored'.drafts : e \in DOMAIN stored.drafts /\ stored'.drafts[e] = stored.drafts[e],
         \A e \in DOMAIN stored'.records : e \in DOMAIN stored.records /\ stored'.records[e] = stored.records[e],
         \A e \in DOMAIN stored.drafts : e \in DOMAIN stored'.drafts \/ Gone(e)'
  PROVE  Ahead(s)'
<1> DEFINE r == Current(s)
           op == requests[r].op
           d == requests[r].draft
<1>1. r \in Made
  BY CurrentRequest
<1>2. requests'[Current(s)'].op = op /\ requests'[Current(s)'].draft = d
  BY <1>1, RequestsStay
<1>3. \A e : Gone(e) => Gone(e)'
  BY GoneStays
<1>4. "drafts" \in work[s].have /\ work[s].pc \in {"read", "check"} =>
        Covers(work[s].store.drafts, stored'.drafts)
  BY DEF Ahead, Covers
<1>5. "records" \in work[s].have => Covers(work[s].store.records, stored'.records)
  BY DEF Ahead, Covers
<1>6. work[s].pc = "writeDrafts" =>
        /\ \A e \in DOMAIN stored'.drafts \cap DOMAIN work[s].store.drafts :
             stored'.drafts[e] \subseteq work[s].store.drafts[e]
        /\ op \in {"create", "save"} =>
             d \in DOMAIN work[s].store.drafts /\ r \in work[s].store.drafts[d]
  BY DEF Ahead
<1>7. work[s].pc \in {"writeDrafts", "writeRecords"} /\ op = "record" =>
        d \in DOMAIN work[s].store.records /\ r \in work[s].store.records[d]
  BY DEF Ahead
<1>8. work[s].pc = "writeRecords" /\ op \in {"create", "save"} =>
        (d \in DOMAIN stored.drafts /\ r \in stored.drafts[d]) \/ Gone(d)
  BY DEF Ahead
<1>9. PICK c : c = d
  OBVIOUS
<1>10. work[s].pc = "writeRecords" /\ op \in {"create", "save"} =>
         (c \in DOMAIN stored'.drafts /\ r \in stored'.drafts[c]) \/ Gone(c)'
  BY <1>3, <1>8, <1>9
<1>11. requests'[Current(s)'].draft = c
  BY <1>2, <1>9
<1>12. work[s].pc = "writeRecords" /\ op \in {"create", "save"} =>
         \/ (requests[Current(s)].draft \in DOMAIN stored.drafts /\ Current(s) \in stored.drafts[requests[Current(s)].draft])'
         \/ Gone(requests[Current(s)].draft)'
  BY <1>10, <1>11
<1> HIDE DEF op, d, r
<1> QED BY <1>2, <1>4, <1>5, <1>6, <1>7, <1>12 DEF Ahead, r

\* Reading a table brings memory up to date with it.
LEMMA ReadTableAhead ==
  ASSUME StoreType, QueueInv, NEW s \in Servers, Ahead(s),
         NEW table \in {"drafts", "records"}, ReadTable(s, table)
  PROVE  Ahead(s)'
<1>1. /\ work'[s].store.drafts = IF table = "drafts" THEN stored.drafts ELSE work[s].store.drafts
      /\ work'[s].store.records = IF table = "records" THEN stored.records ELSE work[s].store.records
      /\ work'[s].have = work[s].have \cup {table}
      /\ work[s].pc = "read" /\ work'[s].pc \in {"read", "check"}
      /\ UNCHANGED stored
  BY ReadTableEffect
<1>2. /\ "drafts" \in work[s].have => Covers(work[s].store.drafts, stored.drafts)
      /\ "records" \in work[s].have => Covers(work[s].store.records, stored.records)
  BY <1>1 DEF Ahead
<1>3. Covers(stored.drafts, stored.drafts) /\ Covers(stored.records, stored.records)
  BY DEF Covers
<1>4. /\ "drafts" \in work'[s].have => Covers(work'[s].store.drafts, stored'.drafts)
      /\ "records" \in work'[s].have => Covers(work'[s].store.records, stored'.records)
  BY <1>1, <1>2, <1>3
<1> QED BY <1>1, <1>4 DEF Ahead

\* The change of memory keeps it ahead and adds the update.
LEMMA CheckAhead ==
  ASSUME StoreType, QueueInv, NEW s \in Servers, queue[s] # <<>>, Ahead(s),
         adapter = "supabase", work[s].pc = "check",
         UNCHANGED <<stored, requests, queue>>,
         work'[s].store =
           Mutated(requests[Current(s)].op, requests[Current(s)].draft, Current(s), work[s].store),
         work'[s].have = work[s].have, work'[s].pc = "writeDrafts"
  PROVE  Ahead(s)'
<1>1. PICK r, op, d : r = Current(s) /\ op = requests[r].op /\ d = requests[r].draft
  OBVIOUS
<1>2. r \in Nat /\ op \in Ops /\ d \in Drafts
  BY <1>1, CurrentRequest DEF Request
<1>3. Current(s)' = r /\ requests'[r].op = op /\ requests'[r].draft = d
  BY <1>1 DEF Current
<1>4. PICK old \in Stores : old = work[s].store
  BY DEF StoreType, Work
<1>5. PICK new : new = work'[s].store
  OBVIOUS
<1>6. /\ op \in {"create", "save"} =>
           new.drafts = Adding(old.drafts, d, r) /\ new.records = old.records
      /\ op = "record" =>
           new.drafts = old.drafts /\ new.records = Adding(old.records, d, r)
      /\ op = "delete" =>
           new.drafts = Without(old.drafts, d) /\ new.records = old.records
  BY <1>1, <1>2, <1>4, <1>5, MutatedStore
<1>7. \A u \in Tables :
        /\ DOMAIN Adding(u, d, r) = DOMAIN u \cup {d} /\ r \in Adding(u, d, r)[d]
        /\ \A e \in DOMAIN u : u[e] \subseteq Adding(u, d, r)[e]
        /\ DOMAIN Without(u, d) = DOMAIN u \ {d}
        /\ \A e \in DOMAIN u \ {d} : Without(u, d)[e] = u[e]
  BY <1>2, AddingTable, WithoutTable
<1>8. old.drafts \in Tables /\ old.records \in Tables
  BY <1>4 DEF Stores
<1>9. Covers(old.drafts, stored.drafts) /\ Covers(old.records, stored.records)
  <2>1. work[s].have = {"drafts", "records"}
    BY DEF QueueInv
  <2> QED BY <2>1, <1>4 DEF Ahead
<1>10. Covers(new.records, stored.records)
  BY <1>2, <1>6, <1>7, <1>8, <1>9 DEF Covers, Ops
<1>11. \A e \in DOMAIN stored.drafts \cap DOMAIN new.drafts : stored.drafts[e] \subseteq new.drafts[e]
  <2> SUFFICES ASSUME NEW e \in DOMAIN stored.drafts, e \in DOMAIN new.drafts
               PROVE  stored.drafts[e] \subseteq new.drafts[e]
    OBVIOUS
  <2>1. e \in DOMAIN old.drafts /\ stored.drafts[e] \subseteq old.drafts[e]
    BY <1>9 DEF Covers
  <2>2. CASE op \in {"create", "save"}
    BY <2>1, <2>2, <1>6, <1>7, <1>8
  <2>3. CASE op = "record"
    BY <2>1, <2>3, <1>6
  <2>4. CASE op = "delete"
    <3>1. new.drafts = Without(old.drafts, d)
      BY <2>4, <1>6
    <3>2. e \in DOMAIN old.drafts \ {d}
      BY <3>1, <1>7, <1>8
    <3>3. new.drafts[e] = old.drafts[e]
      BY <3>1, <3>2, <1>7, <1>8
    <3> QED BY <2>1, <3>3
  <2> QED BY <2>2, <2>3, <2>4, <1>2 DEF Ops
<1>12. op \in {"create", "save"} => d \in DOMAIN new.drafts /\ r \in new.drafts[d]
  BY <1>6, <1>7, <1>8
<1>13. op = "record" => d \in DOMAIN new.records /\ r \in new.records[d]
  BY <1>6, <1>7, <1>8
<1> QED BY <1>3, <1>5, <1>10, <1>11, <1>12, <1>13 DEF Ahead

\* The drafts are stored with what they reflected, and with the update.
LEMMA WriteDraftsAhead ==
  ASSUME StoreType, QueueInv, NEW s \in Servers, Ahead(s), WriteDrafts(s)
  PROVE  /\ Ahead(s)'
         /\ \A e \in DOMAIN stored.drafts :
              e \in DOMAIN stored'.drafts /\ stored.drafts[e] \subseteq stored'.drafts[e]
<1>1. /\ queue[s] # <<>> /\ work[s].pc = "writeDrafts"
      /\ stored'.drafts = Upserted(stored.drafts, work[s].store.drafts)
      /\ stored'.records = stored.records
      /\ work'[s].pc = "writeRecords" /\ work'[s].store = work[s].store
      /\ work'[s].have = work[s].have
      /\ UNCHANGED <<adapter, requests, queue>>
  BY WriteDraftsEffect
<1>2. stored.drafts \in Tables /\ work[s].store.drafts \in Tables
  BY DEF StoreType, Work, Stores
<1>3. PICK r, op, d : r = Current(s) /\ op = requests[r].op /\ d = requests[r].draft
  OBVIOUS
<1>4. Current(s)' = r /\ requests'[r].op = op /\ requests'[r].draft = d
  BY <1>1, <1>3 DEF Current
<1>5. PICK old, new, mine :
        old = stored.drafts /\ new = stored'.drafts /\ mine = work[s].store.drafts
  OBVIOUS
<1>6. /\ DOMAIN new = DOMAIN old \cup DOMAIN mine
      /\ \A e \in DOMAIN mine : new[e] = mine[e]
      /\ \A e \in DOMAIN old \ DOMAIN mine : new[e] = old[e]
  <2>1. old \in Tables /\ mine \in Tables /\ new = Upserted(old, mine)
    BY <1>1, <1>2, <1>5
  <2> QED BY <2>1, UpsertedTable
<1>7. /\ \A e \in DOMAIN old \cap DOMAIN mine : old[e] \subseteq mine[e]
      /\ op \in {"create", "save"} => d \in DOMAIN mine /\ r \in mine[d]
      /\ "records" \in work[s].have => Covers(work[s].store.records, stored.records)
      /\ op = "record" => d \in DOMAIN work[s].store.records /\ r \in work[s].store.records[d]
  BY <1>1, <1>3, <1>5 DEF Ahead
<1>8. \A e \in DOMAIN old : e \in DOMAIN new /\ old[e] \subseteq new[e]
  BY <1>6, <1>7
<1>9. op \in {"create", "save"} => d \in DOMAIN new /\ r \in new[d]
  BY <1>6, <1>7
<1>10. Ahead(s)'
  BY <1>1, <1>4, <1>5, <1>7, <1>9 DEF Ahead
<1> QED BY <1>5, <1>8, <1>10

\* Once the records are stored too, the update is all there.
LEMMA WriteRecordsAhead ==
  ASSUME StoreType, QueueInv, NEW s \in Servers, Ahead(s), WriteRecords(s),
         adapter = "supabase", ~Leave(s, "failed")
  PROVE  /\ \A e \in DOMAIN stored.records :
              e \in DOMAIN stored'.records /\ stored.records[e] \subseteq stored'.records[e]
         /\ requests[Current(s)].op # "delete" =>
              \/ /\ requests[Current(s)].op = "record"
                 /\ requests[Current(s)].draft \in DOMAIN stored'.records
                 /\ Current(s) \in stored'.records[requests[Current(s)].draft]
              \/ /\ requests[Current(s)].op # "record"
                 /\ \/ /\ requests[Current(s)].draft \in DOMAIN stored.drafts
                       /\ Current(s) \in stored.drafts[requests[Current(s)].draft]
                    \/ Gone(requests[Current(s)].draft)
<1>1. /\ queue[s] # <<>> /\ work[s].pc = "writeRecords"
      /\ stored'.records = Upserted(stored.records, work[s].store.records)
  BY WriteRecordsEffect
<1>2. stored.records \in Tables /\ work[s].store.records \in Tables
  BY DEF StoreType, Work, Stores
<1>3. PICK r, op, d : r = Current(s) /\ op = requests[r].op /\ d = requests[r].draft
  OBVIOUS
<1>4. op \in Ops
  BY <1>1, <1>3, CurrentRequest DEF Request
<1>5. PICK old, new, mine :
        old = stored.records /\ new = stored'.records /\ mine = work[s].store.records
  OBVIOUS
<1>6. /\ DOMAIN new = DOMAIN old \cup DOMAIN mine
      /\ \A e \in DOMAIN mine : new[e] = mine[e]
      /\ \A e \in DOMAIN old \ DOMAIN mine : new[e] = old[e]
  <2>1. old \in Tables /\ mine \in Tables /\ new = Upserted(old, mine)
    BY <1>1, <1>2, <1>5
  <2> QED BY <2>1, UpsertedTable
<1>7. Covers(mine, old)
  <2>1. work[s].have = {"drafts", "records"}
    BY <1>1 DEF QueueInv
  <2> QED BY <2>1, <1>5 DEF Ahead
<1>8. /\ op = "record" => d \in DOMAIN mine /\ r \in mine[d]
      /\ op \in {"create", "save"} =>
           (d \in DOMAIN stored.drafts /\ r \in stored.drafts[d]) \/ Gone(d)
  BY <1>1, <1>3, <1>5 DEF Ahead
<1>9. \A e \in DOMAIN old : e \in DOMAIN new /\ old[e] \subseteq new[e]
  BY <1>6, <1>7 DEF Covers
<1>10. op = "record" => d \in DOMAIN new /\ r \in new[d]
  BY <1>6, <1>8
<1> QED BY <1>3, <1>4, <1>5, <1>8, <1>9, <1>10 DEF Ops

\* Only a delete has rows left to delete.
DeletesWait == \A r \in Made : Status(r) = "deleting" => requests[r].op = "delete"

\* Every step keeps that.
LEMMA NextDeletes == StoreType /\ QueueInv /\ DeletesWait /\ [Next]_vars => DeletesWait'
<1> SUFFICES ASSUME StoreType, QueueInv, DeletesWait, [Next]_vars,
                    NEW r \in Made', requests'[r].status = "deleting"
             PROVE  requests'[r].op = "delete"
  BY DEF DeletesWait, Status
<1>1. \A q \in Made : requests'[q].op = requests[q].op
  BY RequestsStay
<1>2. r \in Made => (requests[r].status # "deleting" => requests'[r].op = "delete")
  <2> SUFFICES ASSUME r \in Made, requests[r].status # "deleting" PROVE requests[r].op = "delete"
    BY <1>1
  <2>1. ASSUME NEW s \in Servers, queue[s] # <<>>, NEW status \in Statuses, Leave(s, status),
               status = "deleting" => requests[Current(s)].op = "delete"
        PROVE  requests[r].op = "delete"
    BY <2>1, LeaveEffect
  <2>2. ASSUME NEW s \in Servers, Run(s) PROVE requests[r].op = "delete"
    <3>1. queue[s] # <<>>
      BY <2>2, RunCases DEF ReadFile, ReadTable, Check, WriteFile, WriteDrafts, WriteRecords, FailWrite, Running
    <3>2. CASE WriteRecords(s)
      BY <2>1, <3>1, <3>2, WriteRecordsEffect DEF Statuses
    <3>3. CASE ~WriteRecords(s)
      <4>1. UNCHANGED requests \/ Leave(s, "failed") \/ Leave(s, "done")
        BY <2>2, <3>3, RunCases, CheckChanges DEF ReadFile, ReadTable, WriteFile, WriteDrafts, FailWrite
      <4> QED BY <2>1, <3>1, <4>1 DEF Statuses
    <3> QED BY <3>2, <3>3
  <2>3. ASSUME NEW s \in Servers, NEW op \in Ops, NEW d \in Drafts, Submit(s, op, d) PROVE FALSE
    BY <2>3, SubmitEffect
  <2>4. ASSUME NEW s \in Servers, Crash(s) PROVE FALSE
    BY <2>4, CrashEffect
  <2>5. ASSUME NEW q \in Made, DeleteRows(q) PROVE FALSE
    BY <2>5, DeleteRowsEffect
  <2>6. ASSUME NEW q \in Made, FailDeleteRows(q) PROVE FALSE
    BY <2>6, FailDeleteRowsEffect
  <2>7. ~UNCHANGED vars
    BY DEF vars
  <2> QED BY <2>2, <2>3, <2>4, <2>5, <2>6, <2>7 DEF Next, Made
<1>3. r \notin Made => FALSE
  <2> SUFFICES ASSUME r \notin Made PROVE FALSE
    OBVIOUS
  <2>1. PICK s \in Servers, op \in Ops, d \in Drafts : Submit(s, op, d)
    BY RequestsStay
  <2>2. PICK n : Made' = Made \cup {n} /\ requests'[n].status = "queued"
    <3>1. PICK n : /\ Made' = Made \cup {n}
                   /\ requests'[n] = [op |-> op, draft |-> d, server |-> s, status |-> "queued"]
      BY <2>1, SubmitMade
    <3> QED BY <3>1
  <2> QED BY <2>2
<1> QED BY <1>1, <1>2, <1>3 DEF DeletesWait, Status

\* Tables that lose only drafts that are gone keep what was accepted before.
LEMMA KeptGrows ==
  ASSUME StoreType, QueueInv, [Next]_vars, Kept,
         \A e \in DOMAIN stored.drafts :
           (e \in DOMAIN stored'.drafts /\ stored.drafts[e] \subseteq stored'.drafts[e]) \/ Gone(e)',
         \A e \in DOMAIN stored.records :
           (e \in DOMAIN stored'.records /\ stored.records[e] \subseteq stored'.records[e]) \/ Gone(e)',
         \A r \in Done' \ Done : \A e :
           requests'[r].op # "delete" /\ requests'[r].draft = e => Reflected(r)' \/ Gone(e)'
  PROVE  Kept'
<1>1. \A q \in Made :
        requests'[q].op = requests[q].op /\ requests'[q].draft = requests[q].draft
  BY RequestsStay
<1>2. ASSUME NEW r \in Done, NEW e, requests[r].op # "delete", e = requests[r].draft
      PROVE  Reflected(r)' \/ Gone(e)'
  <2>0. r \in Made
    BY DEF Done
  <2>1. CASE Gone(e)
    BY <2>1, GoneStays
  <2>2. CASE Reflected(r)
    <3>1. CASE requests[r].op = "record"
      BY <1>1, <1>2, <2>0, <2>2, <3>1 DEF Reflected
    <3>2. CASE requests[r].op # "record"
      BY <1>1, <1>2, <2>0, <2>2, <3>2 DEF Reflected
    <3> QED BY <3>1, <3>2
  <2> QED BY <1>2, <2>1, <2>2 DEF Kept
<1>3. \A r \in Done : requests'[r].op = requests[r].op /\ requests'[r].draft = requests[r].draft
  BY <1>1 DEF Done
<1>4. ASSUME NEW r \in Done', NEW e, requests'[r].op # "delete", e = requests'[r].draft
      PROVE  Reflected(r)' \/ Gone(e)'
  BY <1>2, <1>3, <1>4
<1>5. ASSUME NEW r \in Done', requests'[r].op # "delete"
      PROVE  Reflected(r)' \/ Gone(requests[r].draft)'
  <2>1. PICK e : e = requests'[r].draft
    OBVIOUS
  <2> QED BY <1>4, <1>5, <2>1
<1> QED BY <1>5 DEF Kept

\* The records of an update, stored, make it an accepted one.
LEMMA WriteRecordsKept ==
  ASSUME StoreType, QueueInv, [Next]_vars, Kept, NEW s \in Servers, Ahead(s), WriteRecords(s),
         adapter = "supabase"
  PROVE  Kept'
<1>1. /\ queue[s] # <<>> /\ stored'.drafts = stored.drafts
      /\ \/ Leave(s, IF requests[Current(s)].op = "delete" THEN "deleting" ELSE "done")
         \/ stored' = stored /\ Leave(s, "failed")
  BY WriteRecordsEffect
<1>2. CASE Leave(s, "failed")
  <2>1. Done' = Done
    BY <1>1, <1>2, LeaveDone DEF Statuses
  <2>2. stored' = stored
    <3>1. Current(s) \in Made /\ requests'[Current(s)].status = "failed"
      BY <1>1, <1>2, CurrentRequest, LeaveEffect DEF Statuses
    <3>2. ~Leave(s, "done") /\ ~Leave(s, "deleting")
      BY <1>1, <3>1, LeaveEffect DEF Statuses
    <3> QED BY <1>1, <3>2
  <2> QED BY <2>1, <2>2, QuietKept
<1>3. CASE ~Leave(s, "failed")
  <2>1. PICK r, op, d : r = Current(s) /\ op = requests[r].op /\ d = requests[r].draft
    OBVIOUS
  <2>2. r \in Made /\ op \in Ops
    BY <1>1, <2>1, CurrentRequest DEF Request
  <2>3. requests'[r].op = op /\ requests'[r].draft = d
    BY <2>1, <2>2, RequestsStay
  <2>4. /\ \A e \in DOMAIN stored.records :
             e \in DOMAIN stored'.records /\ stored.records[e] \subseteq stored'.records[e]
        /\ op # "delete" =>
             \/ op = "record" /\ d \in DOMAIN stored'.records /\ r \in stored'.records[d]
             \/ op # "record" /\ ((d \in DOMAIN stored.drafts /\ r \in stored.drafts[d]) \/ Gone(d))
    BY <1>3, <2>1, WriteRecordsAhead
  <2>5. Done' \subseteq Done \cup {r}
    BY <1>1, <1>3, <2>1, LeaveDone DEF Statuses
  <2>6. op # "delete" => Reflected(r)' \/ Gone(d)'
    BY <1>1, <2>3, <2>4, GoneStays DEF Reflected
  <2>7. \A q \in Done' \ Done : \A e :
          requests'[q].op # "delete" /\ requests'[q].draft = e => Reflected(q)' \/ Gone(e)'
    BY <2>3, <2>5, <2>6
  <2> QED BY <1>1, <2>4, <2>7, KeptGrows
<1> QED BY <1>2, <1>3

\* Every step keeps what one server and the tables guarantee.
LEMMA NextAhead ==
  StoreType /\ QueueInv /\ DeletesWait /\ AheadInv /\ [Next]_vars => AheadInv'
<1> SUFFICES ASSUME StoreType, QueueInv, DeletesWait, AheadInv, [Next]_vars,
                    OneServer', adapter' = "supabase"
             PROVE  (\A t \in Servers : queue[t] # <<>> => Ahead(t))' /\ Kept'
  BY DEF AheadInv
<1>1. OneServer
  BY OneServerBefore
<1>2. adapter = "supabase"
  BY DEF Next, Run, Submit, ReadFile, ReadTable, Check, WriteFile, WriteDrafts, WriteRecords,
         FailWrite, DeleteRows, FailDeleteRows, Crash, vars
<1>3. (\A t \in Servers : queue[t] # <<>> => Ahead(t)) /\ Kept
  BY <1>1, <1>2 DEF AheadInv
<1> DEFINE Good == (\A t \in Servers : queue[t] # <<>> => Ahead(t))' /\ Kept'
<1>4. Resting.pc = "read" /\ Resting.have = {}
  BY DEF Resting
<1>5. ASSUME NEW t \in Servers, queue[t] = <<>>, work'[t] = work[t] PROVE Ahead(t)'
  <2>1. work'[t].pc = "read" /\ work'[t].have = {}
    BY <1>4, <1>5 DEF QueueInv
  <2> QED BY <2>1, RestingAhead
<1>6. ASSUME NEW s \in Servers, queue[s] # <<>>, Ahead(s)', Kept',
             \A t \in Servers \ {s} : work'[t] = work[t]
      PROVE  Good
  <2>1. \A t \in Servers \ {s} : queue[t] = <<>>
    BY <1>1, <1>6, OthersRest
  <2> QED BY <1>5, <1>6, <2>1
<1>7. ASSUME NEW s \in Servers, queue[s] # <<>>, Leave(s, "failed"), UNCHANGED stored
      PROVE  Good
  <2>1. work'[s] = Resting /\ \A t \in Servers \ {s} : work'[t] = work[t]
    BY <1>7, LeaveEffect DEF Statuses
  <2>2. Done' = Done
    BY <1>7, LeaveDone DEF Statuses
  <2>3. Ahead(s)'
    BY <1>4, <2>1, RestingAhead
  <2> QED BY <1>3, <1>6, <1>7, <2>1, <2>2, <2>3, QuietKept
<1>8. ASSUME NEW s \in Servers, queue[s] # <<>>, Ahead(s)', UNCHANGED <<stored, requests>>,
             \A t \in Servers \ {s} : work'[t] = work[t]
      PROVE  Good
  <2>1. Done' = Done
    BY <1>8 DEF Done, Made, Status
  <2> QED BY <1>3, <1>6, <1>8, <2>1, QuietKept
<1>9. ASSUME NEW s \in Servers, Run(s) PROVE Good
  <2>1. ASSUME NEW table \in {"drafts", "records"}, ReadTable(s, table) PROVE Good
    <3>1. /\ queue[s] # <<>> /\ UNCHANGED <<stored, requests>>
          /\ \A t \in Servers \ {s} : work'[t] = work[t]
      BY <2>1, ReadTableEffect
    <3>2. Ahead(s)'
      BY <1>3, <2>1, <3>1, ReadTableAhead
    <3> QED BY <1>8, <3>1, <3>2
  <2>2. CASE Check(s)
    <3>1. queue[s] # <<>> /\ work[s].pc = "check" /\ UNCHANGED stored
      BY <2>2, CheckChanges
    <3>2. CASE Leave(s, "failed")
      BY <1>7, <3>1, <3>2
    <3>3. CASE ~Leave(s, "failed")
      <4>1. /\ UNCHANGED <<stored, requests, queue>>
            /\ \A t \in Servers \ {s} : work'[t] = work[t]
            /\ \/ work'[s].pc = "read" /\ work'[s].have = {}
               \/ /\ work'[s].store =
                       Mutated(requests[Current(s)].op, requests[Current(s)].draft, Current(s), work[s].store)
                  /\ work'[s].have = work[s].have
                  /\ work'[s].pc = "writeDrafts"
        BY <2>2, <3>3, <1>2, CheckChanges
      <4>2. Ahead(s)'
        BY <1>2, <1>3, <3>1, <4>1, CheckAhead, RestingAhead
      <4> QED BY <1>8, <3>1, <4>1, <4>2
    <3> QED BY <3>2, <3>3
  <2>3. CASE WriteDrafts(s)
    <3>1. /\ queue[s] # <<>> /\ stored'.records = stored.records /\ UNCHANGED requests
          /\ \A t \in Servers \ {s} : work'[t] = work[t]
      BY <2>3, WriteDraftsEffect
    <3>2. /\ Ahead(s)'
          /\ \A e \in DOMAIN stored.drafts :
               e \in DOMAIN stored'.drafts /\ stored.drafts[e] \subseteq stored'.drafts[e]
      BY <1>3, <2>3, <3>1, WriteDraftsAhead
    <3>3. Done' = Done
      BY <3>1 DEF Done, Made, Status
    <3>4. Kept'
      BY <1>3, <3>1, <3>2, <3>3, KeptGrows
    <3> QED BY <1>6, <3>1, <3>2, <3>4
  <2>4. CASE WriteRecords(s)
    <3>1. /\ queue[s] # <<>> /\ work'[s] = Resting
          /\ \A t \in Servers \ {s} : work'[t] = work[t]
      <4>1. queue[s] # <<>> /\ \E status \in Statuses : Leave(s, status)
        BY <2>4, WriteRecordsEffect DEF Statuses
      <4> QED BY <4>1, LeaveEffect
    <3>2. Ahead(s)'
      BY <1>4, <3>1, RestingAhead
    <3>3. Kept'
      BY <1>2, <1>3, <2>4, <3>1, WriteRecordsKept
    <3> QED BY <1>6, <3>1, <3>2, <3>3
  <2>5. CASE FailWrite(s)
    BY <1>7, <2>5, FailWriteEffect
  <2>6. ~ReadFile(s) /\ ~WriteFile(s)
    BY <1>2 DEF ReadFile, WriteFile, Running, QueueInv
  <2> QED BY <1>9, RunCases, <2>1, <2>2, <2>3, <2>4, <2>5, <2>6
<1>10. ASSUME UNCHANGED <<adapter, work>>, Kept',
              \A t \in Servers : queue[t] # <<>> => Current(t)' = Current(t),
              \A e \in DOMAIN stored'.drafts : e \in DOMAIN stored.drafts /\ stored'.drafts[e] = stored.drafts[e],
              \A e \in DOMAIN stored'.records : e \in DOMAIN stored.records /\ stored'.records[e] = stored.records[e],
              \A e \in DOMAIN stored.drafts : e \in DOMAIN stored'.drafts \/ Gone(e)'
       PROVE  Good
  <2>1. ASSUME NEW t \in Servers, queue[t] # <<>> PROVE Ahead(t)'
    BY <1>2, <1>3, <1>10, <2>1, AheadStays
  <2> QED BY <1>5, <1>10, <2>1
<1>11. ASSUME NEW s \in Servers, NEW op \in Ops, NEW d \in Drafts, Submit(s, op, d) PROVE Good
  <2>1. /\ UNCHANGED <<adapter, stored, work>>
        /\ \A t \in Servers : queue[t] # <<>> => Current(t)' = Current(t)
    BY <1>11, SubmitEffect DEF Current
  <2>2. Kept'
    BY <1>3, <1>11, <2>1, SubmitDone, QuietKept
  <2> QED BY <1>10, <2>1, <2>2
<1>12. ASSUME NEW s \in Servers, Crash(s) PROVE Good
  <2>1. /\ work'[s] = Resting /\ queue'[s] = <<>> /\ UNCHANGED <<adapter, stored>>
        /\ \A t \in Servers \ {s} : queue'[t] = queue[t] /\ work'[t] = work[t]
    BY <1>12, CrashEffect
  <2>2. Kept'
    BY <1>3, <1>12, <2>1, CrashDone, QuietKept
  <2>3. Ahead(s)'
    BY <1>4, <2>1, RestingAhead
  <2>4. ASSUME NEW t \in Servers, t # s, queue'[t] # <<>> PROVE Ahead(t)'
    <3>1. Current(t)' = Current(t) /\ work'[t] = work[t] /\ queue[t] # <<>>
      BY <2>1, <2>4 DEF Current
    <3>2. Ahead(t)
      BY <1>3, <3>1
    <3> QED BY <1>2, <2>1, <3>1, <3>2, AheadStays
  <2> QED BY <2>2, <2>3, <2>4
<1>13. ASSUME NEW q \in Made, DeleteRows(q) PROVE Good
  <2>1. PICK d : d = requests[q].draft
    OBVIOUS
  <2>2. /\ requests[q].status = "deleting" /\ Len(requests') = Len(requests)
        /\ \A i \in Made :
             /\ requests'[i].op = requests[i].op
             /\ requests'[i].draft = requests[i].draft
             /\ requests'[i].status = IF i = q THEN "done" ELSE requests[i].status
        /\ stored'.drafts = Without(stored.drafts, d)
        /\ stored'.records = Without(stored.records, d)
        /\ UNCHANGED <<adapter, queue, work>>
    BY <1>13, <2>1, DeleteRowsEffect
  <2>3. stored.drafts \in Tables /\ stored.records \in Tables
    BY DEF StoreType, Stores
  <2>4. /\ \A e \in DOMAIN stored'.drafts : e \in DOMAIN stored.drafts /\ stored'.drafts[e] = stored.drafts[e]
        /\ \A e \in DOMAIN stored'.records : e \in DOMAIN stored.records /\ stored'.records[e] = stored.records[e]
        /\ \A e \in DOMAIN stored.drafts \ {d} : e \in DOMAIN stored'.drafts /\ stored'.drafts[e] = stored.drafts[e]
        /\ \A e \in DOMAIN stored.records \ {d} : e \in DOMAIN stored'.records /\ stored'.records[e] = stored.records[e]
    <3>1. \A u \in Tables :
            /\ DOMAIN Without(u, d) = DOMAIN u \ {d}
            /\ \A e \in DOMAIN u \ {d} : Without(u, d)[e] = u[e]
      BY WithoutTable
    <3>2. PICK old, new : old = stored.drafts /\ new = stored'.drafts
      OBVIOUS
    <3>3. PICK was, are : was = stored.records /\ are = stored'.records
      OBVIOUS
    <3>4. /\ \A e \in DOMAIN new : e \in DOMAIN old /\ new[e] = old[e]
          /\ \A e \in DOMAIN old \ {d} : e \in DOMAIN new /\ new[e] = old[e]
      <4>1. old \in Tables /\ new = Without(old, d)
        BY <2>2, <2>3, <3>2
      <4>2. DOMAIN new = DOMAIN old \ {d} /\ \A e \in DOMAIN old \ {d} : new[e] = old[e]
        BY <3>1, <4>1
      <4> QED BY <4>2
    <3>5. /\ \A e \in DOMAIN are : e \in DOMAIN was /\ are[e] = was[e]
          /\ \A e \in DOMAIN was \ {d} : e \in DOMAIN are /\ are[e] = was[e]
      <4>1. was \in Tables /\ are = Without(was, d)
        BY <2>2, <2>3, <3>3
      <4>2. DOMAIN are = DOMAIN was \ {d} /\ \A e \in DOMAIN was \ {d} : are[e] = was[e]
        BY <3>1, <4>1
      <4> QED BY <4>2
    <3> QED BY <3>2, <3>3, <3>4, <3>5
  <2>5. requests[q].op = "delete"
    BY <2>2 DEF DeletesWait, Status
  <2>6. Gone(d)'
    BY <2>1, <2>2, <2>5 DEF Gone, Status, Made
  <2>7. Done' \subseteq Done \cup {q}
    BY <2>2 DEF Done, Status, Made
  <2>8. \A r \in Done' \ Done : \A e :
          requests'[r].op # "delete" /\ requests'[r].draft = e => Reflected(r)' \/ Gone(e)'
    BY <2>2, <2>5, <2>7
  <2>9. /\ \A e \in DOMAIN stored.drafts :
             (e \in DOMAIN stored'.drafts /\ stored.drafts[e] \subseteq stored'.drafts[e]) \/ Gone(e)'
        /\ \A e \in DOMAIN stored.records :
             (e \in DOMAIN stored'.records /\ stored.records[e] \subseteq stored'.records[e]) \/ Gone(e)'
    BY <2>4, <2>6
  <2>10. Kept'
    BY <1>3, <2>8, <2>9, KeptGrows
  <2>11. \A t \in Servers : queue[t] # <<>> => Current(t)' = Current(t)
    BY <2>2 DEF Current
  <2>12. \A e \in DOMAIN stored.drafts : e \in DOMAIN stored'.drafts \/ Gone(e)'
    BY <2>9
  <2> QED BY <1>10, <2>2, <2>4, <2>10, <2>11, <2>12
<1>14. ASSUME NEW q \in Made, FailDeleteRows(q) PROVE Good
  <2>1. UNCHANGED <<adapter, stored, queue, work>>
    BY <1>14 DEF FailDeleteRows
  <2>2. Done' = Done
    BY <1>14, FailDeleteRowsEffect DEF Done, Status, Made
  <2>3. Kept'
    BY <1>3, <2>1, <2>2, QuietKept
  <2>4. \A t \in Servers : queue[t] # <<>> => Current(t)' = Current(t)
    BY <2>1 DEF Current
  <2> QED BY <1>10, <2>1, <2>3, <2>4
<1>15. CASE UNCHANGED vars
  <2>1. /\ UNCHANGED <<adapter, stored, work>> /\ Done' = Done
        /\ \A t \in Servers : Current(t)' = Current(t)
    BY <1>15 DEF vars, Done, Made, Status, Current
  <2>2. Kept'
    BY <1>3, <2>1, QuietKept
  <2> QED BY <1>10, <2>1, <2>2
<1> QED BY <1>9, <1>11, <1>12, <1>13, <1>14, <1>15 DEF Next, Made

\* Requests that one process serves never lose each other's updates, with either
\* adapter, whatever fails in between.
THEOREM OneServerLosesNothingHolds == Spec => []OneServerLosesNothing
<1>1. Init => DeletesWait
  BY DEF Init, DeletesWait, Made
<1>2. StoreType /\ ExactInv /\ AheadInv => OneServerLosesNothing
  <2> SUFFICES ASSUME StoreType, ExactInv, AheadInv, OneServer PROVE AcceptedUpdatesKept
    BY DEF OneServerLosesNothing
  <2>1. Kept
    BY DEF StoreType, ExactInv, AheadInv
  <2> QED BY <2>1 DEF Kept, Done, Gone, AcceptedUpdatesKept
<1> QED BY InitQueue, NextQueue, InitRequest, NextRequest, InitExact, NextExact, InitAhead,
           NextAhead, NextDeletes, <1>1, <1>2, PTL DEF Spec

-----------------------------------------------------------------------------
\* The revision counts answers: nobody has seen a revision that is not paid for
\* by an update that was answered with success.  The tables have no revision,
\* and an update that starts over has a try left.
BoundInv ==
  /\ adapter \in Adapters
  /\ Len(requests) <= MaxRequests
  /\ adapter = "supabase" => stored.revision = 0
  /\ stored.revision <= Cardinality(Done)
  /\ \A s \in Servers :
       /\ work[s].store.revision <= Cardinality(Done)
       /\ work[s].tries < Retries

LEMMA DoneCounted ==
  ASSUME StoreType
  PROVE  /\ IsFiniteSet(Done) /\ Cardinality(Done) \in Nat
         /\ Cardinality(Done) <= Len(requests)
<1>1. PICK n \in Nat : n = Len(requests)
  BY DEF StoreType
<1>2. IsFiniteSet(Made) /\ Cardinality(Made) = Len(requests)
  <2>1. IsFiniteSet(1..n) /\ Cardinality(1..n) = IF 1 > n THEN 0 ELSE n - 1 + 1
    BY FS_Interval
  <2>2. Cardinality(1..n) = n
    BY <2>1
  <2> QED BY <1>1, <2>1, <2>2 DEF Made
<1>3. Done \in SUBSET Made
  BY DEF Done
<1> QED BY <1>2, <1>3, FS_Subset, FS_CardinalityType

\* An answer with success never makes the count smaller.
LEMMA CountGrows ==
  ASSUME StoreType, StoreType', QueueInv, [Next]_vars
  PROVE  Cardinality(Done) <= Cardinality(Done')
<1>1. IsFiniteSet(Done')
  <2>1. Len(requests') \in Nat
    BY DEF StoreType
  <2>2. IsFiniteSet(1..Len(requests'))
    BY <2>1, FS_Interval
  <2>3. Done' \in SUBSET (1..Len(requests'))
    BY DEF Done, Made
  <2> QED BY <2>2, <2>3, FS_Subset
<1>2. Done \in SUBSET Done'
  BY RequestsStay DEF Done, Status
<1> QED BY <1>1, <1>2, FS_Subset

\* A step that writes no file takes revisions from where they were.
LEMMA BoundKept ==
  ASSUME StoreType, StoreType', QueueInv, [Next]_vars, BoundInv, UNCHANGED adapter,
         Len(requests') <= MaxRequests,
         stored'.revision = stored.revision,
         \A t \in Servers :
           /\ work'[t].tries < Retries
           /\ work'[t].store.revision \in {work[t].store.revision, stored.revision, 0}
  PROVE  BoundInv'
<1>1. PICK n \in Nat : n = Cardinality(Done)
  BY DoneCounted
<1>2. PICK m : m = Cardinality(Done')
  OBVIOUS
<1>3. n <= m /\ m \in Nat
  <2>1. (IsFiniteSet(Done) /\ Cardinality(Done) \in Nat)'
    BY DoneCounted, PTL
  <2> QED BY <1>1, <1>2, <2>1, CountGrows
<1>4. stored.revision \in Nat /\ stored.revision <= n
  BY <1>1 DEF BoundInv, StoreType, Stores
<1>5. ASSUME NEW t \in Servers PROVE work'[t].store.revision <= m
  <2>1. work[t].store.revision \in Nat /\ work[t].store.revision <= n
    BY <1>1 DEF BoundInv, StoreType, Work, Stores
  <2>2. PICK now, before, file :
          now = work'[t].store.revision /\ before = work[t].store.revision /\ file = stored.revision
    OBVIOUS
  <2>3. now \in {before, file, 0}
    BY <2>2
  <2>4. before \in Nat /\ before <= n /\ file \in Nat /\ file <= n
    BY <1>4, <2>1, <2>2
  <2>5. now <= m
    BY <1>3, <2>3, <2>4
  <2> QED BY <2>2, <2>5
<1>6. stored'.revision <= m
  BY <1>3, <1>4
<1> QED BY <1>2, <1>5, <1>6 DEF BoundInv

\* The file that is renamed into place is one revision on, and the update that
\* wrote it is answered.
LEMMA WriteFileBound ==
  ASSUME StoreType, StoreType', QueueInv, [Next]_vars, BoundInv,
         NEW s \in Servers, WriteFile(s)
  PROVE  BoundInv'
<1>1. /\ queue[s] # <<>> /\ Leave(s, "done") /\ UNCHANGED adapter
      /\ stored' = [work[s].store EXCEPT !.revision = @ + 1]
  BY DEF WriteFile, Running, NewFile
<1>2. Done' = Done \cup {Current(s)} /\ Current(s) \notin Done
  BY <1>1, LeaveDone DEF Statuses
<1>3. PICK n \in Nat : n = Cardinality(Done)
  BY DoneCounted
<1>4. Cardinality(Done') = n + 1
  BY <1>2, <1>3, DoneCounted, FS_AddElement
<1>5. work[s].store \in Stores /\ work[s].store.revision \in Nat /\ work[s].store.revision <= n
  BY <1>3 DEF BoundInv, StoreType, Work, Stores
<1>6. stored'.revision = work[s].store.revision + 1
  BY <1>1, <1>5 DEF Stores
<1>7. Len(requests') = Len(requests) /\ \A t \in Servers : work'[t] \in {work[t], Resting}
  BY <1>1, LeaveEffect DEF Statuses
<1>8. adapter # "supabase"
  BY <1>1 DEF WriteFile, Running, QueueInv
<1>9. ASSUME NEW t \in Servers
      PROVE  work'[t].store.revision <= n + 1 /\ work'[t].tries < Retries
  <2>1. work[t].store.revision \in Nat /\ work[t].store.revision <= n /\ work[t].tries < Retries
    BY <1>3 DEF BoundInv, StoreType, Work, Stores
  <2>2. Resting.store.revision = 0 /\ Resting.tries = 0 /\ 0 < Retries
    BY StoreConstants DEF Resting, StoreConstants
  <2> HIDE DEF Resting
  <2> QED BY <1>7, <2>1, <2>2
<1>10. stored'.revision <= n + 1
  BY <1>5, <1>6
<1> QED BY <1>1, <1>4, <1>7, <1>8, <1>9, <1>10 DEF BoundInv

\* What the running update of a server carries from step to step.
LEMMA RunCarries ==
  ASSUME StoreType, QueueInv, BoundInv, NEW s \in Servers, Run(s), ~WriteFile(s)
  PROVE  /\ UNCHANGED adapter /\ Len(requests') = Len(requests)
         /\ stored'.revision = stored.revision
         /\ \A t \in Servers :
              /\ work'[t].tries < Retries
              /\ work'[t].store.revision \in {work[t].store.revision, stored.revision, 0}
<1> DEFINE Carried(t) ==
      /\ work'[t].tries < Retries
      /\ work'[t].store.revision \in {work[t].store.revision, stored.revision, 0}
<1>1. \A t \in Servers : work[t] \in Work /\ work[t].store \in Stores /\ work[t].tries < Retries
  BY DEF StoreType, Work, BoundInv
<1>2. Resting.store.revision = 0 /\ Resting.tries = 0 /\ 0 < Retries /\ Resting \in Work
  BY StoreConstants, EmptyTable DEF Resting, StoreConstants
<1> HIDE DEF Resting
<1>3. ASSUME NEW t \in Servers, work'[t] \in {work[t], Resting} PROVE Carried(t)
  BY <1>1, <1>2, <1>3
<1>4. ASSUME NEW status \in Statuses, queue[s] # <<>>, Leave(s, status)
      PROVE  Len(requests') = Len(requests) /\ \A t \in Servers : Carried(t)
  <2>1. Len(requests') = Len(requests) /\ \A t \in Servers : work'[t] \in {work[t], Resting}
    BY <1>4, LeaveEffect
  <2> HIDE DEF Carried
  <2> QED BY <1>3, <2>1
<1>5. ASSUME \A t \in Servers \ {s} : work'[t] = work[t], Carried(s)
      PROVE  \A t \in Servers : Carried(t)
  <2>1. \A t \in Servers \ {s} : Carried(t)
    BY <1>1, <1>5
  <2> QED BY <1>5, <2>1
<1>6. CASE ReadFile(s)
  <2>1. /\ UNCHANGED <<adapter, stored, requests>> /\ \A t \in Servers \ {s} : work'[t] = work[t]
        /\ work'[s].store = stored
    BY <1>6, ReadFileEffect
  <2>2. work'[s] = [work[s] EXCEPT !.store = stored, !.pc = "check"]
    BY <1>6 DEF ReadFile, StoreType
  <2>3. Carried(s)
    BY <1>1, <2>1, <2>2 DEF Work
  <2> HIDE DEF Carried
  <2> QED BY <1>5, <2>1, <2>3 DEF Carried
<1>7. ASSUME NEW table \in {"drafts", "records"}, ReadTable(s, table)
      PROVE  /\ UNCHANGED <<adapter, stored, requests>> /\ \A t \in Servers : Carried(t)
  <2>1. /\ UNCHANGED <<adapter, stored, requests>> /\ \A t \in Servers \ {s} : work'[t] = work[t]
        /\ work'[s].store.revision = work[s].store.revision
    BY <1>7, ReadTableEffect
  <2>2. work'[s].tries = work[s].tries
    BY <1>7, <1>1 DEF ReadTable, StoreType, Work
  <2>3. Carried(s)
    BY <1>1, <2>1, <2>2
  <2> HIDE DEF Carried
  <2> QED BY <1>5, <2>1, <2>3
<1>8. CASE Check(s)
  <2>1. queue[s] # <<>> /\ UNCHANGED <<adapter, stored>>
    BY <1>8 DEF Check, Running
  <2> DEFINE r == Current(s)
             op == requests[r].op
             d == requests[r].draft
  <2>2. CASE Leave(s, "failed")
    <3> HIDE DEF Carried
    <3> QED BY <1>4, <2>1, <2>2 DEF Carried, Statuses
  <2>3. CASE /\ work[s].tries + 1 < Retries
             /\ work' = [work EXCEPT ![s] = [Resting EXCEPT !.tries = work[s].tries + 1]]
             /\ UNCHANGED <<requests, queue>>
    <3>1. PICK w : w = [Resting EXCEPT !.tries = work[s].tries + 1]
      OBVIOUS
    <3>2. w.tries = work[s].tries + 1 /\ w.store.revision = 0
      BY <1>2, <3>1 DEF Work
    <3>3. work'[s] = w /\ \A t \in Servers \ {s} : work'[t] = work[t]
      BY <2>3, <3>1 DEF StoreType
    <3>4. Carried(s)
      BY <2>3, <3>2, <3>3
    <3> HIDE DEF Carried
    <3> QED BY <1>5, <2>1, <2>3, <3>3, <3>4 DEF Carried
  <2>4. CASE /\ work' = [work EXCEPT
                  ![s].store = Mutated(op, d, r, @),
                  ![s].pc = IF adapter = "filesystem" THEN "writeFile" ELSE "writeDrafts"]
             /\ UNCHANGED <<requests, queue>>
    <3>1. PICK new : new = Mutated(op, d, r, work[s].store)
      OBVIOUS
    <3>2. r \in Nat /\ op \in Ops /\ d \in Drafts
      BY <2>1, CurrentRequest DEF Request
    <3>3. new.revision = work[s].store.revision
      BY <1>1, <3>1, <3>2, MutatedStore
    <3>4. PICK next : next = IF adapter = "filesystem" THEN "writeFile" ELSE "writeDrafts"
      OBVIOUS
    <3>5. PICK w : w = [work[s] EXCEPT !.store = new, !.pc = next]
      OBVIOUS
    <3>6. w.tries = work[s].tries /\ w.store = new
      BY <1>1, <3>5 DEF Work
    <3>7. work'[s] = w /\ \A t \in Servers \ {s} : work'[t] = work[t]
      BY <2>4, <3>1, <3>4, <3>5 DEF StoreType
    <3>8. Carried(s)
      BY <1>1, <3>3, <3>6, <3>7
    <3> HIDE DEF Carried
    <3> QED BY <1>5, <2>1, <2>4, <3>7, <3>8 DEF Carried
  <2> HIDE DEF Carried
  <2> QED BY <1>8, <2>2, <2>3, <2>4, <2>1 DEF Check
<1>9. CASE WriteDrafts(s)
  <2>1. /\ UNCHANGED <<adapter, requests>> /\ \A t \in Servers \ {s} : work'[t] = work[t]
        /\ work'[s].store = work[s].store
    BY <1>9, WriteDraftsEffect
  <2>2. work'[s].tries = work[s].tries
    BY <1>1, <1>9 DEF WriteDrafts, StoreType, Work
  <2>3. stored'.revision = stored.revision
    BY <1>9 DEF WriteDrafts, StoreType, Stores
  <2>4. Carried(s)
    BY <1>1, <2>1, <2>2
  <2> HIDE DEF Carried
  <2> QED BY <1>5, <2>1, <2>3, <2>4 DEF Carried
<1>10. CASE WriteRecords(s)
  <2>1. UNCHANGED adapter /\ queue[s] # <<>> /\ \E status \in Statuses : Leave(s, status)
    BY <1>10, WriteRecordsEffect DEF Statuses
  <2>2. stored'.revision = stored.revision
    BY <1>10 DEF WriteRecords, StoreType, Stores
  <2> HIDE DEF Carried
  <2> QED BY <1>4, <2>1, <2>2 DEF Carried
<1>11. CASE FailWrite(s)
  <2>1. queue[s] # <<>> /\ Leave(s, "failed") /\ UNCHANGED <<adapter, stored>>
    BY <1>11, FailWriteEffect
  <2> HIDE DEF Carried
  <2> QED BY <1>4, <2>1 DEF Carried, Statuses
<1> QED BY <1>6, <1>7, <1>8, <1>9, <1>10, <1>11, RunCases

\* Every step keeps the bounds.
LEMMA NextBound == StoreType /\ QueueInv /\ BoundInv /\ [Next]_vars => BoundInv'
<1> SUFFICES ASSUME StoreType, QueueInv, BoundInv, [Next]_vars PROVE BoundInv'
  OBVIOUS
<1>1. StoreType'
  BY NextQueue
<1>2. Len(requests) \in Nat /\ Len(requests) <= MaxRequests /\ MaxRequests \in Nat
  BY StoreConstants DEF StoreType, BoundInv, StoreConstants
<1>3. \A t \in Servers : work[t].tries < Retries
  BY DEF BoundInv
<1>4. ASSUME NEW s \in Servers, Run(s) PROVE BoundInv'
  <2>1. CASE WriteFile(s)
    BY <1>1, <2>1, WriteFileBound
  <2>2. CASE ~WriteFile(s)
    <3>1. /\ UNCHANGED adapter /\ Len(requests') = Len(requests)
          /\ stored'.revision = stored.revision
          /\ \A t \in Servers :
               /\ work'[t].tries < Retries
               /\ work'[t].store.revision \in {work[t].store.revision, stored.revision, 0}
      BY <1>4, <2>2, RunCarries
    <3> QED BY <1>1, <1>2, <3>1, BoundKept
  <2> QED BY <2>1, <2>2
<1>5. ASSUME NEW s \in Servers, NEW op \in Ops, NEW d \in Drafts, Submit(s, op, d)
      PROVE  BoundInv'
  <2>1. Len(requests') = Len(requests) + 1 /\ UNCHANGED <<adapter, stored, work>>
    BY <1>5, SubmitEffect
  <2>2. Len(requests') <= MaxRequests
    BY <1>2, <1>5, <2>1 DEF Submit
  <2> QED BY <1>1, <1>3, <2>1, <2>2, BoundKept
<1>6. ASSUME NEW s \in Servers, Crash(s) PROVE BoundInv'
  <2>1. /\ Len(requests') = Len(requests) /\ UNCHANGED <<adapter, stored>>
        /\ \A t \in Servers : work'[t] \in {work[t], Resting}
    BY <1>6, CrashEffect
  <2>2. Resting.store.revision = 0 /\ Resting.tries = 0 /\ 0 < Retries
    BY StoreConstants DEF Resting, StoreConstants
  <2> HIDE DEF Resting
  <2>3. \A t \in Servers :
          /\ work'[t].tries < Retries
          /\ work'[t].store.revision \in {work[t].store.revision, stored.revision, 0}
    BY <1>3, <2>1, <2>2
  <2> QED BY <1>1, <1>2, <2>1, <2>3, BoundKept
<1>7. ASSUME NEW r \in Made, DeleteRows(r) PROVE BoundInv'
  <2>1. Len(requests') = Len(requests) /\ UNCHANGED <<adapter, work>>
    BY <1>7, DeleteRowsEffect
  <2>2. stored'.revision = stored.revision
    BY <1>7 DEF DeleteRows, StoreType, Stores
  <2> QED BY <1>1, <1>2, <1>3, <2>1, <2>2, BoundKept
<1>8. ASSUME NEW r \in Made, FailDeleteRows(r) PROVE BoundInv'
  <2>1. Len(requests') = Len(requests) /\ UNCHANGED <<adapter, stored, work>>
    BY <1>8, FailDeleteRowsEffect
  <2> QED BY <1>1, <1>2, <1>3, <2>1, BoundKept
<1>9. CASE UNCHANGED vars
  <2>1. UNCHANGED <<adapter, stored, requests, work>>
    BY <1>9 DEF vars
  <2> QED BY <1>1, <1>2, <1>3, <2>1, BoundKept
<1> QED BY <1>4, <1>5, <1>6, <1>7, <1>8, <1>9 DEF Next, Made

\* Every variable of the persistence engine has its type: no revision is ever
\* higher than the number of updates answered with success, and no update is
\* tried more than STORE_WRITE_RETRIES times.
THEOREM TypeCorrect == Spec => []TypeOK
<1>1. Init => BoundInv
  <2> SUFFICES ASSUME Init PROVE BoundInv
    OBVIOUS
  <2>1. StoreType
    BY InitQueue
  <2>2. Cardinality(Done) \in Nat
    BY <2>1, DoneCounted
  <2>3. Resting.store.revision = 0 /\ Resting.tries = 0 /\ 0 < Retries /\ 0 <= MaxRequests
    BY StoreConstants DEF Resting, StoreConstants
  <2>4. \A s \in Servers : work[s] = Resting
    BY Zenon DEF Init
  <2> HIDE DEF Resting
  <2>5. adapter \in Adapters /\ Len(requests) = 0 /\ stored.revision = 0
    BY DEF Init
  <2> QED BY <2>2, <2>3, <2>4, <2>5 DEF BoundInv
<1>2. StoreType /\ QueueInv /\ BoundInv => TypeOK
  <2> SUFFICES ASSUME StoreType, QueueInv, BoundInv PROVE TypeOK
    OBVIOUS
  <2>1. /\ Len(requests) \in Nat /\ Cardinality(Done) \in Nat
        /\ Cardinality(Done) <= Len(requests)
    BY DoneCounted DEF StoreType
  <2>2. stored.revision \in 0..MaxRequests
    <3>1. stored.revision \in Nat /\ stored.revision <= Cardinality(Done)
          /\ Len(requests) <= MaxRequests /\ MaxRequests \in Nat
      BY StoreConstants DEF BoundInv, StoreType, Stores, StoreConstants
    <3> QED BY <2>1, <3>1
  <2>3. DOMAIN stored.drafts \subseteq Drafts /\ DOMAIN stored.records \subseteq Drafts
    <3>1. stored.drafts \in Tables /\ stored.records \in Tables
      BY DEF StoreType, Stores
    <3> QED BY <3>1, TableSet
  <2>4. \A r \in 1..Len(requests) : requests[r] \in
          [op : Ops, draft : Drafts, server : Servers, status : Statuses]
    <3>1. \A r \in 1..Len(requests) : requests[r] \in Request
      BY DEF StoreType
    <3> QED BY <3>1 DEF Request
  <2>5. \A s \in Servers : \A i \in 1..Len(queue[s]) : queue[s][i] \in 1..Len(requests)
    BY DEF QueueInv, Made
  <2>6. \A s \in Servers :
          work[s].pc \in {"read", "check", "writeFile", "writeDrafts", "writeRecords"}
    BY DEF StoreType, Work, Steps
  <2> QED BY <2>2, <2>3, <2>4, <2>5, <2>6 DEF BoundInv, TypeOK
<1> QED BY InitQueue, NextQueue, NextBound, <1>1, <1>2, PTL DEF Spec
=============================================================================
