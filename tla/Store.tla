------------------------------- MODULE Store -------------------------------
(***************************************************************************)
(* The persistence engine of create-challenge-store.server.ts: every       *)
(* change of a draft, of its payment attempts, of its winner attempt and   *)
(* of its chain evidence reads the whole store, changes it in memory and   *)
(* writes the whole store back.                                            *)
(*                                                                         *)
(* A server process runs its updates one after another (storeWriteQueue);  *)
(* processes share nothing but what is stored.  The adapter "filesystem"   *)
(* keeps one JSON file with a revision, the adapter "supabase" a row per   *)
(* record and no revision.  A record is modelled as the set of the updates *)
(* it reflects, so that a lost one shows.                                  *)
(***************************************************************************)
EXTENDS Naturals, Sequences

CONSTANTS
  Servers,      \* processes that serve requests
  Drafts,       \* draft identifiers
  Original,     \* the drafts stored at the start
  Adapters,     \* the values of CCN_LIFECYCLE_PERSISTENCE to consider
  MaxRequests,  \* bound: how many requests are made
  Retries       \* STORE_WRITE_RETRIES

ASSUME StoreConstants ==
  /\ Original \subseteq Drafts
  /\ Adapters \subseteq {"filesystem", "supabase"}
  /\ MaxRequests \in Nat /\ Retries \in Nat \ {0}

VARIABLES
  adapter,   \* LIFECYCLE_PERSISTENCE_ADAPTER, fixed by the deployment
  stored,    \* the file, or the tables
  requests,  \* the requests made so far: what they ask for and what became of them
  queue,     \* storeWriteQueue of each server; its head is the running update
  work       \* the local variables of the running update of each server

vars == <<adapter, stored, requests, queue, work>>

\* "record" stands for the updates of the records that hang on a draft: payment
\* attempts, the winner attempt, on-chain verifications.
Ops == {"create", "save", "record", "delete"}

\* "deleting": the update of a delete is done, its rows are still there.
Statuses == {"queued", "deleting", "done", "failed", "lost"}

Nothing == [d \in {} |-> {}]
Resting == [pc |-> "read", have |-> {}, tries |-> 0, store |->
             [revision |-> 0, drafts |-> Nothing, records |-> Nothing]]

Init ==
  /\ adapter \in Adapters
  /\ stored = [revision |-> 0, drafts |-> [d \in Original |-> {}], records |-> Nothing]
  /\ requests = <<>>
  /\ queue = [s \in Servers |-> <<>>]
  /\ work = [s \in Servers |-> Resting]

Without(table, d) == [e \in DOMAIN table \ {d} |-> table[e]]
Adding(table, d, r) ==
  [e \in DOMAIN table \cup {d} |->
     (IF e = d THEN {r} ELSE {}) \cup (IF e \in DOMAIN table THEN table[e] ELSE {})]

\* Rows of memory take the place of those with the same key; the others stay.
Upserted(table, rows) ==
  [e \in DOMAIN table \cup DOMAIN rows |-> IF e \in DOMAIN rows THEN rows[e] ELSE table[e]]

-----------------------------------------------------------------------------
\* The mutators.

\* assertDraftDeleteAllowed: no payment, winner or chain record of the draft.
Deletable(store, d) == d \in DOMAIN store.drafts /\ d \notin DOMAIN store.records

\* A bug: the update of a delete does not look again at what the request saw.
AdmitsUnlooked(op, d, store) == op \in {"save", "delete"} => d \in DOMAIN store.drafts

\* Whether the mutator of an update throws.  upsertApprovalAttemptForScope and
\* its like do not ask whether the draft is still there.
Admits(op, d, store) ==
  CASE op = "save" -> d \in DOMAIN store.drafts
    [] op = "delete" -> Deletable(store, d)
    [] OTHER -> TRUE

Mutated(op, d, r, store) ==
  CASE op \in {"create", "save"} -> [store EXCEPT !.drafts = Adding(@, d, r)]
    [] op = "record" -> [store EXCEPT !.records = Adding(@, d, r)]
    [] op = "delete" -> [store EXCEPT !.drafts = Without(@, d)]

-----------------------------------------------------------------------------
\* A request comes in; a delete has a look at the store before it queues.  A new
\* draft has an identifier of its own (randomUUID).
Submit(s, op, d) ==
  /\ Len(requests) < MaxRequests
  /\ op = "create" =>
       d \notin Original /\ \A i \in 1..Len(requests) : requests[i].draft # d
  /\ op # "create" =>
       d \in Original \/ \E i \in 1..Len(requests) :
         requests[i].op = "create" /\ requests[i].draft = d /\ requests[i].status = "done"
  /\ op = "delete" => Deletable(stored, d)
  /\ requests' = Append(requests, [op |-> op, draft |-> d, server |-> s, status |-> "queued"])
  /\ queue' = [queue EXCEPT ![s] = Append(@, Len(requests) + 1)]
  /\ UNCHANGED <<adapter, stored, work>>

Running(s, step) == queue[s] # <<>> /\ work[s].pc = step
Current(s) == Head(queue[s])

\* A bug: the queue is chained on the success of an update only.
LeaveOnSuccess(s, status) ==
  /\ requests' = [requests EXCEPT ![Current(s)].status = status]
  /\ queue' = IF status = "failed" THEN queue ELSE [queue EXCEPT ![s] = Tail(@)]
  /\ work' = IF status = "failed" THEN [work EXCEPT ![s].pc = "stuck"]
             ELSE [work EXCEPT ![s] = Resting]

\* storeWriteQueue.then(run, run): the next update runs, however this one ended.
Leave(s, status) ==
  /\ requests' = [requests EXCEPT ![Current(s)].status = status]
  /\ queue' = [queue EXCEPT ![s] = Tail(@)]
  /\ work' = [work EXCEPT ![s] = Resting]

\* readStore: one file, or tables that are selected at the same time, each in
\* its own query.
ReadFile(s) ==
  /\ adapter = "filesystem" /\ Running(s, "read")
  /\ work' = [work EXCEPT ![s].store = stored, ![s].pc = "check"]
  /\ UNCHANGED <<adapter, stored, requests, queue>>

ReadTable(s, table) ==
  /\ adapter = "supabase" /\ Running(s, "read")
  /\ table \notin work[s].have
  /\ work' = [work EXCEPT
       ![s].store = [@ EXCEPT ![table] = stored[table]],
       ![s].have = @ \cup {table},
       ![s].pc = IF work[s].have = {} THEN "read" ELSE "check"]
  /\ UNCHANGED <<adapter, stored, requests, queue>>

\* The mutator, and writeStore's second read of the store.  Supabase has no
\* revision: both reads say 0.
Check(s) ==
  LET r == Current(s)
      op == requests[r].op
      d == requests[r].draft
      same == stored.revision = work[s].store.revision
  IN /\ Running(s, "check")
     /\ \/ ~Admits(op, d, work[s].store) /\ Leave(s, "failed")
        \/ /\ Admits(op, d, work[s].store) /\ same
           /\ work' = [work EXCEPT
                ![s].store = Mutated(op, d, r, @),
                ![s].pc = IF adapter = "filesystem" THEN "writeFile" ELSE "writeDrafts"]
           /\ UNCHANGED <<requests, queue>>
        \/ /\ Admits(op, d, work[s].store) /\ ~same /\ work[s].tries + 1 < Retries
           /\ work' = [work EXCEPT ![s] = [Resting EXCEPT !.tries = work[s].tries + 1]]
           /\ UNCHANGED <<requests, queue>>
        \/ /\ Admits(op, d, work[s].store) /\ ~same /\ work[s].tries + 1 = Retries
           /\ Leave(s, "failed")
     /\ UNCHANGED <<adapter, stored>>

\* A bug: what is in the file and not in memory is kept.
MergedFile(store) ==
  [revision |-> store.revision + 1, drafts |-> Upserted(stored.drafts, store.drafts),
   records |-> Upserted(stored.records, store.records)]

\* A bug: what was read is written back, without the change.
LostFile(store) == [stored EXCEPT !.revision = @ + 1]

\* The content of the temporary file that is renamed into place.
NewFile(store) == [store EXCEPT !.revision = @ + 1]

\* atomicWriteStore; a failure leaves the file as it was.
WriteFile(s) ==
  /\ Running(s, "writeFile")
  /\ stored' = NewFile(work[s].store)
  /\ Leave(s, "done")
  /\ UNCHANGED adapter

\* writeSupabaseStore upserts every row of memory, whoever changed it, and
\* deletes none: first the drafts, then the tables that refer to them.
WriteDrafts(s) ==
  /\ Running(s, "writeDrafts")
  /\ stored' = [stored EXCEPT !.drafts = Upserted(@, work[s].store.drafts)]
  /\ work' = [work EXCEPT ![s].pc = "writeRecords"]
  /\ UNCHANGED <<adapter, requests, queue>>

\* The foreign keys of the tables refuse a record of a draft that is not there.
WriteRecords(s) ==
  LET records == work[s].store.records
      delete == requests[Current(s)].op = "delete"
  IN /\ Running(s, "writeRecords")
     /\ \/ /\ DOMAIN records \subseteq DOMAIN stored.drafts
           /\ stored' = [stored EXCEPT !.records = Upserted(@, records)]
           /\ Leave(s, IF delete THEN "deleting" ELSE "done")
        \/ /\ ~(DOMAIN records \subseteq DOMAIN stored.drafts)
           /\ Leave(s, "failed")
           /\ UNCHANGED stored
     /\ UNCHANGED adapter

\* A bug: the file is looked over only after it has been renamed into place.
AfterFailure(s) == IF work[s].pc = "writeFile" THEN NewFile(work[s].store) ELSE stored

\* The temporary file is removed; the rows written so far stay.
AfterFailedWrite(s) == stored

FailWrite(s) ==
  /\ \E step \in {"writeFile", "writeDrafts", "writeRecords"} : Running(s, step)
  /\ stored' = AfterFailedWrite(s)
  /\ Leave(s, "failed")
  /\ UNCHANGED adapter

\* deleteSupabaseCreateChallengeDraftRows runs outside the queue; what refers to
\* the draft's row goes with it (on delete cascade).
DeleteRows(r) ==
  LET d == requests[r].draft
  IN /\ requests[r].status = "deleting"
     /\ stored' = [stored EXCEPT !.drafts = Without(@, d), !.records = Without(@, d)]
     /\ requests' = [requests EXCEPT ![r].status = "done"]
     /\ UNCHANGED <<adapter, queue, work>>

FailDeleteRows(r) ==
  /\ requests[r].status = "deleting"
  /\ requests' = [requests EXCEPT ![r].status = "failed"]
  /\ UNCHANGED <<adapter, stored, queue, work>>

\* A process stops, and another takes its place.
Crash(s) ==
  /\ \E i \in 1..Len(requests) :
       requests[i].server = s /\ requests[i].status \in {"queued", "deleting"}
  /\ requests' = [i \in 1..Len(requests) |->
       IF requests[i].server = s /\ requests[i].status \in {"queued", "deleting"}
       THEN [requests[i] EXCEPT !.status = "lost"] ELSE requests[i]]
  /\ queue' = [queue EXCEPT ![s] = <<>>]
  /\ work' = [work EXCEPT ![s] = Resting]
  /\ UNCHANGED <<adapter, stored>>

Run(s) ==
  \/ ReadFile(s) \/ (\E table \in {"drafts", "records"} : ReadTable(s, table))
  \/ Check(s) \/ WriteFile(s) \/ WriteDrafts(s) \/ WriteRecords(s) \/ FailWrite(s)

Next ==
  \/ \E s \in Servers :
       \/ \E op \in Ops, d \in Drafts : Submit(s, op, d)
       \/ Run(s) \/ Crash(s)
  \/ \E r \in 1..Len(requests) : DeleteRows(r) \/ FailDeleteRows(r)

Spec == Init /\ [][Next]_vars

\* A server that does not stop goes on with what it has begun.
FairSpec ==
  /\ Spec
  /\ \A s \in Servers : WF_vars(Run(s))
  /\ \A r \in 1..MaxRequests :
       WF_vars(r <= Len(requests) /\ (DeleteRows(r) \/ FailDeleteRows(r)))

-----------------------------------------------------------------------------
\* Every variable has its type.
TypeOK ==
  /\ adapter \in Adapters
  /\ stored.revision \in 0..MaxRequests
  /\ adapter = "supabase" => stored.revision = 0
  /\ DOMAIN stored.drafts \subseteq Drafts /\ DOMAIN stored.records \subseteq Drafts
  /\ Len(requests) <= MaxRequests
  /\ \A r \in 1..Len(requests) : requests[r] \in
       [op : Ops, draft : Drafts, server : Servers, status : Statuses]
  /\ \A s \in Servers :
       /\ \A i \in 1..Len(queue[s]) : queue[s][i] \in 1..Len(requests)
       /\ work[s].tries < Retries
       /\ work[s].pc \in {"read", "check", "writeFile", "writeDrafts", "writeRecords"}

Made == 1..Len(requests)
Status(r) == requests[r].status

\* The store reflects the update.
Reflected(r) ==
  LET table == IF requests[r].op = "record" THEN stored.records ELSE stored.drafts
  IN requests[r].draft \in DOMAIN table /\ r \in table[requests[r].draft]

OneServer == \A r, q \in Made : requests[r].server = requests[q].server

\* No update that was answered with success is lost, unless its draft was
\* deleted.
AcceptedUpdatesKept ==
  \A r \in Made : Status(r) = "done" /\ requests[r].op # "delete" =>
    \/ Reflected(r)
    \/ \E q \in Made : /\ requests[q].op = "delete" /\ Status(q) = "done"
                       /\ requests[q].draft = requests[r].draft

\* Requests that one process serves never lose each other's updates, with either
\* adapter, whatever fails in between.
OneServerLosesNothing == OneServer => AcceptedUpdatesKept

\* With the file, an update that failed has changed nothing, whoever else was
\* writing.
FailureLeavesNoTrace ==
  adapter = "filesystem" => \A r \in Made : Status(r) = "failed" => ~Reflected(r)

\* In one process and with the file, a draft that was deleted does not come back
\* with somebody's older copy of the store.
DeletedStaysDeleted ==
  OneServer /\ adapter = "filesystem" =>
    \A r \in Made : requests[r].op = "delete" /\ Status(r) = "done" =>
      requests[r].draft \notin DOMAIN stored.drafts

\* No draft is deleted that a payment attempt or chain evidence refers to.
DeletionSparesPayments ==
  [][\A d \in DOMAIN stored.drafts \cap DOMAIN stored.records :
       d \in DOMAIN stored'.drafts]_vars

\* It is so in one process and with the file, although a delete looks at the
\* store before it queues.
OneServerSparesPayments ==
  [][OneServer /\ adapter = "filesystem" =>
       \A d \in DOMAIN stored.drafts \cap DOMAIN stored.records :
         d \in DOMAIN stored'.drafts]_vars

\* A request is answered, unless its process stops: a failed update does not
\* hold up the queue, and retries come to an end.
EveryRequestEnds ==
  \A r \in 1..MaxRequests :
    (r \in Made /\ Status(r) = "queued")
      ~> (r \in Made /\ Status(r) \in {"done", "failed", "lost"})

-----------------------------------------------------------------------------
\* What an assertion of the repository says and the code does not keep.

\* scripts/verify-create-challenge-store-safety.mjs:38: stale writers must be
\* rejected or retried.
StaleWritersRejected == AcceptedUpdatesKept
=============================================================================
