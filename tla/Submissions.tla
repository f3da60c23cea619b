----------------------------- MODULE Submissions -----------------------------
(***************************************************************************)
(* The entries of one challenge, their review and the choice of winners:   *)
(* src/services/submissions/submission-store.server.ts behind the checks   *)
(* of canonical-challenge-lifecycle.server.ts, and the routes              *)
(* review-score, finalize-review and winner-finalization.                  *)
(*                                                                         *)
(* A request stops at every await that reads or writes the store.  Nothing *)
(* puts the updates of this store in a queue, and it has no revision: an   *)
(* update reads all entries, changes one in memory and writes all of them. *)
(* The two selects of a Supabase read count as one: a key is written after *)
(* its entry and the entries decide what an update does.  The finalization *)
(* itself is the subject of Payout; here it is one step.                   *)
(***************************************************************************)
EXTENDS Naturals, FiniteSetsExt

CONSTANTS
  Requests,        \* the requests that can be in flight at once
  Creators,        \* creators with a verified payout wallet
  Ids,             \* bound: the submission ids randomUUID() gives out
  Codes,           \* anonymous entry codes, numbers in the order of the codes
  IdempotencyKeys, \* the keys clients send when they finalize
  Scores,          \* scores of a review, larger ones better
  None,
  WinnerCount,     \* draft.prizePool.winnerCount
  Settings         \* the settings to consider, see below

ASSUME SubmissionsConstants ==
  /\ None \notin Requests \cup Creators \cup Ids \cup IdempotencyKeys
  /\ IsFiniteSet(Requests)
  /\ Codes \subseteq Nat /\ Scores \subseteq Nat
  /\ WinnerCount \in Nat \ {0}
  /\ Settings \subseteq [adapter : {"filesystem", "supabase"}, overlap : Nat,
                         maxSubmissions : Nat \ {0}, maxVersions : Nat \ {0},
                         extends : BOOLEAN]

VARIABLES
  setting,   \* what does not change: SUBMISSION_PERSISTENCE_ADAPTER, how many
             \* requests may overlap, MAX_SUBMISSIONS_PER_CHALLENGE,
             \* MAX_SUBMISSION_VERSIONS, whether the brand moves the deadline
  stored,    \* what the file holds, or the two tables
  file,      \* "absent", "whole", or "torn" while and after it is written in part
  blank,     \* the constant emptyStore of the module, which callers change
  faulty,    \* a read of the whole file failed, or a write of it did
  requests,  \* the local state of each request
  closed,    \* now >= submissionDeadline
  reopened,  \* the deadline of the live draft was moved after it had passed
  scores,    \* ccn_review_scores
  winners    \* the finalized selection: the winners, the entries that were
             \* reviewed for it, whether the winners are the best ones

store == <<stored, file, blank, faulty>>
deadline == <<closed, reopened>>
vars == <<setting, store, requests, deadline, scores, winners>>

EmptyStore == [rows |-> [i \in {} |-> None], keys |-> [k \in {} |-> None]]
NoWinners == [ids |-> {}, among |-> {}, ranked |-> FALSE]
Idle == [pc |-> "idle", op |-> None, creator |-> None, arg |-> None,
         store |-> EmptyStore, shared |-> FALSE, ids |-> {}, seen |-> EmptyStore.rows,
         among |-> {}]

Init ==
  /\ setting \in Settings
  /\ stored = EmptyStore
  /\ file = "absent"
  /\ blank = EmptyStore
  /\ faulty = FALSE
  /\ requests = [r \in Requests |-> Idle]
  /\ closed = FALSE
  /\ reopened = FALSE
  /\ scores = [i \in {} |-> 0]
  /\ winners = NoWinners

Finish(r) == requests' = [requests EXCEPT ![r] = Idle]
At(r, step) == requests[r].pc = step

\* A table with one row or key set, and one with all those of memory.
Put(table, i, row) == [j \in DOMAIN table \cup {i} |-> IF j = i THEN row ELSE table[j]]
Upserted(table, memory) ==
  [j \in DOMAIN table \cup DOMAIN memory |->
     IF j \in DOMAIN memory THEN memory[j] ELSE table[j]]

Free(r) ==
  At(r, "idle") /\ Cardinality({q \in Requests : ~At(q, "idle")}) < setting.overlap

-----------------------------------------------------------------------------
\* readStore: a file that is missing or torn reads as emptyStore, and so does a
\* whole one if reading it fails.  Where the tables cannot be read it throws.
Failing == IF setting.adapter = "filesystem" /\ file = "whole" THEN BOOLEAN ELSE {FALSE}
Readable(failed) == ~failed /\ (setting.adapter = "supabase" \/ file = "whole")
Read(failed) == IF Readable(failed) THEN stored ELSE blank

\* A bug: only a draft is found.
CurrentDraft(s, c) ==
  {i \in DOMAIN s.rows : s.rows[i].creator = c /\ s.rows[i].status = "DRAFT"}

\* activeSubmission: the creator's entry, as a set of at most one.
Current(s, c) == {i \in DOMAIN s.rows : s.rows[i].creator = c}

Submitted(s) == {i \in DOMAIN s.rows : s.rows[i].status = "SUBMITTED"}

\* challengeSubmissionCount against the limit.
Full(s) == Cardinality(DOMAIN s.rows) >= setting.maxSubmissions

\* A bug: a submitted entry can be edited.
AnyEditable(row) == row.version < setting.maxVersions

\* What saveCreatorDraft lets through.
Editable(row) == row.status = "DRAFT" /\ row.version < setting.maxVersions

\* randomUUID(): an id no store, request, score or selection knows.
Fresh(i) ==
  i \notin DOMAIN stored.rows \cup DOMAIN blank.rows \cup DOMAIN scores \cup winners.ids
             \cup UNION {DOMAIN requests[q].store.rows : q \in Requests}

NewRow(c, code) == [creator |-> c, code |-> code, status |-> "DRAFT", version |-> 1]

\* The store after saveCreatorDraft: the possible ones, none if it throws.
Saved(s, c) ==
  IF Current(s, c) # {}
  THEN {[s EXCEPT !.rows[i].version = @ + 1] :
          i \in {j \in Current(s, c) : Editable(s.rows[j])}}
  ELSE IF Full(s) THEN {}
  ELSE {[s EXCEPT !.rows = Put(@, i, NewRow(c, code))] :
          i \in {j \in Ids : Fresh(j) /\ \A k \in Ids : Fresh(k) => j <= k},
          code \in Codes \ {s.rows[j].code : j \in DOMAIN s.rows}}

\* A bug: the key is kept, the status is not.
KeyOnly(s, i, k) == [s EXCEPT !.keys = Put(@, k, i)]

\* Lines 335-338: the entry is SUBMITTED, its key remembered.
Finalized(s, i, k) ==
  [s EXCEPT !.rows[i].status = "SUBMITTED", !.keys = Put(@, k, i)]

\* The store after finalizeCreatorSubmission; a known key is answered at once.
FinalizedStores(s, c, key) ==
  LET k == <<c, key>>
  IN IF k \in DOMAIN s.keys /\ s.keys[k] \in DOMAIN s.rows THEN {}
     ELSE {Finalized(s, i, k) : i \in Current(s, c)}

-----------------------------------------------------------------------------
\* saveCanonicalCreatorDraft and finalizeCanonicalCreatorSubmission, up to the
\* check of the submission deadline.
StartSave(r, c) ==
  /\ Free(r) /\ ~closed
  /\ requests' = [requests EXCEPT ![r] = [Idle EXCEPT !.pc = "read", !.op = "save", !.creator = c]]
  /\ UNCHANGED <<setting, store, deadline, scores, winners>>

StartSubmit(r, c, key) ==
  /\ Free(r) /\ ~closed
  /\ requests' = [requests EXCEPT ![r] =
       [Idle EXCEPT !.pc = "read", !.op = "submit", !.creator = c, !.arg = key]]
  /\ UNCHANGED <<setting, store, deadline, scores, winners>>

\* The store is read and changed in memory: the request's own copy, or the
\* constant emptyStore itself.
Change(r, failed) ==
  LET q == requests[r]
      next == IF q.op = "save" THEN Saved(Read(failed), q.creator)
              ELSE FinalizedStores(Read(failed), q.creator, q.arg)
  IN /\ At(r, "read") /\ failed \in Failing
     /\ faulty' = (faulty \/ failed)
     /\ \/ next = {} /\ Finish(r) /\ UNCHANGED blank
        \/ \E s \in next :
             /\ blank' = IF Readable(failed) THEN blank ELSE s
             /\ requests' = [requests EXCEPT ![r] =
                  [Idle EXCEPT !.pc = IF setting.adapter = "filesystem" THEN "open" ELSE "writeRows",
                               !.store = s, !.shared = ~Readable(failed)]]
     /\ UNCHANGED <<setting, stored, file, deadline, scores, winners>>

\* writeFile empties the file, then fills it.  An empty file reads like none.
Open(r) ==
  /\ At(r, "open")
  /\ file' = IF file = "whole" THEN "torn" ELSE file
  /\ requests' = [requests EXCEPT ![r].pc = "fill",
                                  ![r].store = IF requests[r].shared THEN blank ELSE @]
  /\ UNCHANGED <<setting, stored, blank, faulty, deadline, scores, winners>>

\* A file that somebody else has filled since keeps the tail of a longer text.
Fill(r) ==
  /\ At(r, "fill")
  /\ stored' = requests[r].store
  /\ file' \in {"whole"} \cup (IF file = "whole" THEN {"torn"} ELSE {})
  /\ Finish(r)
  /\ UNCHANGED <<setting, blank, faulty, deadline, scores, winners>>

\* The unique constraints of ccn_creator_submissions.
Unique(rows) ==
  \A i, j \in DOMAIN rows : i # j =>
    rows[i].creator # rows[j].creator /\ rows[i].code # rows[j].code

\* writeSupabaseStore upserts every entry of memory, then every key.
WriteRows(r) ==
  LET rows == Upserted(stored.rows, requests[r].store.rows)
  IN /\ At(r, "writeRows")
     /\ \/ /\ Unique(rows)
           /\ stored' = [stored EXCEPT !.rows = rows]
           /\ requests' = [requests EXCEPT ![r] =
                [Idle EXCEPT !.pc = "writeKeys", !.store = [EmptyStore EXCEPT !.keys = requests[r].store.keys]]]
        \/ ~Unique(rows) /\ Finish(r) /\ UNCHANGED stored
     /\ UNCHANGED <<setting, file, blank, faulty, deadline, scores, winners>>

WriteKeys(r) ==
  /\ At(r, "writeKeys")
  /\ stored' = [stored EXCEPT !.keys = Upserted(@, requests[r].store.keys)]
  /\ Finish(r)
  /\ UNCHANGED <<setting, file, blank, faulty, deadline, scores, winners>>

-----------------------------------------------------------------------------
\* A bug: nothing is asked of the winner attempt.
AlwaysOpen == TRUE

\* The check of the winner attempt's finalizedAt in the route review-score.
ReviewOpen == winners = NoWinners

\* Reviews are kept in Supabase only, whatever the adapter.
StartScore(r, i, score) ==
  /\ Free(r) /\ setting.adapter = "supabase"
  /\ ReviewOpen
  /\ requests' = [requests EXCEPT ![r] =
       [Idle EXCEPT !.pc = "findEntry", !.arg = score, !.ids = {i}]]
  /\ UNCHANGED <<setting, store, deadline, scores, winners>>

FindEntry(r) ==
  /\ At(r, "findEntry")
  /\ IF requests[r].ids \subseteq Submitted(Read(FALSE))
     THEN requests' = [requests EXCEPT ![r].pc = "saveScore"] ELSE Finish(r)
  /\ UNCHANGED <<setting, store, deadline, scores, winners>>

SaveScore(r) ==
  /\ At(r, "saveScore")
  /\ scores' = Upserted(scores, [i \in requests[r].ids |-> requests[r].arg])
  /\ Finish(r)
  /\ UNCHANGED <<setting, store, deadline, winners>>

\* The route finalize-review reads the entries first, then their reviews.
StartReview(r) ==
  /\ Free(r) /\ setting.adapter = "supabase"
  /\ Submitted(Read(FALSE)) # {}
  /\ requests' = [requests EXCEPT ![r] =
       [Idle EXCEPT !.pc = "readScores", !.ids = Submitted(Read(FALSE)), !.seen = Read(FALSE).rows]]
  /\ UNCHANGED <<setting, store, deadline, scores, winners>>

\* Every entry that was read has its review.
Reviewed(ids) == ids \subseteq DOMAIN scores

\* The order in which the route sorts: by score, then by entry code.
Before(rows, i, j) ==
  \/ scores[i] > scores[j]
  \/ scores[i] = scores[j] /\ rows[i].code < rows[j].code

TopOf(rows, ids) ==
  {top \in kSubset(WinnerCount, ids) : \A i \in top, j \in ids \ top : Before(rows, i, j)}

\* The winners the page names, or the best ones if it names none.
Choose(r, top, ranked) ==
  LET q == requests[r]
  IN /\ At(r, "readScores")
     /\ Reviewed(q.ids)
     /\ top \in kSubset(WinnerCount, q.ids \cap DOMAIN scores)
     /\ ranked => top \in TopOf(q.seen, q.ids)
     /\ requests' = [requests EXCEPT ![r] =
          [Idle EXCEPT !.pc = "resolve", !.ids = top, !.arg = ranked, !.among = q.ids]]
     /\ UNCHANGED <<setting, store, deadline, scores, winners>>

RefuseReview(r) ==
  /\ At(r, "readScores")
  /\ ~Reviewed(requests[r].ids) \/ Cardinality(requests[r].ids) < WinnerCount
  /\ Finish(r)
  /\ UNCHANGED <<setting, store, deadline, scores, winners>>

\* The route winner-finalization, mode finalize-selection: the winners are named
\* by the request and no review is asked for, with either adapter.  A number of
\* them other than WinnerCount is refused, and the other modes of the route
\* refuse a selection that is not final.
NameWinners(r, ids) ==
  /\ Free(r)
  /\ requests' = [requests EXCEPT ![r] =
       [Idle EXCEPT !.pc = "resolve", !.ids = ids, !.arg = FALSE]]
  /\ UNCHANGED <<setting, store, deadline, scores, winners>>

\* verifyCanonicalChallengeForWinnerFinalization
SelectionPhase == closed

\* resolveCanonicalWinnerSelection reads the entries once more.
ResolveSelection(r, failed) ==
  /\ At(r, "resolve") /\ failed \in Failing
  /\ faulty' = (faulty \/ failed)
  /\ IF SelectionPhase /\ requests[r].ids \subseteq Submitted(Read(failed))
     THEN requests' = [requests EXCEPT ![r].pc = "finalize"] ELSE Finish(r)
  /\ UNCHANGED <<setting, stored, file, blank, deadline, scores, winners>>

\* finalizeWinnerSelection answers a finalized attempt without a change.
Finalize(r) ==
  /\ At(r, "finalize")
  /\ winners' = IF winners = NoWinners
                THEN [ids |-> requests[r].ids, among |-> requests[r].among,
                      ranked |-> requests[r].arg]
                ELSE winners
  /\ Finish(r)
  /\ UNCHANGED <<setting, store, deadline, scores>>

-----------------------------------------------------------------------------
\* A call the request makes fails, or the process of the server stops: all
\* requests end, and the constant emptyStore is as it was written.
Abort(r) ==
  /\ ~At(r, "idle")
  /\ Finish(r)
  /\ faulty' = (faulty \/ At(r, "open") \/ At(r, "fill"))
  /\ UNCHANGED <<setting, stored, file, blank, deadline, scores, winners>>

Restart ==
  /\ \E r \in Requests : ~At(r, "idle")
  /\ requests' = [r \in Requests |-> Idle]
  /\ blank' = EmptyStore
  /\ faulty' = (faulty \/ \E r \in Requests : At(r, "open") \/ At(r, "fill"))
  /\ UNCHANGED <<setting, stored, file, deadline, scores, winners>>

\* The submission deadline passes; the brand moves it, by saving the live draft
\* with a later one.
Close ==
  /\ ~closed
  /\ closed' = TRUE
  /\ UNCHANGED <<setting, store, requests, reopened, scores, winners>>

Reopen ==
  /\ setting.extends /\ closed
  /\ closed' = FALSE
  /\ reopened' = TRUE
  /\ UNCHANGED <<setting, store, requests, scores, winners>>

Next ==
  \/ \E r \in Requests :
       \/ \E c \in Creators :
            \/ StartSave(r, c)
            \/ \E key \in IdempotencyKeys : StartSubmit(r, c, key)
       \/ \E failed \in BOOLEAN : Change(r, failed) \/ ResolveSelection(r, failed)
       \/ Open(r) \/ Fill(r) \/ WriteRows(r) \/ WriteKeys(r)
       \/ \E i \in Ids, score \in Scores : StartScore(r, i, score)
       \/ FindEntry(r) \/ SaveScore(r)
       \/ StartReview(r) \/ RefuseReview(r)
       \/ \E top \in SUBSET Ids, ranked \in BOOLEAN : Choose(r, top, ranked)
       \/ \E ids \in kSubset(WinnerCount, Ids) : NameWinners(r, ids)
       \/ Finalize(r) \/ Abort(r)
  \/ Restart \/ Close \/ Reopen

Spec == Init /\ [][Next]_vars

-----------------------------------------------------------------------------
Rows == [creator : Creators, code : Codes, status : {"DRAFT", "SUBMITTED"},
         version : 1..setting.maxVersions]

\* Every variable has its type, and no entry has more versions than allowed.
TypeOK ==
  /\ setting \in Settings
  /\ \A s \in {stored, blank} \cup {requests[r].store : r \in Requests} :
       /\ DOMAIN s.rows \subseteq Ids
       /\ \A i \in DOMAIN s.rows : s.rows[i] \in Rows
       /\ \A k \in DOMAIN s.keys : k \in Creators \X IdempotencyKeys /\ s.keys[k] \in Ids
  /\ file \in {"absent", "whole", "torn"}
  /\ {faulty, closed, reopened} \subseteq BOOLEAN
  /\ \A r \in Requests : requests[r].ids \cup requests[r].among \subseteq Ids
  /\ \A i \in DOMAIN scores : i \in Ids /\ scores[i] \in Scores
  /\ winners.ids \cup winners.among \subseteq Ids /\ winners.ranked \in BOOLEAN

\* However requests overlap, a creator has one entry and a code is the code of
\* one entry: with the file because all of it is overwritten, with Supabase
\* because of its constraints.
OneEntryPerCreator == Unique(stored.rows)

\* The limit of entries holds, except for requests that overlap on Supabase.
LimitHolds ==
  setting.adapter = "filesystem" \/ setting.overlap = 1 =>
    Cardinality(DOMAIN stored.rows) <= setting.maxSubmissions

\* A finalize key that would be answered with success names an entry that is
\* submitted, except for requests that overlap on Supabase.
KeysNameSubmitted ==
  setting.adapter = "filesystem" \/ setting.overlap = 1 =>
    \A k \in DOMAIN stored.keys : stored.keys[k] \in Submitted(stored)

\* A submitted entry is neither changed nor lost.
SubmittedStay ==
  \A i \in Submitted(stored) : i \in DOMAIN stored'.rows /\ stored'.rows[i] = stored.rows[i]

\* It is so while requests do not overlap, and no read and no write of the file
\* fails: after a read that fails the next write replaces all entries.
SubmittedStayAlone == [][setting.overlap = 1 /\ ~faulty => SubmittedStay]_vars

\* While requests do not overlap, and no read and no write of the file fails, a
\* finalized selection stays right: the winners are submitted.  If it was made by
\* a review, every entry was reviewed, but for those that came after the deadline
\* was moved; and if the winners are the best ones by rank, none of the reviewed
\* entries comes before one, whatever is entered or scored later.  Winners that the
\* payout route names need no review.
WinnersStand ==
  setting.overlap = 1 /\ ~faulty /\ winners # NoWinners =>
    /\ winners.ids \subseteq Submitted(stored)
    /\ winners.among # {} =>
         /\ winners.among \subseteq DOMAIN scores \cap Submitted(stored)
         /\ ~reopened => winners.among = Submitted(stored)
         /\ winners.ranked => winners.ids \in TopOf(stored.rows, winners.among)

-----------------------------------------------------------------------------
\* What the documentation says and the code does not keep.

\* SYSTEM_ARCHITECTURE.md:226: immutable submitted state.
SubmittedStateIsImmutable == [][SubmittedStay]_vars
=============================================================================
