-------------------------- MODULE SubmissionsProofs --------------------------
(***************************************************************************)
(* Theorems about the entries of a challenge for all creators, ids, codes, *)
(* scores, limits and numbers of requests.                                 *)
(***************************************************************************)
EXTENDS Submissions, FiniteSetTheorems, TLAPS

Row == [creator : Creators, code : Codes, status : {"DRAFT", "SUBMITTED"}, version : Nat]
TablesOf(D, R) == UNION {[A -> R] : A \in SUBSET D}
RowTables == TablesOf(Ids, Row)
Keys == Creators \X IdempotencyKeys
KeyTables == TablesOf(Keys, Ids)
ScoreTables == TablesOf(Ids, Scores)
Stores == [rows : RowTables, keys : KeyTables]
Steps == {"idle", "read", "open", "fill", "writeRows", "writeKeys", "findEntry", "saveScore",
          "readScores", "resolve", "finalize"}
Locals ==
  [pc : Steps, op : {"save", "submit", None}, creator : Creators \cup {None},
   arg : IdempotencyKeys \cup Scores \cup BOOLEAN \cup {None}, store : Stores,
   shared : BOOLEAN, ids : SUBSET Ids, seen : RowTables, among : SUBSET Ids]
Selections == [ids : SUBSET Ids, among : SUBSET Ids, ranked : BOOLEAN]

Typed ==
  /\ setting \in Settings
  /\ stored \in Stores /\ blank \in Stores
  /\ file \in {"absent", "whole", "torn"}
  /\ {faulty, closed, reopened} \subseteq BOOLEAN
  /\ requests \in [Requests -> Locals]
  /\ scores \in ScoreTables
  /\ winners \in Selections

-----------------------------------------------------------------------------
\* What the operations on tables yield.

LEMMA PutRow ==
  ASSUME NEW t \in RowTables, NEW i \in Ids, NEW row \in Row
  PROVE  /\ Put(t, i, row) \in RowTables
         /\ DOMAIN Put(t, i, row) = DOMAIN t \cup {i}
         /\ Put(t, i, row)[i] = row
         /\ \A j \in DOMAIN t \ {i} : Put(t, i, row)[j] = t[j]
<1>1. t \in [DOMAIN t -> Row] /\ DOMAIN t \subseteq Ids
  BY DEF RowTables, TablesOf
<1>2. Put(t, i, row) \in [DOMAIN t \cup {i} -> Row]
  BY <1>1 DEF Put
<1>3. Put(t, i, row) \in RowTables
  BY <1>1, <1>2 DEF RowTables, TablesOf
<1> QED BY <1>2, <1>3 DEF Put

LEMMA PutKey ==
  ASSUME NEW t \in KeyTables, NEW k \in Keys, NEW i \in Ids
  PROVE  /\ Put(t, k, i) \in KeyTables
         /\ DOMAIN Put(t, k, i) = DOMAIN t \cup {k}
         /\ Put(t, k, i)[k] = i
         /\ \A j \in DOMAIN t \ {k} : Put(t, k, i)[j] = t[j]
<1>1. t \in [DOMAIN t -> Ids] /\ DOMAIN t \subseteq Keys
  BY DEF KeyTables, TablesOf
<1>2. Put(t, k, i) \in [DOMAIN t \cup {k} -> Ids]
  BY <1>1 DEF Put
<1>3. Put(t, k, i) \in KeyTables
  BY <1>1, <1>2 DEF KeyTables, TablesOf
<1> QED BY <1>2, <1>3 DEF Put

\* Upserting keeps to the types.
LEMMA UpsertedTables ==
  ASSUME NEW D, NEW R, NEW t \in TablesOf(D, R), NEW u \in TablesOf(D, R)
  PROVE  Upserted(t, u) \in TablesOf(D, R)
<1>1. t \in [DOMAIN t -> R] /\ DOMAIN t \subseteq D
  BY DEF TablesOf
<1>2. u \in [DOMAIN u -> R] /\ DOMAIN u \subseteq D
  BY DEF TablesOf
<1>3. Upserted(t, u) \in [DOMAIN t \cup DOMAIN u -> R]
  BY <1>1, <1>2 DEF Upserted
<1>4. DOMAIN t \cup DOMAIN u \subseteq D
  BY <1>1, <1>2
<1> QED BY <1>3, <1>4 DEF TablesOf

LEMMA EmptyStores == EmptyStore \in Stores /\ DOMAIN EmptyStore.rows = {} /\ DOMAIN EmptyStore.keys = {}
<1>1. EmptyStore.rows = [i \in {} |-> None] /\ EmptyStore.keys = [k \in {} |-> None]
  BY DEF EmptyStore
<1>2. [i \in {} |-> None] \in [{} -> Row] /\ [k \in {} |-> None] \in [{} -> Ids]
  OBVIOUS
<1>3. EmptyStore.rows \in RowTables /\ EmptyStore.keys \in KeyTables
  BY <1>1, <1>2 DEF RowTables, KeyTables, TablesOf
<1> QED BY <1>1, <1>3 DEF EmptyStore, Stores

LEMMA IdleLocals ==
  /\ Idle \in Locals /\ Idle.pc = "idle" /\ Idle.store = EmptyStore /\ Idle.ids = {}
  /\ Idle.among = {}
  /\ Idle.shared = FALSE
<1>1. EmptyStore.rows \in RowTables /\ EmptyStore \in Stores
  BY EmptyStores DEF Stores
<1> QED BY <1>1 DEF Idle, Locals, Steps

-----------------------------------------------------------------------------
\* A store as each copy of it is: a creator has one entry, a code is the code of
\* one, and no entry has more versions than n.
Sound(s, n) ==
  /\ s \in Stores
  /\ Unique(s.rows)
  /\ \A i \in DOMAIN s.rows : s.rows[i].version \in 1..n

\* A store whose keys name submitted entries and that has at most m entries.
Right(s, m) ==
  /\ \A k \in DOMAIN s.keys : s.keys[k] \in Submitted(s)
  /\ IsFiniteSet(DOMAIN s.rows) /\ Cardinality(DOMAIN s.rows) <= m

\* Nothing of s is missing in t, and what s has submitted is so in t.
Extends(t, s) ==
  \A i \in DOMAIN s.rows :
    /\ i \in DOMAIN t.rows
    /\ s.rows[i].status = "SUBMITTED" => t.rows[i] = s.rows[i]

\* The limits are numbers.
LEMMA Limits ==
  ASSUME Typed
  PROVE  /\ setting.maxVersions \in Nat \ {0} /\ setting.maxSubmissions \in Nat \ {0}
         /\ setting.adapter \in {"filesystem", "supabase"} /\ setting.overlap \in Nat
BY SubmissionsConstants DEF Typed, SubmissionsConstants

\* What saveCreatorDraft and finalizeCreatorSubmission leave of a store.
LEMMA EditedStore ==
  ASSUME NEW n \in Nat, NEW m \in Nat, NEW s, Sound(s, n), NEW i \in DOMAIN s.rows,
         s.rows[i].status = "DRAFT", s.rows[i].version < n,
         NEW t, t = [s EXCEPT !.rows[i].version = @ + 1]
  PROVE  Sound(t, n) /\ (Right(s, m) => Right(t, m)) /\ Extends(t, s)
<1>1. /\ s.rows \in [DOMAIN s.rows -> Row] /\ DOMAIN s.rows \subseteq Ids /\ s.rows \in RowTables
      /\ s.keys \in KeyTables
  BY DEF Sound, Stores, RowTables, TablesOf
<1>2. PICK old : old = s.rows[i]
  OBVIOUS
<1>3. PICK row : row = [old EXCEPT !.version = @ + 1]
  OBVIOUS
<1>4. old \in Row
  BY <1>1, <1>2
<1>5. /\ row \in Row /\ row.creator = old.creator /\ row.code = old.code /\ row.status = old.status
      /\ row.version = old.version + 1
  BY <1>3, <1>4 DEF Row
<1>6. PICK rows : rows = [s.rows EXCEPT ![i] = row]
  OBVIOUS
<1>7. t = [s EXCEPT !.rows = rows]
  BY <1>2, <1>3, <1>6
<1>8. /\ rows \in [DOMAIN s.rows -> Row] /\ DOMAIN rows = DOMAIN s.rows /\ rows[i] = row
      /\ \A j \in DOMAIN s.rows \ {i} : rows[j] = s.rows[j]
  BY <1>1, <1>5, <1>6
<1>9. rows \in RowTables
  BY <1>1, <1>8 DEF RowTables, TablesOf
<1>10. t \in Stores /\ t.rows = rows /\ t.keys = s.keys
  BY <1>7, <1>9 DEF Sound, Stores
<1>11. \A j \in DOMAIN rows :
         /\ rows[j].creator = s.rows[j].creator /\ rows[j].code = s.rows[j].code
         /\ rows[j].status = s.rows[j].status
  BY <1>2, <1>5, <1>8
<1>12. Unique(rows)
  BY <1>8, <1>11 DEF Sound, Unique
<1>13. \A j \in DOMAIN rows : rows[j].version \in 1..n
  <2>1. old.version \in 1..n /\ old.version < n /\ row.version \in 1..n
    BY <1>2, <1>5 DEF Sound
  <2> QED BY <2>1, <1>8 DEF Sound
<1>14. Right(s, m) => Right(t, m)
  BY <1>8, <1>10, <1>11 DEF Right, Submitted
<1>15. Extends(t, s)
  BY <1>8, <1>10 DEF Extends
<1> QED BY <1>10, <1>12, <1>13, <1>14, <1>15 DEF Sound

LEMMA EnteredStore ==
  ASSUME NEW n \in Nat \ {0}, NEW m \in Nat, NEW s, Sound(s, n), NEW i \in Ids, i \notin DOMAIN s.rows,
         NEW c \in Creators, Current(s, c) = {},
         NEW code \in Codes, \A j \in DOMAIN s.rows : s.rows[j].code # code,
         Right(s, m) => Cardinality(DOMAIN s.rows) < m,
         NEW t, t = [s EXCEPT !.rows = Put(@, i, NewRow(c, code))]
  PROVE  Sound(t, n) /\ (Right(s, m) => Right(t, m)) /\ Extends(t, s)
<1>1. PICK row : row = NewRow(c, code)
  OBVIOUS
<1>2. /\ row \in Row /\ row.creator = c /\ row.code = code /\ row.status = "DRAFT" /\ row.version = 1
  BY <1>1 DEF NewRow, Row
<1>3. s.rows \in RowTables /\ s.keys \in KeyTables
  BY DEF Sound, Stores
<1>4. PICK rows : rows = Put(s.rows, i, row)
  OBVIOUS
<1>5. /\ rows \in RowTables /\ DOMAIN rows = DOMAIN s.rows \cup {i} /\ rows[i] = row
      /\ \A j \in DOMAIN s.rows : rows[j] = s.rows[j]
  BY <1>2, <1>3, <1>4, PutRow
<1>6. t \in Stores /\ t.rows = rows /\ t.keys = s.keys
  BY <1>1, <1>4, <1>5 DEF Sound, Stores
<1>7. Unique(rows)
  BY <1>2, <1>5 DEF Sound, Unique, Current
<1>8. \A j \in DOMAIN rows : rows[j].version \in 1..n
  BY <1>2, <1>5 DEF Sound
<1>9. Right(s, m) => Right(t, m)
  <2> SUFFICES ASSUME Right(s, m) PROVE Right(t, m)
    OBVIOUS
  <2>1. \A k \in DOMAIN t.keys : t.keys[k] \in Submitted(t)
    BY <1>5, <1>6 DEF Right, Submitted
  <2>2. IsFiniteSet(DOMAIN s.rows) /\ Cardinality(DOMAIN s.rows) < m
    BY DEF Right
  <2>3. /\ IsFiniteSet(DOMAIN rows) /\ Cardinality(DOMAIN rows) = Cardinality(DOMAIN s.rows) + 1
        /\ Cardinality(DOMAIN s.rows) \in Nat
    BY <1>5, <2>2, FS_AddElement, FS_CardinalityType
  <2> QED BY <1>6, <2>1, <2>2, <2>3 DEF Right
<1>10. Extends(t, s)
  BY <1>5, <1>6 DEF Extends
<1> QED BY <1>6, <1>7, <1>8, <1>9, <1>10 DEF Sound

LEMMA FinalizedStore ==
  ASSUME NEW n \in Nat, NEW m \in Nat, NEW s, Sound(s, n), NEW i \in DOMAIN s.rows,
         NEW k \in Keys, NEW t, t = Finalized(s, i, k)
  PROVE  Sound(t, n) /\ (Right(s, m) => Right(t, m)) /\ Extends(t, s)
<1>1. /\ s.rows \in [DOMAIN s.rows -> Row] /\ DOMAIN s.rows \subseteq Ids /\ s.rows \in RowTables
      /\ s.keys \in KeyTables
  BY DEF Sound, Stores, RowTables, TablesOf
<1>2. PICK old : old = s.rows[i]
  OBVIOUS
<1>3. PICK row : row = [old EXCEPT !.status = "SUBMITTED"]
  OBVIOUS
<1>4. old \in Row
  BY <1>1, <1>2
<1>5. /\ row \in Row /\ row.creator = old.creator /\ row.code = old.code
      /\ row.status = "SUBMITTED" /\ row.version = old.version
      /\ old.status = "SUBMITTED" => row = old
  BY <1>3, <1>4 DEF Row
<1>6. PICK rows : rows = [s.rows EXCEPT ![i] = row]
  OBVIOUS
<1>7. PICK keys : keys = Put(s.keys, k, i)
  OBVIOUS
<1>8. t = [s EXCEPT !.rows = rows, !.keys = keys]
  BY <1>2, <1>3, <1>6, <1>7 DEF Finalized
<1>9. /\ rows \in [DOMAIN s.rows -> Row] /\ DOMAIN rows = DOMAIN s.rows /\ rows[i] = row
      /\ \A j \in DOMAIN s.rows \ {i} : rows[j] = s.rows[j]
  BY <1>1, <1>5, <1>6
<1>10. rows \in RowTables
  BY <1>1, <1>9 DEF RowTables, TablesOf
<1>11. /\ keys \in KeyTables /\ DOMAIN keys = DOMAIN s.keys \cup {k} /\ keys[k] = i
       /\ \A j \in DOMAIN s.keys \ {k} : keys[j] = s.keys[j]
  <2>1. PICK table : table = s.keys
    OBVIOUS
  <2>2. table \in KeyTables /\ i \in Ids
    BY <1>1, <2>1
  <2>3. keys = Put(table, k, i)
    BY <1>7, <2>1
  <2>4. /\ Put(table, k, i) \in KeyTables /\ DOMAIN Put(table, k, i) = DOMAIN table \cup {k}
        /\ Put(table, k, i)[k] = i /\ \A j \in DOMAIN table \ {k} : Put(table, k, i)[j] = table[j]
    BY <2>2, PutKey
  <2> QED BY <2>1, <2>3, <2>4
<1>12. t \in Stores /\ t.rows = rows /\ t.keys = keys
  BY <1>8, <1>10, <1>11 DEF Sound, Stores
<1>13. \A j \in DOMAIN rows :
         /\ rows[j].creator = s.rows[j].creator /\ rows[j].code = s.rows[j].code
         /\ rows[j].version = s.rows[j].version
         /\ s.rows[j].status = "SUBMITTED" => rows[j] = s.rows[j]
  BY <1>2, <1>5, <1>9
<1>14. Unique(rows)
  BY <1>9, <1>13 DEF Sound, Unique
<1>15. \A j \in DOMAIN rows : rows[j].version \in 1..n
  BY <1>9, <1>13 DEF Sound
<1>16. Right(s, m) => Right(t, m)
  <2> SUFFICES ASSUME Right(s, m) PROVE Right(t, m)
    OBVIOUS
  <2>1. \A j \in Submitted(s) \cup {i} : j \in Submitted(t)
    BY <1>5, <1>9, <1>12, <1>13 DEF Submitted
  <2>2. \A j \in DOMAIN t.keys : t.keys[j] \in Submitted(t)
    BY <1>11, <1>12, <2>1 DEF Right
  <2> QED BY <1>9, <1>12, <2>2 DEF Right
<1>17. Extends(t, s)
  BY <1>9, <1>12, <1>13 DEF Extends
<1> QED BY <1>12, <1>14, <1>15, <1>16, <1>17 DEF Sound

\* The change of a request, whichever it is.
LEMMA ChangedStore ==
  ASSUME Typed, NEW failed, NEW s, s = Read(failed), NEW n, n = setting.maxVersions, Sound(s, n),
         NEW m, m = setting.maxSubmissions, NEW c \in Creators, NEW t,
         t \in Saved(s, c) \/ \E k \in IdempotencyKeys : t \in FinalizedStores(s, c, k)
  PROVE  Sound(t, n) /\ (Right(s, m) => Right(t, m)) /\ Extends(t, s)
<1>1. n \in Nat \ {0} /\ m \in Nat
  BY Limits
<1>2. Current(s, c) \subseteq DOMAIN s.rows
  BY DEF Current
<1>3. CASE t \in Saved(s, c) /\ Current(s, c) # {}
  <2>1. PICK i \in Current(s, c) :
          Editable(s.rows[i]) /\ t = [s EXCEPT !.rows[i].version = @ + 1]
    BY <1>3 DEF Saved
  <2>2. s.rows[i].status = "DRAFT" /\ s.rows[i].version < n
    BY <2>1 DEF Editable
  <2> QED BY <1>1, <1>2, <2>1, <2>2, EditedStore
<1>4. CASE t \in Saved(s, c) /\ Current(s, c) = {}
  <2>1. ~Full(s)
    BY <1>4 DEF Saved
  <2>2. PICK i \in Ids, code \in Codes :
          /\ Fresh(i) /\ code \notin {s.rows[j].code : j \in DOMAIN s.rows}
          /\ t = [s EXCEPT !.rows = Put(@, i, NewRow(c, code))]
    BY <1>4, <2>1 DEF Saved
  <2>3. i \notin DOMAIN s.rows
    BY <2>2 DEF Fresh, Read
  <2>4. Right(s, m) => Cardinality(DOMAIN s.rows) < m
    <3>1. ~(Cardinality(DOMAIN s.rows) >= m)
      BY <2>1 DEF Full
    <3> QED BY <1>1, <3>1, FS_CardinalityType DEF Right
  <2>5. \A j \in DOMAIN s.rows : s.rows[j].code # code
    BY <2>2
  <2> QED BY <1>1, <1>4, <2>2, <2>3, <2>4, <2>5, EnteredStore
<1>5. ASSUME NEW key \in IdempotencyKeys, t \in FinalizedStores(s, c, key)
      PROVE  Sound(t, n) /\ (Right(s, m) => Right(t, m)) /\ Extends(t, s)
  <2>1. <<c, key>> \in Keys
    BY DEF Keys
  <2>2. PICK i \in Current(s, c) : t = Finalized(s, i, <<c, key>>)
    BY <1>5, Zenon DEF FinalizedStores
  <2> QED BY <1>1, <1>2, <2>1, <2>2, FinalizedStore
<1> QED BY <1>3, <1>4, <1>5

-----------------------------------------------------------------------------
\* What a request holds at its step: whose entry and which key while it changes
\* the store, a score while it reviews, whether the winners are ranked while it
\* finalizes; the steps belong to one adapter each.
StepOk(q, adapter) ==
  /\ q.pc = "read" =>
       /\ q.op \in {"save", "submit"} /\ q.creator \in Creators
       /\ q.op = "submit" => q.arg \in IdempotencyKeys
  /\ q.pc \in {"findEntry", "saveScore"} => q.arg \in Scores
  /\ q.pc \in {"resolve", "finalize"} => q.arg \in BOOLEAN
  /\ adapter = "filesystem" => q.pc \in {"idle", "read", "open", "fill", "resolve", "finalize"}
  /\ adapter = "supabase" => q.pc \notin {"open", "fill"}

BaseInv ==
  /\ Typed
  /\ Sound(stored, setting.maxVersions) /\ Sound(blank, setting.maxVersions)
  /\ \A r \in Requests :
       StepOk(requests[r], setting.adapter) /\ Sound(requests[r].store, setting.maxVersions)
  /\ setting.adapter = "filesystem" =>
       /\ Right(stored, setting.maxSubmissions) /\ Right(blank, setting.maxSubmissions)
       /\ \A r \in Requests : Right(requests[r].store, setting.maxSubmissions)

LEMMA EmptySound ==
  ASSUME NEW n \in Nat, NEW m \in Nat
  PROVE  Sound(EmptyStore, n) /\ Right(EmptyStore, m)
<1>1. EmptyStore \in Stores /\ DOMAIN EmptyStore.rows = {} /\ DOMAIN EmptyStore.keys = {}
  BY EmptyStores
<1>2. IsFiniteSet({}) /\ Cardinality({}) = 0
  BY FS_EmptySet
<1>3. IsFiniteSet(DOMAIN EmptyStore.rows) /\ Cardinality(DOMAIN EmptyStore.rows) <= m
  BY <1>1, <1>2
<1> QED BY <1>1, <1>3 DEF Sound, Right, Unique

LEMMA InitBase == Init => BaseInv
<1> SUFFICES ASSUME Init PROVE BaseInv
  OBVIOUS
<1>1. setting \in Settings
  BY DEF Init
<1>2. setting.maxVersions \in Nat /\ setting.maxSubmissions \in Nat
  BY <1>1, SubmissionsConstants DEF SubmissionsConstants
<1>3. Sound(EmptyStore, setting.maxVersions) /\ Right(EmptyStore, setting.maxSubmissions)
  BY <1>2, EmptySound
<1>4. \A r \in Requests : requests[r] = Idle
  BY DEF Init
<1>5. StepOk(Idle, setting.adapter)
  BY IdleLocals DEF StepOk
<1>6. scores \in ScoreTables
  <2>1. scores \in [{} -> Scores]
    BY DEF Init
  <2> QED BY <2>1 DEF ScoreTables, TablesOf
<1>7. Typed
  BY <1>1, <1>6, EmptyStores, IdleLocals DEF Init, Typed, NoWinners, Selections
<1> QED BY <1>3, <1>4, <1>5, <1>7, IdleLocals DEF Init, BaseInv

\* A step of one request: the copy of the store it then holds, and what it
\* stores, are sound.
LEMMA BaseStep ==
  ASSUME BaseInv, UNCHANGED setting, NEW r \in Requests, NEW q \in Locals,
         requests' = [requests EXCEPT ![r] = q],
         StepOk(q, setting.adapter), Sound(q.store, setting.maxVersions),
         setting.adapter = "filesystem" => Right(q.store, setting.maxSubmissions),
         \/ stored' = stored
         \/ /\ Sound(stored', setting.maxVersions)
            /\ setting.adapter = "filesystem" => Right(stored', setting.maxSubmissions),
         \/ blank' = blank
         \/ /\ Sound(blank', setting.maxVersions)
            /\ setting.adapter = "filesystem" => Right(blank', setting.maxSubmissions),
         file' \in {"absent", "whole", "torn"}, faulty' \in BOOLEAN, {closed', reopened'} \subseteq BOOLEAN,
         scores' \in ScoreTables, winners' \in Selections
  PROVE  /\ BaseInv'
         /\ requests'[r] = q /\ \A p \in Requests \ {r} : requests'[p] = requests[p]
<1>1. requests \in [Requests -> Locals]
  BY DEF BaseInv, Typed
<1>2. /\ requests' \in [Requests -> Locals]
      /\ requests'[r] = q /\ \A p \in Requests \ {r} : requests'[p] = requests[p]
  BY <1>1
<1>3. PICK n, m, a : n = setting.maxVersions /\ m = setting.maxSubmissions /\ a = setting.adapter
  OBVIOUS
<1>4. n = setting'.maxVersions /\ m = setting'.maxSubmissions /\ a = setting'.adapter
  BY <1>3
<1>5. Sound(stored', n) /\ Sound(blank', n)
  BY <1>3 DEF BaseInv
<1>6. a = "filesystem" => Right(stored', m) /\ Right(blank', m)
  BY <1>3 DEF BaseInv
<1>7. \A p \in Requests : StepOk(requests'[p], a) /\ Sound(requests'[p].store, n)
  BY <1>2, <1>3 DEF BaseInv
<1>8. a = "filesystem" => \A p \in Requests : Right(requests'[p].store, m)
  BY <1>2, <1>3 DEF BaseInv
<1>9. Typed'
  BY <1>2, <1>5 DEF BaseInv, Typed, Sound
<1>10. Sound(stored, setting.maxVersions)' /\ Sound(blank, setting.maxVersions)'
  BY <1>4, <1>5 DEF Sound, Unique
<1>11. \A p \in Requests : StepOk(requests'[p], setting'.adapter) /\ Sound(requests'[p].store, setting'.maxVersions)
  BY <1>4, <1>7
<1>12. setting'.adapter = "filesystem" =>
         /\ Right(stored', setting'.maxSubmissions) /\ Right(blank', setting'.maxSubmissions)
         /\ \A p \in Requests : Right(requests'[p].store, setting'.maxSubmissions)
  BY <1>4, <1>6, <1>8
<1>13. BaseInv'
  BY <1>5, <1>9, <1>4, <1>11, <1>12 DEF BaseInv
<1> QED BY <1>2, <1>13

\* A request that ends.
LEMMA FinishBase ==
  ASSUME BaseInv, UNCHANGED setting, NEW r \in Requests, Finish(r),
         \/ stored' = stored
         \/ /\ Sound(stored', setting.maxVersions)
            /\ setting.adapter = "filesystem" => Right(stored', setting.maxSubmissions),
         blank' = blank,
         file' \in {"absent", "whole", "torn"}, faulty' \in BOOLEAN, {closed', reopened'} \subseteq BOOLEAN,
         scores' \in ScoreTables, winners' \in Selections
  PROVE  /\ BaseInv'
         /\ requests'[r] = Idle /\ \A p \in Requests \ {r} : requests'[p] = requests[p]
<1>1. Idle \in Locals /\ Idle.store = EmptyStore /\ StepOk(Idle, setting.adapter)
  BY IdleLocals DEF StepOk
<1>2. Sound(EmptyStore, setting.maxVersions) /\ Right(EmptyStore, setting.maxSubmissions)
  BY EmptySound, Limits DEF BaseInv
<1> QED BY <1>1, <1>2, BaseStep DEF Finish

-----------------------------------------------------------------------------
\* What each step does.

LEMMA StartEffect ==
  ASSUME BaseInv, NEW r \in Requests, NEW c \in Creators,
         StartSave(r, c) \/ \E key \in IdempotencyKeys : StartSubmit(r, c, key)
  PROVE  /\ BaseInv' /\ Free(r) /\ ~closed
         /\ requests'[r].pc = "read" /\ \A p \in Requests \ {r} : requests'[p] = requests[p]
         /\ UNCHANGED <<setting, store, closed, reopened, scores, winners>>
<1>1. /\ Free(r) /\ ~closed /\ UNCHANGED <<setting, store, closed, reopened, scores, winners>>
      /\ \/ requests' = [requests EXCEPT ![r] = [Idle EXCEPT !.pc = "read", !.op = "save", !.creator = c]]
         \/ \E key \in IdempotencyKeys : requests' = [requests EXCEPT ![r] =
              [Idle EXCEPT !.pc = "read", !.op = "submit", !.creator = c, !.arg = key]]
  BY DEF StartSave, StartSubmit, deadline
<1>2. PICK q : /\ requests' = [requests EXCEPT ![r] = q]
               /\ \/ q = [Idle EXCEPT !.pc = "read", !.op = "save", !.creator = c]
                  \/ \E key \in IdempotencyKeys :
                       q = [Idle EXCEPT !.pc = "read", !.op = "submit", !.creator = c, !.arg = key]
  BY <1>1
<1>3. CASE q = [Idle EXCEPT !.pc = "read", !.op = "save", !.creator = c]
  <2>1. q \in Locals /\ q.pc = "read" /\ q.store = EmptyStore /\ q.op = "save" /\ q.creator = c
    BY <1>3, IdleLocals DEF Locals, Steps
  <2> QED BY <1>1, <1>2, <2>1, BaseStep, EmptySound, Limits DEF BaseInv, Typed, StepOk, store, deadline
<1>4. CASE \E key \in IdempotencyKeys :
             q = [Idle EXCEPT !.pc = "read", !.op = "submit", !.creator = c, !.arg = key]
  <2>1. PICK key \in IdempotencyKeys :
          q = [Idle EXCEPT !.pc = "read", !.op = "submit", !.creator = c, !.arg = key]
    BY <1>4
  <2>2. q \in Locals /\ q.pc = "read" /\ q.arg = key
    BY <2>1, IdleLocals DEF Locals, Steps
  <2>3. /\ q \in Locals /\ q.pc = "read" /\ q.store = EmptyStore /\ q.op = "submit"
        /\ q.creator = c /\ q.arg \in IdempotencyKeys
    BY <2>1, <2>2, IdleLocals DEF Locals
  <2> QED BY <1>1, <1>2, <2>3, BaseStep, EmptySound, Limits DEF BaseInv, Typed, StepOk, store, deadline
<1> QED BY <1>2, <1>3, <1>4

LEMMA ChangeEffect ==
  ASSUME BaseInv, NEW r \in Requests, NEW failed \in BOOLEAN, Change(r, failed)
  PROVE  /\ BaseInv' /\ At(r, "read") /\ failed \in Failing /\ faulty' = (faulty \/ failed)
         /\ \A p \in Requests \ {r} : requests'[p] = requests[p]
         /\ UNCHANGED <<setting, stored, file, closed, reopened, scores, winners>>
         /\ \/ requests'[r] = Idle
            \/ /\ requests'[r].pc = IF setting.adapter = "filesystem" THEN "open" ELSE "writeRows"
               /\ requests'[r].shared = ~Readable(failed)
               /\ Extends(requests'[r].store, Read(failed))
               /\ Right(Read(failed), setting.maxSubmissions) =>
                    Right(requests'[r].store, setting.maxSubmissions)
<1> DEFINE next == IF requests[r].op = "save" THEN Saved(Read(failed), requests[r].creator)
                   ELSE FinalizedStores(Read(failed), requests[r].creator, requests[r].arg)
<1>1. /\ At(r, "read") /\ failed \in Failing /\ faulty' = (faulty \/ failed)
      /\ UNCHANGED <<setting, stored, file, closed, reopened, scores, winners>>
      /\ \/ Finish(r) /\ UNCHANGED blank
         \/ \E s \in next :
              /\ blank' = IF Readable(failed) THEN blank ELSE s
              /\ requests' = [requests EXCEPT ![r] =
                   [Idle EXCEPT !.pc = IF setting.adapter = "filesystem" THEN "open" ELSE "writeRows",
                                !.store = s, !.shared = ~Readable(failed)]]
  BY DEF Change, deadline
<1>2. CASE Finish(r) /\ UNCHANGED blank
  <2>1. /\ file' \in {"absent", "whole", "torn"} /\ faulty' \in BOOLEAN /\ {closed', reopened'} \subseteq BOOLEAN
        /\ scores' \in ScoreTables /\ winners' \in Selections
    BY <1>1 DEF BaseInv, Typed
  <2>2. /\ BaseInv' /\ requests'[r] = Idle
        /\ \A p \in Requests \ {r} : requests'[p] = requests[p]
    BY <1>1, <1>2, <2>1, FinishBase
  <2> QED BY <1>1, <2>2
<1>3. CASE \E s \in next :
             /\ blank' = IF Readable(failed) THEN blank ELSE s
             /\ requests' = [requests EXCEPT ![r] =
                  [Idle EXCEPT !.pc = IF setting.adapter = "filesystem" THEN "open" ELSE "writeRows",
                               !.store = s, !.shared = ~Readable(failed)]]
  <2>1. PICK s \in next :
          /\ blank' = IF Readable(failed) THEN blank ELSE s
          /\ requests' = [requests EXCEPT ![r] =
               [Idle EXCEPT !.pc = IF setting.adapter = "filesystem" THEN "open" ELSE "writeRows",
                            !.store = s, !.shared = ~Readable(failed)]]
    BY <1>3
  <2>2. PICK c, arg, old : /\ c = requests[r].creator /\ arg = requests[r].arg /\ old = Read(failed)
    OBVIOUS
  <2>3. PICK n, m : n = setting.maxVersions /\ m = setting.maxSubmissions
    OBVIOUS
  <2>4. c \in Creators /\ requests[r].op \in {"save", "submit"}
        /\ (requests[r].op = "submit" => arg \in IdempotencyKeys)
    BY <1>1, <2>2 DEF BaseInv, StepOk, At
  <2>5. s \in Saved(old, c) \/ \E k \in IdempotencyKeys : s \in FinalizedStores(old, c, k)
    BY <2>1, <2>2, <2>4
  <2>6. Sound(old, n)
    BY <2>2, <2>3 DEF BaseInv, Read
  <2>7. Sound(s, n) /\ (Right(old, m) => Right(s, m)) /\ Extends(s, old)
    BY <2>2, <2>3, <2>4, <2>5, <2>6, ChangedStore DEF BaseInv
  <2>8. setting.adapter = "filesystem" => Right(old, m)
    BY <2>2, <2>3 DEF BaseInv, Read
  <2>9. PICK step : step = IF setting.adapter = "filesystem" THEN "open" ELSE "writeRows"
    OBVIOUS
  <2>10. PICK shared \in BOOLEAN : shared = ~Readable(failed)
    BY DEF Readable
  <2>11. PICK q : q = [Idle EXCEPT !.pc = step, !.store = s, !.shared = shared]
    OBVIOUS
  <2>12. requests' = [requests EXCEPT ![r] = q]
    BY <2>1, <2>9, <2>10, <2>11
  <2>13. q \in Locals /\ q.pc = step /\ q.store = s /\ q.shared = shared
    BY <2>7, <2>9, <2>11, IdleLocals DEF Locals, Steps, Sound
  <2>14. StepOk(q, setting.adapter)
    BY <2>9, <2>13, Limits DEF StepOk, BaseInv
  <2>15. /\ blank' = blank \/ blank' = s
         /\ file' \in {"absent", "whole", "torn"} /\ faulty' \in BOOLEAN /\ {closed', reopened'} \subseteq BOOLEAN
         /\ scores' \in ScoreTables /\ winners' \in Selections
    BY <1>1, <2>1 DEF BaseInv, Typed
  <2>16. BaseInv' /\ requests'[r] = q /\ \A p \in Requests \ {r} : requests'[p] = requests[p]
    BY <1>1, <2>3, <2>7, <2>8, <2>12, <2>13, <2>14, <2>15, BaseStep
  <2>17. requests'[r].pc = IF setting.adapter = "filesystem" THEN "open" ELSE "writeRows"
    BY <2>9, <2>13, <2>16
  <2>18. requests'[r].shared = ~Readable(failed)
    BY <2>10, <2>13, <2>16
  <2>19. Extends(requests'[r].store, Read(failed))
    BY <2>2, <2>7, <2>13, <2>16
  <2>20. Right(Read(failed), setting.maxSubmissions) => Right(requests'[r].store, setting.maxSubmissions)
    BY <2>2, <2>3, <2>7, <2>13, <2>16
  <2> QED BY <1>1, <2>16, <2>17, <2>18, <2>19, <2>20
<1> QED BY <1>1, <1>2, <1>3

LEMMA OpenEffect ==
  ASSUME BaseInv, NEW r \in Requests, Open(r)
  PROVE  /\ BaseInv' /\ At(r, "open")
         /\ requests'[r].pc = "fill"
         /\ requests'[r].store = IF requests[r].shared THEN blank ELSE requests[r].store
         /\ \A p \in Requests \ {r} : requests'[p] = requests[p]
         /\ file' = IF file = "whole" THEN "torn" ELSE file
         /\ UNCHANGED <<setting, stored, blank, faulty, closed, reopened, scores, winners>>
<1>1. PICK s : s = IF requests[r].shared THEN blank ELSE requests[r].store
  OBVIOUS
<1>2. PICK old : old = requests[r]
  OBVIOUS
<1>3. PICK q : q = [old EXCEPT !.pc = "fill", !.store = s]
  OBVIOUS
<1>4. /\ At(r, "open") /\ file' = IF file = "whole" THEN "torn" ELSE file
      /\ UNCHANGED <<setting, stored, blank, faulty, closed, reopened, scores, winners>>
      /\ requests' = [requests EXCEPT ![r].pc = "fill",
                                      ![r].store = IF requests[r].shared THEN blank ELSE @]
  BY DEF Open, deadline
<1>5. requests' = [requests EXCEPT ![r] = q]
  BY <1>1, <1>2, <1>3, <1>4 DEF BaseInv, Typed, Locals
<1>6. /\ old \in Locals /\ old.pc = "open"
      /\ Sound(s, setting.maxVersions)
      /\ setting.adapter = "filesystem" => Right(s, setting.maxSubmissions)
      /\ setting.adapter = "filesystem"
  BY <1>1, <1>2, <1>4, Limits DEF BaseInv, Typed, At, StepOk
<1>7. q \in Locals /\ q.pc = "fill" /\ q.store = s
  BY <1>3, <1>6 DEF Locals, Steps, Sound
<1>8. StepOk(q, setting.adapter)
  BY <1>6, <1>7 DEF StepOk
<1>9. /\ file' \in {"absent", "whole", "torn"} /\ faulty' \in BOOLEAN /\ {closed', reopened'} \subseteq BOOLEAN
      /\ scores' \in ScoreTables /\ winners' \in Selections
  BY <1>4 DEF BaseInv, Typed
<1>10. BaseInv' /\ requests'[r] = q /\ \A p \in Requests \ {r} : requests'[p] = requests[p]
  BY <1>4, <1>5, <1>6, <1>7, <1>8, <1>9, BaseStep
<1> QED BY <1>1, <1>4, <1>7, <1>10

LEMMA FillEffect ==
  ASSUME BaseInv, NEW r \in Requests, Fill(r)
  PROVE  /\ BaseInv' /\ At(r, "fill") /\ requests'[r] = Idle
         /\ \A p \in Requests \ {r} : requests'[p] = requests[p]
         /\ stored' = requests[r].store
         /\ file' = "whole" \/ (file = "whole" /\ file' = "torn")
         /\ UNCHANGED <<setting, blank, faulty, closed, reopened, scores, winners>>
<1>1. /\ At(r, "fill") /\ stored' = requests[r].store /\ Finish(r)
      /\ file' = "whole" \/ (file = "whole" /\ file' = "torn")
      /\ UNCHANGED <<setting, blank, faulty, closed, reopened, scores, winners>>
  BY DEF Fill, deadline
<1>2. /\ Sound(stored', setting.maxVersions)
      /\ setting.adapter = "filesystem" => Right(stored', setting.maxSubmissions)
  BY <1>1 DEF BaseInv
<1>3. /\ file' \in {"absent", "whole", "torn"} /\ faulty' \in BOOLEAN /\ {closed', reopened'} \subseteq BOOLEAN
      /\ scores' \in ScoreTables /\ winners' \in Selections
  BY <1>1 DEF BaseInv, Typed
<1>4. BaseInv' /\ requests'[r] = Idle /\ \A p \in Requests \ {r} : requests'[p] = requests[p]
  BY <1>1, <1>2, <1>3, FinishBase
<1> QED BY <1>1, <1>4

LEMMA WriteRowsEffect ==
  ASSUME BaseInv, NEW r \in Requests, WriteRows(r)
  PROVE  /\ BaseInv' /\ At(r, "writeRows") /\ setting.adapter = "supabase"
         /\ \A p \in Requests \ {r} : requests'[p] = requests[p]
         /\ UNCHANGED <<setting, file, blank, faulty, closed, reopened, scores, winners>>
         /\ \/ requests'[r] = Idle /\ UNCHANGED stored
            \/ /\ requests'[r].pc = "writeKeys" /\ requests'[r].store.keys = requests[r].store.keys
               /\ stored'.rows = Upserted(stored.rows, requests[r].store.rows)
               /\ stored'.keys = stored.keys
<1>1. PICK mine, rows : mine = requests[r].store /\ rows = Upserted(stored.rows, mine.rows)
  OBVIOUS
<1>2. /\ At(r, "writeRows") /\ UNCHANGED <<setting, file, blank, faulty, closed, reopened, scores, winners>>
      /\ \/ /\ Unique(rows)
            /\ stored' = [stored EXCEPT !.rows = rows]
            /\ requests' = [requests EXCEPT ![r] =
                 [Idle EXCEPT !.pc = "writeKeys", !.store = [EmptyStore EXCEPT !.keys = mine.keys]]]
         \/ Finish(r) /\ UNCHANGED stored
  BY <1>1 DEF WriteRows, deadline
<1>3. /\ setting.adapter = "supabase"
      /\ Sound(mine, setting.maxVersions) /\ Sound(stored, setting.maxVersions)
  BY <1>1, <1>2, Limits DEF BaseInv, At, StepOk
<1>4. /\ file' \in {"absent", "whole", "torn"} /\ faulty' \in BOOLEAN /\ {closed', reopened'} \subseteq BOOLEAN
      /\ scores' \in ScoreTables /\ winners' \in Selections
  BY <1>2 DEF BaseInv, Typed
<1>5. CASE Finish(r) /\ UNCHANGED stored
  <2>1. BaseInv' /\ requests'[r] = Idle /\ \A p \in Requests \ {r} : requests'[p] = requests[p]
    BY <1>2, <1>4, <1>5, FinishBase
  <2> QED BY <1>2, <1>3, <1>5, <2>1
<1>6. CASE /\ Unique(rows)
           /\ stored' = [stored EXCEPT !.rows = rows]
           /\ requests' = [requests EXCEPT ![r] =
                [Idle EXCEPT !.pc = "writeKeys", !.store = [EmptyStore EXCEPT !.keys = mine.keys]]]
  <2>1. mine.rows \in RowTables /\ stored.rows \in RowTables /\ mine.keys \in KeyTables
    BY <1>3 DEF Sound, Stores
  <2>2. /\ rows \in RowTables /\ DOMAIN rows = DOMAIN stored.rows \cup DOMAIN mine.rows
        /\ \A i \in DOMAIN mine.rows : rows[i] = mine.rows[i]
        /\ \A i \in DOMAIN stored.rows \ DOMAIN mine.rows : rows[i] = stored.rows[i]
    <3>1. PICK t, u : t = stored.rows /\ u = mine.rows
      OBVIOUS
    <3>2. t \in TablesOf(Ids, Row) /\ u \in TablesOf(Ids, Row)
      BY <2>1, <3>1 DEF RowTables
    <3>3. Upserted(t, u) \in TablesOf(Ids, Row)
      BY <3>2, UpsertedTables
    <3>5. /\ DOMAIN Upserted(t, u) = DOMAIN t \cup DOMAIN u
          /\ \A i \in DOMAIN u : Upserted(t, u)[i] = u[i]
          /\ \A i \in DOMAIN t \ DOMAIN u : Upserted(t, u)[i] = t[i]
      BY DEF Upserted
    <3>4. rows = Upserted(t, u)
      BY <1>1, <3>1
    <3> QED BY <3>1, <3>3, <3>4, <3>5 DEF RowTables
  <2>3. /\ stored' \in Stores /\ stored'.rows = rows /\ stored'.keys = stored.keys
    BY <1>3, <1>6, <2>2 DEF Sound, Stores
  <2>4. Sound(stored', setting.maxVersions)
    BY <1>3, <1>6, <2>2, <2>3 DEF Sound
  <2>5. PICK s : s = [EmptyStore EXCEPT !.keys = mine.keys]
    OBVIOUS
  <2>6. s \in Stores /\ s.keys = mine.keys /\ s.rows = EmptyStore.rows
    BY <2>1, <2>5, EmptyStores DEF Stores
  <2>7. Sound(s, setting.maxVersions)
    BY <2>6, EmptyStores DEF Sound, Unique
  <2>8. PICK q : q = [Idle EXCEPT !.pc = "writeKeys", !.store = s]
    OBVIOUS
  <2>9. q \in Locals /\ q.pc = "writeKeys" /\ q.store = s
    BY <2>6, <2>8, IdleLocals DEF Locals, Steps
  <2>10. StepOk(q, setting.adapter)
    BY <1>3, <2>9 DEF StepOk
  <2>11. requests' = [requests EXCEPT ![r] = q]
    BY <1>6, <2>5, <2>8
  <2>12. setting.adapter # "filesystem"
    BY <1>3
  <2>13. BaseInv' /\ requests'[r] = q /\ \A p \in Requests \ {r} : requests'[p] = requests[p]
    BY <1>2, <1>4, <2>4, <2>7, <2>9, <2>10, <2>11, <2>12, BaseStep
  <2> QED BY <1>1, <1>2, <1>3, <2>3, <2>6, <2>9, <2>13
<1> QED BY <1>2, <1>5, <1>6

LEMMA WriteKeysEffect ==
  ASSUME BaseInv, NEW r \in Requests, WriteKeys(r)
  PROVE  /\ BaseInv' /\ At(r, "writeKeys") /\ setting.adapter = "supabase"
         /\ requests'[r] = Idle /\ \A p \in Requests \ {r} : requests'[p] = requests[p]
         /\ stored'.rows = stored.rows
         /\ \A k \in DOMAIN stored'.keys :
              \/ k \in DOMAIN stored.keys /\ stored'.keys[k] = stored.keys[k]
              \/ k \in DOMAIN requests[r].store.keys /\ stored'.keys[k] = requests[r].store.keys[k]
         /\ UNCHANGED <<setting, file, blank, faulty, closed, reopened, scores, winners>>
<1>1. PICK t, u : t = stored.keys /\ u = requests[r].store.keys
  OBVIOUS
<1>2. PICK keys : keys = Upserted(t, u)
  OBVIOUS
<1>3. /\ At(r, "writeKeys") /\ Finish(r) /\ stored' = [stored EXCEPT !.keys = keys]
      /\ UNCHANGED <<setting, file, blank, faulty, closed, reopened, scores, winners>>
  BY <1>1, <1>2 DEF WriteKeys, deadline
<1>4. /\ setting.adapter = "supabase" /\ stored \in Stores /\ Sound(stored, setting.maxVersions)
      /\ requests[r].store \in Stores
  BY <1>3, Limits DEF BaseInv, At, StepOk, Sound
<1>5. t \in TablesOf(Keys, Ids) /\ u \in TablesOf(Keys, Ids)
  BY <1>1, <1>4 DEF Stores, KeyTables
<1>6. Upserted(t, u) \in TablesOf(Keys, Ids)
  BY <1>5, UpsertedTables
<1>a. /\ DOMAIN Upserted(t, u) = DOMAIN t \cup DOMAIN u
      /\ \A i \in DOMAIN u : Upserted(t, u)[i] = u[i]
      /\ \A i \in DOMAIN t \ DOMAIN u : Upserted(t, u)[i] = t[i]
  BY DEF Upserted
<1>7. /\ keys \in KeyTables
      /\ \A k \in DOMAIN keys :
           (k \in DOMAIN t /\ keys[k] = t[k]) \/ (k \in DOMAIN u /\ keys[k] = u[k])
  BY <1>2, <1>6, <1>a DEF KeyTables
<1>8. stored' \in Stores /\ stored'.rows = stored.rows /\ stored'.keys = keys
  BY <1>3, <1>4, <1>7 DEF Stores
<1>9. Sound(stored', setting.maxVersions)
  BY <1>4, <1>8 DEF Sound
<1>10. /\ file' \in {"absent", "whole", "torn"} /\ faulty' \in BOOLEAN /\ {closed', reopened'} \subseteq BOOLEAN
       /\ scores' \in ScoreTables /\ winners' \in Selections
  BY <1>3 DEF BaseInv, Typed
<1>11. setting.adapter # "filesystem"
  BY <1>4
<1>12. BaseInv' /\ requests'[r] = Idle /\ \A p \in Requests \ {r} : requests'[p] = requests[p]
  BY <1>3, <1>9, <1>10, <1>11, FinishBase
<1> QED BY <1>1, <1>3, <1>4, <1>7, <1>8, <1>12

\* A step of a request that stores nothing.
LEMMA LocalStep ==
  ASSUME BaseInv, NEW r \in Requests, NEW q \in Locals, requests' = [requests EXCEPT ![r] = q],
         StepOk(q, setting.adapter), q.store = EmptyStore \/ q.store = requests[r].store,
         UNCHANGED <<setting, store, closed, reopened, scores, winners>>
  PROVE  BaseInv' /\ requests'[r] = q /\ \A p \in Requests \ {r} : requests'[p] = requests[p]
<1>1. UNCHANGED <<setting, stored, file, blank, faulty, closed, reopened, scores, winners>>
  BY DEF store, deadline
<1>2. Sound(EmptyStore, setting.maxVersions) /\ Right(EmptyStore, setting.maxSubmissions)
  BY EmptySound, Limits DEF BaseInv
<1>3. /\ Sound(q.store, setting.maxVersions)
      /\ setting.adapter = "filesystem" => Right(q.store, setting.maxSubmissions)
  BY <1>2 DEF BaseInv
<1>4. /\ file' \in {"absent", "whole", "torn"} /\ faulty' \in BOOLEAN /\ {closed', reopened'} \subseteq BOOLEAN
      /\ scores' \in ScoreTables /\ winners' \in Selections
  BY <1>1 DEF BaseInv, Typed
<1> QED BY <1>1, <1>3, <1>4, BaseStep

LEMMA StartScoreEffect ==
  ASSUME BaseInv, NEW r \in Requests, NEW i \in Ids, NEW score \in Scores, StartScore(r, i, score)
  PROVE  /\ BaseInv' /\ Free(r) /\ winners = NoWinners
         /\ requests'[r].pc = "findEntry" /\ \A p \in Requests \ {r} : requests'[p] = requests[p]
         /\ UNCHANGED <<setting, store, closed, reopened, scores, winners>>
<1>1. PICK q : q = [Idle EXCEPT !.pc = "findEntry", !.arg = score, !.ids = {i}]
  OBVIOUS
<1>2. /\ Free(r) /\ winners = NoWinners /\ setting.adapter = "supabase"
      /\ requests' = [requests EXCEPT ![r] = q]
      /\ UNCHANGED <<setting, store, closed, reopened, scores, winners>>
  BY <1>1 DEF StartScore, ReviewOpen, deadline
<1>3. q \in Locals /\ q.pc = "findEntry" /\ q.arg = score /\ q.store = EmptyStore
  BY <1>1, IdleLocals DEF Locals, Steps
<1>4. StepOk(q, setting.adapter)
  BY <1>2, <1>3 DEF StepOk
<1> QED BY <1>2, <1>3, <1>4, LocalStep

LEMMA FindEntryEffect ==
  ASSUME BaseInv, NEW r \in Requests, FindEntry(r)
  PROVE  /\ BaseInv' /\ At(r, "findEntry")
         /\ requests'[r].pc \in {"idle", "saveScore"}
         /\ \A p \in Requests \ {r} : requests'[p] = requests[p]
         /\ UNCHANGED <<setting, store, closed, reopened, scores, winners>>
<1>1. PICK old : old = requests[r]
  OBVIOUS
<1>2. PICK q : q = [old EXCEPT !.pc = "saveScore"]
  OBVIOUS
<1>3. /\ At(r, "findEntry") /\ UNCHANGED <<setting, store, closed, reopened, scores, winners>>
      /\ requests' = [requests EXCEPT ![r].pc = "saveScore"] \/ Finish(r)
  BY DEF FindEntry, deadline
<1>4. old \in Locals /\ old.arg \in Scores /\ setting.adapter = "supabase"
  BY <1>1, <1>3, Limits DEF BaseInv, Typed, At, StepOk
<1>5. q \in Locals /\ q.pc = "saveScore" /\ q.arg = old.arg /\ q.store = old.store
  BY <1>2, <1>4 DEF Locals, Steps
<1>6. StepOk(q, setting.adapter)
  BY <1>4, <1>5 DEF StepOk
<1>7. requests' = [requests EXCEPT ![r] = q] \/ requests' = [requests EXCEPT ![r] = Idle]
  BY <1>1, <1>2, <1>3 DEF Finish
<1>8. StepOk(Idle, setting.adapter)
  BY IdleLocals DEF StepOk
<1> QED BY <1>1, <1>3, <1>5, <1>6, <1>7, <1>8, IdleLocals, LocalStep

LEMMA SaveScoreEffect ==
  ASSUME BaseInv, NEW r \in Requests, SaveScore(r)
  PROVE  /\ BaseInv' /\ At(r, "saveScore") /\ requests'[r] = Idle
         /\ \A p \in Requests \ {r} : requests'[p] = requests[p]
         /\ UNCHANGED <<setting, store, closed, reopened, winners>>
<1>1. PICK t, u : t = scores /\ u = [i \in requests[r].ids |-> requests[r].arg]
  OBVIOUS
<1>2. /\ At(r, "saveScore") /\ Finish(r) /\ scores' = Upserted(t, u)
      /\ UNCHANGED <<setting, stored, file, blank, faulty, closed, reopened, winners>>
  BY <1>1 DEF SaveScore, store, deadline
<1>3. requests[r].ids \subseteq Ids /\ requests[r].arg \in Scores
  BY <1>2 DEF BaseInv, Typed, Locals, At, StepOk
<1>4. t \in TablesOf(Ids, Scores)
  BY <1>1 DEF BaseInv, Typed, ScoreTables
<1>5. u \in TablesOf(Ids, Scores)
  <2>1. u \in [requests[r].ids -> Scores]
    BY <1>1, <1>3
  <2> QED BY <1>3, <2>1 DEF TablesOf
<1>6. scores' \in ScoreTables
  BY <1>2, <1>4, <1>5, UpsertedTables DEF ScoreTables
<1>7. /\ file' \in {"absent", "whole", "torn"} /\ faulty' \in BOOLEAN /\ {closed', reopened'} \subseteq BOOLEAN
      /\ winners' \in Selections
  BY <1>2 DEF BaseInv, Typed
<1>8. BaseInv' /\ requests'[r] = Idle /\ \A p \in Requests \ {r} : requests'[p] = requests[p]
  BY <1>2, <1>6, <1>7, FinishBase
<1> QED BY <1>2, <1>8 DEF store, deadline

LEMMA StartReviewEffect ==
  ASSUME BaseInv, NEW r \in Requests, StartReview(r)
  PROVE  /\ BaseInv' /\ Free(r)
         /\ requests'[r].pc = "readScores" /\ requests'[r].ids = Submitted(stored)
         /\ requests'[r].seen = stored.rows
         /\ \A p \in Requests \ {r} : requests'[p] = requests[p]
         /\ UNCHANGED <<setting, store, closed, reopened, scores, winners>>
<1>1. PICK ids, rows : ids = Submitted(Read(FALSE)) /\ rows = Read(FALSE).rows
  OBVIOUS
<1>2. PICK q : q = [Idle EXCEPT !.pc = "readScores", !.ids = ids, !.seen = rows]
  OBVIOUS
<1>3. /\ Free(r) /\ setting.adapter = "supabase" /\ requests' = [requests EXCEPT ![r] = q]
      /\ UNCHANGED <<setting, store, closed, reopened, scores, winners>>
  BY <1>1, <1>2 DEF StartReview, deadline
<1>4. ids = Submitted(stored) /\ rows = stored.rows
  BY <1>1, <1>3 DEF Read, Readable
<1>5. rows \in RowTables /\ ids \subseteq Ids
  <2>1. rows \in RowTables
    BY <1>4 DEF BaseInv, Typed, Stores
  <2> QED BY <1>4, <2>1 DEF Submitted, RowTables, TablesOf
<1>6. q \in Locals /\ q.pc = "readScores" /\ q.ids = ids /\ q.seen = rows /\ q.store = EmptyStore
  BY <1>2, <1>5, IdleLocals DEF Locals, Steps
<1>7. StepOk(q, setting.adapter)
  BY <1>3, <1>6 DEF StepOk
<1> QED BY <1>3, <1>4, <1>6, <1>7, LocalStep

LEMMA ChooseEffect ==
  ASSUME BaseInv, NEW r \in Requests, NEW top \in SUBSET Ids, NEW ranked \in BOOLEAN,
         Choose(r, top, ranked)
  PROVE  /\ BaseInv' /\ At(r, "readScores")
         /\ requests[r].ids \subseteq DOMAIN scores
         /\ ranked => top \in TopOf(requests[r].seen, requests[r].ids)
         /\ requests'[r].pc = "resolve" /\ requests'[r].ids = top /\ requests'[r].arg = ranked
         /\ requests'[r].among = requests[r].ids
         /\ \A p \in Requests \ {r} : requests'[p] = requests[p]
         /\ UNCHANGED <<setting, store, closed, reopened, scores, winners>>
<1>1. PICK among : among = requests[r].ids
  OBVIOUS
<1>2. PICK q : q = [Idle EXCEPT !.pc = "resolve", !.ids = top, !.arg = ranked, !.among = among]
  OBVIOUS
<1>3. /\ At(r, "readScores") /\ requests[r].ids \subseteq DOMAIN scores
      /\ ranked => top \in TopOf(requests[r].seen, requests[r].ids)
      /\ requests' = [requests EXCEPT ![r] = q]
      /\ UNCHANGED <<setting, store, closed, reopened, scores, winners>>
  BY <1>1, <1>2 DEF Choose, Reviewed, deadline
<1>4. q \in Locals /\ q.pc = "resolve" /\ q.ids = top /\ q.arg = ranked /\ q.store = EmptyStore
      /\ q.among = among
  <2>1. among \subseteq Ids
    BY <1>1 DEF BaseInv, Typed, Locals
  <2> QED BY <1>2, <2>1, IdleLocals DEF Locals, Steps
<1>5. StepOk(q, setting.adapter)
  BY <1>3, <1>4, Limits DEF StepOk, BaseInv, At
<1> QED BY <1>1, <1>3, <1>4, <1>5, LocalStep

LEMMA NameEffect ==
  ASSUME BaseInv, NEW r \in Requests, NEW ids \in kSubset(WinnerCount, Ids), NameWinners(r, ids)
  PROVE  /\ BaseInv' /\ Free(r)
         /\ requests'[r].pc = "resolve" /\ requests'[r].among = {}
         /\ \A p \in Requests \ {r} : requests'[p] = requests[p]
         /\ UNCHANGED <<setting, store, closed, reopened, scores, winners>>
<1>1. PICK q : q = [Idle EXCEPT !.pc = "resolve", !.ids = ids, !.arg = FALSE]
  OBVIOUS
<1>2. /\ Free(r) /\ requests' = [requests EXCEPT ![r] = q]
      /\ UNCHANGED <<setting, store, deadline, scores, winners>>
  BY <1>1 DEF NameWinners
<1>3. ids \subseteq Ids
  BY DEF kSubset
<1>4. q \in Locals /\ q.pc = "resolve" /\ q.arg = FALSE /\ q.store = EmptyStore /\ q.among = {}
  BY <1>1, <1>3, IdleLocals DEF Locals, Steps
<1>5. StepOk(q, setting.adapter)
  BY <1>4 DEF StepOk
<1>6. UNCHANGED <<setting, store, closed, reopened, scores, winners>>
  BY <1>2 DEF deadline
<1> QED BY <1>2, <1>4, <1>5, <1>6, LocalStep

LEMMA ResolveEffect ==
  ASSUME BaseInv, NEW r \in Requests, NEW failed \in BOOLEAN, ResolveSelection(r, failed)
  PROVE  /\ BaseInv' /\ At(r, "resolve") /\ failed \in Failing /\ faulty' = (faulty \/ failed)
         /\ \/ requests'[r] = Idle
            \/ /\ requests'[r].pc = "finalize" /\ requests'[r].ids = requests[r].ids
               /\ requests'[r].arg = requests[r].arg /\ requests'[r].among = requests[r].among
               /\ closed /\ requests[r].ids \subseteq Submitted(Read(failed))
         /\ \A p \in Requests \ {r} : requests'[p] = requests[p]
         /\ UNCHANGED <<setting, stored, file, blank, closed, reopened, scores, winners>>
<1>1. PICK old : old = requests[r]
  OBVIOUS
<1>2. PICK q : q = [old EXCEPT !.pc = "finalize"]
  OBVIOUS
<1>3. /\ At(r, "resolve") /\ failed \in Failing /\ faulty' = (faulty \/ failed)
      /\ UNCHANGED <<setting, stored, file, blank, closed, reopened, scores, winners>>
      /\ \/ /\ closed /\ old.ids \subseteq Submitted(Read(failed))
            /\ requests' = [requests EXCEPT ![r] = q]
         \/ Finish(r)
  BY <1>1, <1>2 DEF ResolveSelection, SelectionPhase, deadline
<1>4. old \in Locals /\ old.arg \in BOOLEAN /\ old.pc = "resolve" /\ StepOk(old, setting.adapter)
  BY <1>1, <1>3 DEF BaseInv, Typed, At, StepOk
<1>5. /\ q \in Locals /\ q.pc = "finalize" /\ q.arg = old.arg /\ q.store = old.store
      /\ q.ids = old.ids /\ q.among = old.among
  BY <1>2, <1>4 DEF Locals, Steps
<1>6. StepOk(q, setting.adapter)
  BY <1>4, <1>5 DEF StepOk
<1>7. /\ file' \in {"absent", "whole", "torn"} /\ faulty' \in BOOLEAN
      /\ {closed', reopened'} \subseteq BOOLEAN
      /\ scores' \in ScoreTables /\ winners' \in Selections
  BY <1>3 DEF BaseInv, Typed
<1>8. CASE Finish(r)
  BY <1>3, <1>7, <1>8, FinishBase
<1>9. CASE /\ closed /\ old.ids \subseteq Submitted(Read(failed))
           /\ requests' = [requests EXCEPT ![r] = q]
  <2>1. /\ Sound(q.store, setting.maxVersions)
        /\ setting.adapter = "filesystem" => Right(q.store, setting.maxSubmissions)
    BY <1>1, <1>5 DEF BaseInv
  <2>2. BaseInv' /\ requests'[r] = q /\ \A p \in Requests \ {r} : requests'[p] = requests[p]
    BY <1>3, <1>5, <1>6, <1>7, <1>9, <2>1, BaseStep
  <2> QED BY <1>1, <1>3, <1>5, <1>9, <2>2
<1> QED BY <1>3, <1>8, <1>9

LEMMA FinalizeEffect ==
  ASSUME BaseInv, NEW r \in Requests, Finalize(r)
  PROVE  /\ BaseInv' /\ At(r, "finalize") /\ requests'[r] = Idle
         /\ \A p \in Requests \ {r} : requests'[p] = requests[p]
         /\ \/ winners' = winners
            \/ /\ winners'.ids = requests[r].ids /\ winners'.ranked = requests[r].arg
               /\ winners'.among = requests[r].among
         /\ winners # NoWinners => winners' = winners
         /\ UNCHANGED <<setting, store, closed, reopened, scores>>
<1>1. /\ At(r, "finalize") /\ Finish(r)
      /\ winners' = IF winners = NoWinners
                    THEN [ids |-> requests[r].ids, among |-> requests[r].among,
                          ranked |-> requests[r].arg]
                    ELSE winners
      /\ UNCHANGED <<setting, stored, file, blank, faulty, closed, reopened, scores>>
  BY DEF Finalize, store, deadline
<1>2. requests[r].ids \cup requests[r].among \subseteq Ids /\ requests[r].arg \in BOOLEAN
  BY <1>1 DEF BaseInv, Typed, Locals, At, StepOk
<1>3. winners' \in Selections
  BY <1>1, <1>2 DEF BaseInv, Typed, Selections
<1>4. /\ file' \in {"absent", "whole", "torn"} /\ faulty' \in BOOLEAN /\ {closed', reopened'} \subseteq BOOLEAN
      /\ scores' \in ScoreTables
  BY <1>1 DEF BaseInv, Typed
<1>5. BaseInv' /\ requests'[r] = Idle /\ \A p \in Requests \ {r} : requests'[p] = requests[p]
  BY <1>1, <1>3, <1>4, FinishBase
<1>6. /\ \/ winners' = winners
         \/ /\ winners'.ids = requests[r].ids /\ winners'.ranked = requests[r].arg
            /\ winners'.among = requests[r].among
      /\ winners # NoWinners => winners' = winners
  BY <1>1
<1> QED BY <1>1, <1>5, <1>6 DEF store, deadline

\* A request that is refused, or stops.
LEMMA EndEffect ==
  ASSUME BaseInv, NEW r \in Requests, RefuseReview(r) \/ Abort(r)
  PROVE  /\ BaseInv' /\ requests'[r] = Idle
         /\ \A p \in Requests \ {r} : requests'[p] = requests[p]
         /\ ~At(r, "idle")
         /\ faulty => faulty'
         /\ At(r, "open") \/ At(r, "fill") => faulty'
         /\ UNCHANGED <<setting, stored, file, blank, closed, reopened, scores, winners>>
<1>1. /\ Finish(r) /\ UNCHANGED <<setting, stored, file, blank, closed, reopened, scores, winners>>
      /\ \/ At(r, "readScores") /\ faulty' = faulty
         \/ ~At(r, "idle") /\ faulty' = (faulty \/ At(r, "open") \/ At(r, "fill"))
  BY DEF RefuseReview, Abort, store, deadline
<1>2. /\ file' \in {"absent", "whole", "torn"} /\ {closed', reopened'} \subseteq BOOLEAN
      /\ scores' \in ScoreTables /\ winners' \in Selections
  BY <1>1 DEF BaseInv, Typed
<1>3. /\ faulty' \in BOOLEAN /\ ~At(r, "idle") /\ (faulty => faulty')
      /\ At(r, "open") \/ At(r, "fill") => faulty'
  <2>1. faulty \in BOOLEAN /\ At(r, "fill") \in BOOLEAN /\ At(r, "open") \in BOOLEAN
    BY DEF BaseInv, Typed, At
  <2> QED BY <1>1, <2>1 DEF At
<1>4. BaseInv' /\ requests'[r] = Idle /\ \A p \in Requests \ {r} : requests'[p] = requests[p]
  BY <1>1, <1>2, <1>3, FinishBase
<1> QED BY <1>1, <1>3, <1>4

\* The deadline passes, or is moved.
LEMMA DeadlineEffect ==
  ASSUME BaseInv, Close \/ Reopen
  PROVE  /\ BaseInv' /\ (closed' \/ reopened') /\ (reopened => reopened')
         /\ ~reopened' => closed'
         /\ UNCHANGED <<setting, store, requests, scores, winners>>
<1>1. /\ {closed', reopened'} \subseteq BOOLEAN /\ (closed' \/ reopened') /\ (reopened => reopened')
      /\ UNCHANGED <<setting, stored, file, blank, faulty, requests, scores, winners>>
  <2>1. {faulty, closed, reopened} \subseteq BOOLEAN
    BY DEF BaseInv, Typed
  <2>2. CASE Close
    BY <2>1, <2>2 DEF Close, store
  <2>3. CASE Reopen
    BY <2>1, <2>3 DEF Reopen, store
  <2> QED BY <2>2, <2>3
<1>2. BaseInv'
  BY <1>1 DEF BaseInv, Typed, Sound, Unique, Right, Submitted
<1> QED BY <1>1, <1>2 DEF store

\* The process of the server starts again.
LEMMA RestartEffect ==
  ASSUME BaseInv, Restart
  PROVE  /\ BaseInv' /\ \A r \in Requests : requests'[r] = Idle
         /\ blank' = EmptyStore /\ (faulty => faulty')
         /\ (\E r \in Requests : At(r, "open") \/ At(r, "fill")) => faulty'
         /\ UNCHANGED <<setting, stored, file, closed, reopened, scores, winners>>
<1>1. /\ requests' = [r \in Requests |-> Idle] /\ blank' = EmptyStore
      /\ faulty' = (faulty \/ \E r \in Requests : At(r, "open") \/ At(r, "fill"))
      /\ UNCHANGED <<setting, stored, file, closed, reopened, scores, winners>>
  BY DEF Restart, deadline
<1>2. /\ faulty' \in BOOLEAN /\ (faulty => faulty')
      /\ (\E r \in Requests : At(r, "open") \/ At(r, "fill")) => faulty'
  <2>1. faulty \in BOOLEAN
    BY DEF BaseInv, Typed
  <2>2. CASE faulty
    BY <1>1, <2>2
  <2>3. CASE ~faulty
    BY <1>1, <2>1, <2>3
  <2> QED BY <2>2, <2>3
<1>3. \A r \in Requests : requests'[r] = Idle
  BY <1>1
<1>4. EmptyStore \in Stores /\ Idle \in Locals /\ Idle.store = EmptyStore
  BY EmptyStores, IdleLocals
<1>5. Sound(EmptyStore, setting.maxVersions) /\ Right(EmptyStore, setting.maxSubmissions)
  BY EmptySound, Limits DEF BaseInv
<1>6. StepOk(Idle, setting.adapter)
  BY IdleLocals DEF StepOk
<1>7. requests' \in [Requests -> Locals]
  BY <1>1, <1>4
<1>8. Typed'
  BY <1>1, <1>2, <1>4, <1>7 DEF Typed, BaseInv
<1>9. PICK n, m, a : n = setting.maxVersions /\ m = setting.maxSubmissions /\ a = setting.adapter
  OBVIOUS
<1>10. n = setting'.maxVersions /\ m = setting'.maxSubmissions /\ a = setting'.adapter
  BY <1>1, <1>9
<1>11. /\ Sound(stored', n) /\ Sound(blank', n)
       /\ a = "filesystem" => Right(stored', m) /\ Right(blank', m)
  BY <1>1, <1>5, <1>9 DEF BaseInv
<1>12. Sound(stored, setting.maxVersions)' /\ Sound(blank, setting.maxVersions)'
  BY <1>10, <1>11 DEF Sound, Unique
<1>13. \A r \in Requests :
         /\ StepOk(requests'[r], setting'.adapter) /\ Sound(requests'[r].store, setting'.maxVersions)
         /\ Right(requests'[r].store, setting'.maxSubmissions)
  BY <1>3, <1>4, <1>5, <1>6, <1>9, <1>10
<1>14. setting'.adapter = "filesystem" =>
         Right(stored', setting'.maxSubmissions) /\ Right(blank', setting'.maxSubmissions)
  BY <1>10, <1>11
<1>15. BaseInv'
  BY <1>8, <1>10, <1>11, <1>13, <1>14 DEF BaseInv
<1> QED BY <1>1, <1>2, <1>3, <1>15

\* Every step of a request, by what it does.
StepOf(r) ==
  \/ \E c \in Creators :
       StartSave(r, c) \/ \E key \in IdempotencyKeys : StartSubmit(r, c, key)
  \/ \E failed \in BOOLEAN : Change(r, failed) \/ ResolveSelection(r, failed)
  \/ Open(r) \/ Fill(r) \/ WriteRows(r) \/ WriteKeys(r)
  \/ \E i \in Ids, score \in Scores : StartScore(r, i, score)
  \/ FindEntry(r) \/ SaveScore(r) \/ StartReview(r)
  \/ \E top \in SUBSET Ids, ranked \in BOOLEAN : Choose(r, top, ranked)
  \/ \E ids \in kSubset(WinnerCount, Ids) : NameWinners(r, ids)
  \/ Finalize(r)
  \/ RefuseReview(r) \/ Abort(r)

LEMMA NextCases ==
  ASSUME [Next]_vars
  PROVE  (\E r \in Requests : StepOf(r)) \/ Restart \/ (Close \/ Reopen) \/ UNCHANGED vars
BY DEF Next, StepOf

\* Every step keeps the types and the soundness of every copy of the store.
LEMMA NextBase == BaseInv /\ [Next]_vars => BaseInv'
<1> SUFFICES ASSUME BaseInv, [Next]_vars PROVE BaseInv'
  OBVIOUS
<1>1. ASSUME NEW r \in Requests, StepOf(r) PROVE BaseInv'
  BY <1>1, StartEffect, ChangeEffect, OpenEffect, FillEffect, WriteRowsEffect, WriteKeysEffect,
     StartScoreEffect, FindEntryEffect, SaveScoreEffect, StartReviewEffect, ChooseEffect,
     NameEffect, ResolveEffect, FinalizeEffect, EndEffect DEF StepOf
<1>2. CASE UNCHANGED vars
  BY <1>2 DEF vars, store, deadline, BaseInv, Typed, Sound, Unique, Right, Submitted
<1> QED BY <1>1, <1>2, DeadlineEffect, RestartEffect, NextCases

\* Every variable has its type, and no entry has more versions than allowed.
THEOREM TypeCorrect == Spec => []TypeOK
<1>1. ASSUME BaseInv PROVE TypeOK
  <2>1. ASSUME NEW s, Sound(s, setting.maxVersions)
        PROVE  /\ DOMAIN s.rows \subseteq Ids
               /\ \A i \in DOMAIN s.rows : s.rows[i] \in Rows
               /\ \A k \in DOMAIN s.keys : k \in Creators \X IdempotencyKeys /\ s.keys[k] \in Ids
    <3>1. /\ s.rows \in [DOMAIN s.rows -> Row] /\ DOMAIN s.rows \subseteq Ids
          /\ s.keys \in [DOMAIN s.keys -> Ids] /\ DOMAIN s.keys \subseteq Keys
      BY <2>1 DEF Sound, Stores, RowTables, KeyTables, TablesOf
    <3>2. \A i \in DOMAIN s.rows : s.rows[i] \in Row /\ s.rows[i].version \in 1..setting.maxVersions
      BY <2>1, <3>1 DEF Sound
    <3>3. \A i \in DOMAIN s.rows : s.rows[i] \in Rows
      BY <3>2 DEF Row, Rows
    <3> QED BY <3>1, <3>3 DEF Keys
  <2>2. scores \in [DOMAIN scores -> Scores] /\ DOMAIN scores \subseteq Ids
    BY <1>1 DEF BaseInv, Typed, ScoreTables, TablesOf
  <2>3. \A r \in Requests : requests[r].ids \cup requests[r].among \subseteq Ids
    BY <1>1 DEF BaseInv, Typed, Locals
  <2>4. \A s \in {stored, blank} \cup {requests[r].store : r \in Requests} :
          Sound(s, setting.maxVersions)
    BY <1>1 DEF BaseInv
  <2> QED BY <1>1, <2>1, <2>2, <2>3, <2>4 DEF BaseInv, Typed, TypeOK, Selections
<1>2. BaseInv => TypeOK
  BY <1>1
<1> QED BY InitBase, NextBase, <1>2, PTL DEF Spec

\* However requests overlap, a creator has one entry and a code is the code of
\* one entry: with the file because all of it is overwritten, with Supabase
\* because of its constraints.
THEOREM OneEntryPerCreatorHolds == Spec => []OneEntryPerCreator
<1>1. BaseInv => OneEntryPerCreator
  BY DEF BaseInv, Sound, OneEntryPerCreator
<1> QED BY InitBase, NextBase, <1>1, PTL DEF Spec

-----------------------------------------------------------------------------
\* Requests that do not overlap.

Alone == \A r, p \in Requests : ~At(r, "idle") /\ ~At(p, "idle") => r = p

\* A selection of a review is right, as long as scores stay and no entry is lost.
Selected(ids, among, ranked) ==
  among # {} =>
    /\ among \subseteq DOMAIN scores \cap Submitted(stored)
    /\ ranked => ids \in TopOf(stored.rows, among)

\* The review had all entries.
Complete(among) == among # {} => among = Submitted(stored)

\* The steps of requests of creators, and of a score.
Entering == {"read", "open", "fill", "writeRows", "writeKeys"}
Scoring == {"findEntry", "saveScore"}

\* A request's copy of the store has all that is stored, while no read or write
\* of the file failed; what it has found for the review is as it found it.
Ready(r) ==
  /\ (At(r, "open") \/ At(r, "fill")) /\ ~faulty => Extends(requests[r].store, stored)
  /\ At(r, "open") /\ requests[r].shared /\ ~faulty => stored = EmptyStore
  /\ At(r, "fill") => file # "whole"
  /\ At(r, "writeRows") =>
       /\ Right(requests[r].store, setting.maxSubmissions)
       /\ Extends(requests[r].store, stored)
  /\ At(r, "writeKeys") =>
       \A k \in DOMAIN requests[r].store.keys : requests[r].store.keys[k] \in Submitted(stored)
  /\ At(r, "readScores") =>
       requests[r].ids = Submitted(stored) /\ requests[r].seen = stored.rows
  /\ At(r, "resolve") \/ At(r, "finalize") =>
       /\ Selected(requests[r].ids, requests[r].among, requests[r].arg)
       /\ Complete(requests[r].among)
  /\ At(r, "finalize") =>
       /\ closed \/ reopened
       /\ ~faulty => requests[r].ids \subseteq Submitted(stored)

\* What is right once winners are final: entries follow only if the deadline was
\* moved, scores never.
Final ==
  /\ closed \/ reopened
  /\ ~faulty =>
       /\ winners.ids \subseteq Submitted(stored)
       /\ Selected(winners.ids, winners.among, winners.ranked)
  /\ \A r \in Requests : requests[r].pc \notin Scoring
  /\ ~reopened =>
       /\ ~faulty => Complete(winners.among)
       /\ \A r \in Requests : requests[r].pc \notin Entering

\* The file is torn only while it is written, and without a file nothing was
\* entered; the tables are right; a finalized selection stays right.
Settled ==
  /\ setting.adapter = "filesystem" =>
       /\ file = "absent" => stored = EmptyStore
       /\ file = "torn" /\ ~faulty => \E r \in Requests : At(r, "fill")
       /\ file # "whole" /\ ~faulty =>
            blank = EmptyStore \/ \E r \in Requests : At(r, "open") \/ At(r, "fill")
  /\ setting.adapter = "supabase" => Right(stored, setting.maxSubmissions)
  /\ winners # NoWinners => Final

AloneInv ==
  setting.overlap = 1 => Alone /\ (\A r \in Requests : Ready(r)) /\ Settled

LEMMA InitAlone == Init => AloneInv
<1> SUFFICES ASSUME Init PROVE AloneInv
  OBVIOUS
<1>1. \A r \in Requests : requests[r].pc = "idle"
  BY IdleLocals DEF Init
<1>2. Right(stored, setting.maxSubmissions)
  BY EmptySound, Limits, InitBase DEF Init, BaseInv
<1>3. winners = NoWinners /\ file = "absent" /\ stored = EmptyStore /\ blank = EmptyStore
  BY DEF Init
<1>4. Settled
  BY <1>2, <1>3 DEF Settled
<1> QED BY <1>1, <1>4 DEF AloneInv, Alone, Ready, At

\* Whoever acts, the others are idle.
LEMMA OthersIdle ==
  ASSUME BaseInv, setting.overlap = 1, Alone, NEW r \in Requests, ~At(r, "idle") \/ Free(r),
         \A p \in Requests \ {r} : requests'[p] = requests[p]
  PROVE  /\ \A p \in Requests \ {r} : At(p, "idle") /\ requests'[p].pc = "idle"
         /\ Alone'
<1>1. CASE ~At(r, "idle")
  BY <1>1 DEF Alone, At
<1>2. CASE Free(r)
  <2>1. PICK busy : busy = {q \in Requests : ~At(q, "idle")}
    OBVIOUS
  <2>2. IsFiniteSet(busy)
    BY <2>1, SubmissionsConstants, FS_Subset DEF SubmissionsConstants
  <2>3. Cardinality(busy) < 1
    BY <1>2, <2>1 DEF Free
  <2>4. busy = {}
    BY <2>2, <2>3, FS_EmptySet, FS_CardinalityType
  <2> QED BY <2>1, <2>4 DEF Alone, At
<1> QED BY <1>1, <1>2

\* A selection stays right while scores stay and no submitted entry is lost.
LEMMA SelectedStays ==
  ASSUME NEW ids, NEW among, NEW ranked, Selected(ids, among, ranked), UNCHANGED scores,
         \A i \in Submitted(stored) : i \in DOMAIN stored'.rows /\ stored'.rows[i] = stored.rows[i]
  PROVE  Selected(ids, among, ranked)'
<1>1. CASE among = {}
  BY <1>1 DEF Selected
<1>2. CASE among # {}
  <2>1. /\ among \subseteq DOMAIN scores \cap Submitted(stored)
        /\ ranked => ids \in TopOf(stored.rows, among)
    BY <1>2 DEF Selected
  <2>2. \A i \in among : stored'.rows[i] = stored.rows[i]
    BY <2>1
  <2>3. among \subseteq DOMAIN scores' \cap Submitted(stored)'
    BY <2>1 DEF Submitted
  <2>4. TopOf(stored.rows, among)' = TopOf(stored.rows, among)
    <3>1. \A i, j \in among : Before(stored.rows, i, j)' = Before(stored.rows, i, j)
      BY <2>2 DEF Before
    <3>2. \A top \in kSubset(WinnerCount, among) : top \subseteq among
      BY DEF kSubset
    <3> QED BY <3>1, <3>2 DEF TopOf
  <2> QED BY <1>2, <2>1, <2>3, <2>4 DEF Selected
<1> QED BY <1>1, <1>2

\* So does a final one, whatever creators enter after the deadline was moved.
LEMMA FinalStays ==
  ASSUME Final, UNCHANGED <<scores, winners>>, closed' \/ reopened', reopened => reopened',
         faulty => faulty',
         ~faulty' => \A i \in Submitted(stored) :
                       i \in DOMAIN stored'.rows /\ stored'.rows[i] = stored.rows[i],
         \A r \in Requests : requests'[r].pc \notin Scoring,
         ~reopened' =>
           UNCHANGED stored /\ \A r \in Requests : requests'[r].pc \notin Entering
  PROVE  Final'
<1>1. PICK ids, among, ranked : ids = winners.ids /\ among = winners.among /\ ranked = winners.ranked
  OBVIOUS
<1>2. ids = winners'.ids /\ among = winners'.among /\ ranked = winners'.ranked
  BY <1>1
<1>3. ~faulty' => ids \subseteq Submitted(stored)'
  BY <1>1 DEF Final, Submitted
<1>4. ~faulty' => Selected(ids, among, ranked)'
  BY <1>1, SelectedStays DEF Final
<1>5. ~faulty' => Selected(winners.ids, winners.among, winners.ranked)'
  BY <1>2, <1>4
<1>6. ~reopened' /\ ~faulty' => Complete(among)'
  BY <1>1 DEF Final, Complete, Submitted
<1>7. ~reopened' /\ ~faulty' => Complete(winners.among)'
  BY <1>2, <1>6
<1> QED BY <1>2, <1>3, <1>5, <1>7 DEF Final

\* A step that writes neither the store nor scores nor winners.
LEMMA QuietSettled ==
  ASSUME BaseInv, Settled, NEW r \in Requests,
         UNCHANGED <<setting, stored, file, closed, reopened, scores, winners>>, faulty => faulty',
         blank' = blank \/ requests'[r].pc = "open",
         ~At(r, "open"), ~At(r, "fill"),
         \A p \in Requests \ {r} : requests'[p] = requests[p],
         winners # NoWinners => requests'[r].pc \notin Scoring,
         winners # NoWinners /\ ~reopened => requests'[r].pc \notin Entering
  PROVE  Settled'
<1>1. Right(stored, setting.maxSubmissions)' = Right(stored, setting.maxSubmissions)
  BY DEF Right, Submitted
<1>2. /\ setting'.adapter = "filesystem" =>
           /\ file' = "absent" => stored' = EmptyStore
           /\ file' = "torn" /\ ~faulty' => \E p \in Requests : requests'[p].pc = "fill"
      /\ setting'.adapter = "supabase" => Right(stored, setting.maxSubmissions)'
  BY <1>1 DEF Settled, At
<1>3. setting'.adapter = "filesystem" /\ file' # "whole" /\ ~faulty' =>
        blank' = EmptyStore \/ \E p \in Requests : requests'[p].pc = "open" \/ requests'[p].pc = "fill"
  BY DEF Settled, At
<1>4. ASSUME winners' # NoWinners PROVE Final'
  <2>1. Final /\ winners # NoWinners
    BY <1>4 DEF Settled
  <2>2. \A p \in Requests : requests'[p].pc \notin Scoring
    BY <2>1 DEF Final
  <2>3. ~reopened' => \A p \in Requests : requests'[p].pc \notin Entering
    BY <2>1 DEF Final
  <2>4. closed' \/ reopened'
    BY <2>1 DEF Final
  <2>5. \A i \in Submitted(stored) : i \in DOMAIN stored'.rows /\ stored'.rows[i] = stored.rows[i]
    BY DEF Submitted
  <2> QED BY <2>1, <2>2, <2>3, <2>4, <2>5, FinalStays
<1> QED BY <1>2, <1>3, <1>4 DEF Settled, At

\* A request that is not at work on the store is ready.
LEMMA ElsewhereReady ==
  ASSUME NEW r, requests'[r].pc \in {"idle", "read", "findEntry", "saveScore"}
  PROVE  Ready(r)'
BY DEF Ready, At

LEMMA StartAlone ==
  ASSUME BaseInv, Settled, NEW r \in Requests, NEW c \in Creators,
         StartSave(r, c) \/ \E key \in IdempotencyKeys : StartSubmit(r, c, key)
  PROVE  Ready(r)' /\ Settled'
<1>1. /\ Free(r) /\ ~closed /\ requests'[r].pc = "read"
      /\ \A p \in Requests \ {r} : requests'[p] = requests[p]
      /\ UNCHANGED <<setting, stored, file, blank, faulty, closed, reopened, scores, winners>>
  BY StartEffect DEF store
<1>2. ~At(r, "fill") /\ ~At(r, "open") /\ (winners # NoWinners => reopened)
  BY <1>1 DEF Free, At, Settled, Final
<1>3. requests'[r].pc \notin Scoring
  BY <1>1 DEF Scoring
<1> QED BY <1>1, <1>2, <1>3, ElsewhereReady, QuietSettled

\* What was read is what is stored, unless the read failed.
LEMMA ReadIsStored ==
  ASSUME BaseInv, Alone, Settled, ~faulty, NEW r \in Requests, At(r, "read") \/ At(r, "resolve")
  PROVE  /\ Read(FALSE) = stored \/ (stored = EmptyStore /\ blank = EmptyStore)
         /\ ~Readable(FALSE) => stored = EmptyStore /\ blank = EmptyStore
<1>1. CASE Readable(FALSE)
  BY <1>1 DEF Read
<1>2. CASE ~Readable(FALSE)
  <2>1. setting.adapter = "filesystem" /\ file \in {"absent", "torn"}
    BY <1>2, Limits DEF Readable, BaseInv, Typed
  <2>2. \A p \in Requests : ~At(p, "fill") /\ ~At(p, "open")
    BY DEF Alone, At
  <2> QED BY <2>1, <2>2 DEF Settled
<1> QED BY <1>1, <1>2

LEMMA ChangeAlone ==
  ASSUME BaseInv, Alone, Settled, NEW r \in Requests, NEW failed \in BOOLEAN, Change(r, failed)
  PROVE  Ready(r)' /\ Settled'
<1>1. /\ At(r, "read") /\ failed \in Failing /\ faulty' = (faulty \/ failed)
      /\ \A p \in Requests \ {r} : requests'[p] = requests[p]
      /\ UNCHANGED <<setting, stored, file, closed, reopened, scores, winners>>
      /\ \/ requests'[r] = Idle
         \/ /\ requests'[r].pc = IF setting.adapter = "filesystem" THEN "open" ELSE "writeRows"
            /\ requests'[r].shared = ~Readable(failed)
            /\ Extends(requests'[r].store, Read(failed))
            /\ Right(Read(failed), setting.maxSubmissions) =>
                 Right(requests'[r].store, setting.maxSubmissions)
  BY ChangeEffect
<1>2. ~At(r, "fill") /\ ~At(r, "open") /\ (winners # NoWinners => reopened)
  BY <1>1 DEF At, Settled, Final, Entering
<1>a. requests'[r].pc \in {"idle", "open", "writeRows"} /\ requests'[r].pc \notin Scoring
  BY <1>1, IdleLocals DEF Scoring
<1>b. blank' = blank \/ requests'[r].pc = "open"
  <2>1. CASE Readable(failed)
    BY <2>1 DEF Change
  <2>2. CASE ~Readable(failed)
    <3>1. setting.adapter = "filesystem"
      BY <1>1, <2>2, Limits DEF Readable, Failing, BaseInv
    <3>2. UNCHANGED blank \/ requests'[r].pc = "open"
      <4>1. CASE UNCHANGED blank
        BY <4>1
      <4>2. CASE \E s : requests' = [requests EXCEPT ![r] =
                   [Idle EXCEPT !.pc = "open", !.store = s, !.shared = ~Readable(failed)]]
        BY <4>2 DEF Idle, BaseInv, Typed
      <4> QED BY <3>1, <4>1, <4>2 DEF Change
    <3> QED BY <3>2
  <2> QED BY <2>1, <2>2
<1>3. Settled'
  BY <1>1, <1>2, <1>a, <1>b, QuietSettled
<1>4. CASE requests'[r] = Idle
  BY <1>3, <1>4, ElsewhereReady, IdleLocals
<1>c. ~faulty' => ~faulty /\ failed = FALSE
  BY <1>1
<1>5. ASSUME setting.adapter = "filesystem", requests'[r].pc = "open",
             requests'[r].shared = ~Readable(failed), Extends(requests'[r].store, Read(failed))
      PROVE  Ready(r)'
  <2>1. ~faulty' => Extends(requests'[r].store, stored)
    BY <1>1, <1>5, <1>c, ReadIsStored, EmptyStores DEF Extends
  <2>2. requests'[r].shared /\ ~faulty' => stored = EmptyStore
    BY <1>1, <1>5, <1>c, ReadIsStored
  <2>3. ~faulty' => Extends(requests'[r].store, stored')
    BY <1>1, <2>1
  <2>4. ~faulty' => Extends(requests[r].store, stored)'
    BY <2>3 DEF Extends
  <2> QED BY <1>1, <1>5, <2>2, <2>4 DEF Ready, At
<1>6. ASSUME setting.adapter = "supabase", requests'[r].pc = "writeRows",
             Extends(requests'[r].store, Read(failed)),
             Right(Read(failed), setting.maxSubmissions) =>
               Right(requests'[r].store, setting.maxSubmissions)
      PROVE  Ready(r)'
  <2>1. Read(failed) = stored
    BY <1>1, <1>6 DEF Read, Readable, Failing
  <2>2. Right(stored, setting.maxSubmissions)
    BY <1>6 DEF Settled
  <2>3. PICK t, m, s : t = requests'[r].store /\ m = setting.maxSubmissions /\ s = stored
    OBVIOUS
  <2>4. Extends(t, s) /\ Right(t, m)
    BY <1>6, <2>1, <2>2, <2>3
  <2>5. Extends(requests[r].store, stored)' /\ Right(requests[r].store, setting.maxSubmissions)'
    BY <1>1, <2>3, <2>4 DEF Extends, Right, Submitted
  <2> QED BY <1>6, <2>5 DEF Ready, At
<1> QED BY <1>1, <1>3, <1>4, <1>5, <1>6, Limits DEF BaseInv

LEMMA OpenAlone ==
  ASSUME BaseInv, Settled, NEW r \in Requests, Ready(r), Open(r)
  PROVE  Ready(r)' /\ Settled'
<1>1. /\ At(r, "open") /\ requests'[r].pc = "fill"
      /\ requests'[r].store = IF requests[r].shared THEN blank ELSE requests[r].store
      /\ \A p \in Requests \ {r} : requests'[p] = requests[p]
      /\ file' = IF file = "whole" THEN "torn" ELSE file
      /\ UNCHANGED <<setting, stored, blank, faulty, closed, reopened, scores, winners>>
  BY OpenEffect
<1>2. (winners # NoWinners => reopened) /\ setting.adapter = "filesystem"
  BY <1>1, Limits DEF At, Settled, Final, Entering, BaseInv, StepOk
<1>3. ~faulty => Extends(requests'[r].store, stored)
  BY <1>1, EmptyStores DEF Ready, Extends
<1>4. Extends(requests[r].store, stored)' = Extends(requests'[r].store, stored)
  BY <1>1 DEF Extends
<1>5. Ready(r)'
  BY <1>1, <1>3, <1>4 DEF Ready, At
<1>6. ASSUME winners' # NoWinners PROVE Final'
  <2>1. Final /\ reopened
    BY <1>1, <1>2, <1>6 DEF Settled
  <2>2. \A p \in Requests : requests'[p].pc \notin Scoring
    BY <1>1, <2>1 DEF Final, Scoring
  <2>3. \A i \in Submitted(stored) : i \in DOMAIN stored'.rows /\ stored'.rows[i] = stored.rows[i]
    BY <1>1 DEF Submitted
  <2> QED BY <1>1, <2>1, <2>2, <2>3, FinalStays
<1>7. Settled'
  BY <1>1, <1>2, <1>6 DEF Settled, At
<1> QED BY <1>5, <1>7

LEMMA FillAlone ==
  ASSUME BaseInv, Settled, NEW r \in Requests, Ready(r), Fill(r)
  PROVE  Ready(r)' /\ Settled'
<1>1. /\ At(r, "fill") /\ requests'[r] = Idle
      /\ \A p \in Requests \ {r} : requests'[p] = requests[p]
      /\ stored' = requests[r].store
      /\ file' = "whole" \/ (file = "whole" /\ file' = "torn")
      /\ UNCHANGED <<setting, faulty, closed, reopened, scores, winners>>
  BY FillEffect
<1>2. (winners # NoWinners => reopened) /\ setting.adapter = "filesystem" /\ file' = "whole"
  BY <1>1, Limits DEF At, Settled, Final, Entering, BaseInv, StepOk, Ready
<1>3. ASSUME winners' # NoWinners PROVE Final'
  <2>1. Final /\ reopened
    BY <1>1, <1>2, <1>3 DEF Settled
  <2>2. \A p \in Requests : requests'[p].pc \notin Scoring
    BY <1>1, <2>1, IdleLocals DEF Final, Scoring
  <2>3. ~faulty' => \A i \in Submitted(stored) :
                      i \in DOMAIN stored'.rows /\ stored'.rows[i] = stored.rows[i]
    BY <1>1 DEF Ready, Extends, Submitted
  <2> QED BY <1>1, <2>1, <2>2, <2>3, FinalStays
<1>4. Settled'
  BY <1>1, <1>2, <1>3 DEF Settled
<1> QED BY <1>1, <1>4, ElsewhereReady, IdleLocals

LEMMA WriteRowsAlone ==
  ASSUME BaseInv, Settled, NEW r \in Requests, Ready(r), WriteRows(r)
  PROVE  /\ Ready(r)' /\ Settled'
         /\ \A i \in Submitted(stored) : i \in DOMAIN stored'.rows /\ stored'.rows[i] = stored.rows[i]
<1>1. /\ At(r, "writeRows") /\ setting.adapter = "supabase"
      /\ \A p \in Requests \ {r} : requests'[p] = requests[p]
      /\ UNCHANGED <<setting, file, blank, faulty, closed, reopened, scores, winners>>
      /\ \/ requests'[r] = Idle /\ UNCHANGED stored
         \/ /\ requests'[r].pc = "writeKeys" /\ requests'[r].store.keys = requests[r].store.keys
            /\ stored'.rows = Upserted(stored.rows, requests[r].store.rows)
            /\ stored'.keys = stored.keys
  BY WriteRowsEffect
<1>2. (winners # NoWinners => reopened) /\ ~At(r, "fill") /\ ~At(r, "open")
  BY <1>1 DEF At, Settled, Final, Entering
<1>3. CASE requests'[r] = Idle /\ UNCHANGED stored
  BY <1>1, <1>2, <1>3, QuietSettled, ElsewhereReady, IdleLocals DEF Submitted, Scoring
<1>4. CASE /\ requests'[r].pc = "writeKeys" /\ requests'[r].store.keys = requests[r].store.keys
           /\ stored'.rows = Upserted(stored.rows, requests[r].store.rows)
           /\ stored'.keys = stored.keys
  <2>1. PICK old, mine, new, m :
          /\ old = stored /\ mine = requests[r].store /\ new = stored'
          /\ m = setting.maxSubmissions
    OBVIOUS
  <2>2. Right(old, m) /\ Right(mine, m) /\ Extends(mine, old)
    BY <1>1, <2>1 DEF Settled, Ready
  <2>3. new.rows = Upserted(old.rows, mine.rows) /\ new.keys = old.keys
    BY <1>4, <2>1
  <2>4. /\ DOMAIN new.rows = DOMAIN old.rows \cup DOMAIN mine.rows
        /\ \A i \in DOMAIN mine.rows : new.rows[i] = mine.rows[i]
    BY <2>3 DEF Upserted
  <2>5. DOMAIN new.rows = DOMAIN mine.rows
    BY <2>2, <2>4 DEF Extends
  <2>6. \A i \in Submitted(old) : i \in DOMAIN new.rows /\ new.rows[i] = old.rows[i]
    BY <2>2, <2>4 DEF Extends, Submitted
  <2>7. \A i \in Submitted(mine) : i \in Submitted(new)
    BY <2>4 DEF Submitted
  <2>8. \A k \in DOMAIN new.keys : new.keys[k] \in Submitted(new)
    BY <2>2, <2>3, <2>6 DEF Right, Submitted
  <2>9. Right(new, m)
    BY <2>2, <2>5, <2>8 DEF Right
  <2>10. \A k \in DOMAIN mine.keys : mine.keys[k] \in Submitted(new)
    BY <2>2, <2>7 DEF Right
  <2>11. Submitted(stored)' = Submitted(new) /\ requests'[r].store.keys = mine.keys
    BY <1>4, <2>1 DEF Submitted
  <2>12. Ready(r)'
    BY <1>4, <2>10, <2>11 DEF Ready, At
  <2>13. Right(stored, setting.maxSubmissions)'
    BY <1>1, <2>1, <2>9 DEF Right, Submitted
  <2>a. ASSUME winners' # NoWinners PROVE Final'
    <3>1. Final /\ reopened
      BY <1>1, <1>2, <2>a DEF Settled
    <3>2. \A p \in Requests : requests'[p].pc \notin Scoring
      BY <1>1, <1>4, <3>1 DEF Final, Scoring
    <3>3. \A i \in Submitted(stored) : i \in DOMAIN stored'.rows /\ stored'.rows[i] = stored.rows[i]
      BY <2>1, <2>6
    <3> QED BY <1>1, <3>1, <3>2, <3>3, FinalStays
  <2>14. Settled'
    BY <1>1, <2>13, <2>a DEF Settled
  <2> QED BY <2>1, <2>6, <2>12, <2>14
<1> QED BY <1>1, <1>3, <1>4

LEMMA WriteKeysAlone ==
  ASSUME BaseInv, Settled, NEW r \in Requests, Ready(r), WriteKeys(r)
  PROVE  Ready(r)' /\ Settled'
<1>1. /\ At(r, "writeKeys") /\ setting.adapter = "supabase" /\ requests'[r] = Idle
      /\ \A p \in Requests \ {r} : requests'[p] = requests[p]
      /\ stored'.rows = stored.rows
      /\ \A k \in DOMAIN stored'.keys :
           \/ k \in DOMAIN stored.keys /\ stored'.keys[k] = stored.keys[k]
           \/ k \in DOMAIN requests[r].store.keys /\ stored'.keys[k] = requests[r].store.keys[k]
      /\ UNCHANGED <<setting, file, blank, faulty, closed, reopened, scores, winners>>
  BY WriteKeysEffect
<1>2. winners # NoWinners => reopened
  BY <1>1 DEF At, Settled, Final, Entering
<1>3. Submitted(stored)' = Submitted(stored)
  BY <1>1 DEF Submitted
<1>4. Right(stored, setting.maxSubmissions)
  BY <1>1 DEF Settled
<1>5. \A k \in DOMAIN stored'.keys : stored'.keys[k] \in Submitted(stored)
  BY <1>1, <1>4 DEF Right, Ready
<1>6. Right(stored, setting.maxSubmissions)'
  BY <1>1, <1>3, <1>4, <1>5 DEF Right
<1>a. ASSUME winners' # NoWinners PROVE Final'
  <2>1. Final /\ reopened
    BY <1>1, <1>2, <1>a DEF Settled
  <2>2. \A p \in Requests : requests'[p].pc \notin Scoring
    BY <1>1, <2>1, IdleLocals DEF Final, Scoring
  <2>3. \A i \in Submitted(stored) : i \in DOMAIN stored'.rows /\ stored'.rows[i] = stored.rows[i]
    BY <1>1 DEF Submitted
  <2> QED BY <1>1, <2>1, <2>2, <2>3, FinalStays
<1>7. Settled'
  BY <1>1, <1>6, <1>a DEF Settled
<1> QED BY <1>1, <1>7, ElsewhereReady, IdleLocals

LEMMA ScoreAlone ==
  ASSUME BaseInv, Settled, NEW r \in Requests,
         \/ \E i \in Ids, score \in Scores : StartScore(r, i, score)
         \/ FindEntry(r) \/ SaveScore(r)
  PROVE  Ready(r)' /\ Settled'
<1>1. CASE \E i \in Ids, score \in Scores : StartScore(r, i, score)
  <2>1. /\ Free(r) /\ winners = NoWinners /\ requests'[r].pc = "findEntry"
        /\ \A p \in Requests \ {r} : requests'[p] = requests[p]
        /\ UNCHANGED <<setting, stored, file, blank, faulty, closed, reopened, scores, winners>>
    BY <1>1, StartScoreEffect DEF store
  <2>2. ~At(r, "fill") /\ ~At(r, "open")
    BY <2>1 DEF Free, At
  <2> QED BY <2>1, <2>2, QuietSettled, ElsewhereReady
<1>2. CASE FindEntry(r)
  <2>1. /\ At(r, "findEntry") /\ requests'[r].pc \in {"idle", "saveScore"}
        /\ \A p \in Requests \ {r} : requests'[p] = requests[p]
        /\ UNCHANGED <<setting, stored, file, blank, faulty, closed, reopened, scores, winners>>
    BY <1>2, FindEntryEffect DEF store
  <2>2. ~At(r, "fill") /\ ~At(r, "open") /\ winners = NoWinners
    BY <2>1 DEF At, Settled, Final, Scoring
  <2> QED BY <2>1, <2>2, QuietSettled, ElsewhereReady
<1>3. CASE SaveScore(r)
  <2>1. /\ At(r, "saveScore") /\ requests'[r] = Idle
        /\ \A p \in Requests \ {r} : requests'[p] = requests[p]
        /\ UNCHANGED <<setting, stored, file, blank, faulty, closed, reopened, winners>>
    BY <1>3, SaveScoreEffect DEF store
  <2>2. winners = NoWinners
    BY <2>1 DEF At, Settled, Final, Scoring
  <2>3. Right(stored, setting.maxSubmissions)' = Right(stored, setting.maxSubmissions)
    BY <2>1 DEF Right, Submitted
  <2>4. /\ (\E p \in Requests : At(p, "fill")) => \E p \in Requests : requests'[p].pc = "fill"
        /\ (\E p \in Requests : At(p, "open") \/ At(p, "fill")) =>
             \E p \in Requests : requests'[p].pc = "open" \/ requests'[p].pc = "fill"
    BY <2>1 DEF At
  <2>5. Settled'
    BY <2>1, <2>2, <2>3, <2>4 DEF Settled, At
  <2> QED BY <2>1, <2>5, ElsewhereReady, IdleLocals
<1> QED BY <1>1, <1>2, <1>3

LEMMA ReviewAlone ==
  ASSUME BaseInv, Settled, NEW r \in Requests, Ready(r),
         \/ StartReview(r)
         \/ \E ids \in kSubset(WinnerCount, Ids) : NameWinners(r, ids)
         \/ \E top \in SUBSET Ids, ranked \in BOOLEAN : Choose(r, top, ranked)
  PROVE  Ready(r)' /\ Settled'
<1>1. CASE StartReview(r)
  <2>1. /\ Free(r) /\ requests'[r].pc = "readScores"
        /\ requests'[r].ids = Submitted(stored) /\ requests'[r].seen = stored.rows
        /\ \A p \in Requests \ {r} : requests'[p] = requests[p]
        /\ UNCHANGED <<setting, stored, file, blank, faulty, closed, reopened, scores, winners>>
    BY <1>1, StartReviewEffect DEF store
  <2>2. ~At(r, "fill") /\ ~At(r, "open") /\ requests'[r].pc \notin Entering \cup Scoring
    BY <2>1 DEF Free, At, Entering, Scoring
  <2>3. Settled'
    BY <2>1, <2>2, QuietSettled
  <2>4. Submitted(stored)' = Submitted(stored)
    BY <2>1 DEF Submitted
  <2>5. Ready(r)'
    BY <2>1, <2>4 DEF Ready, At
  <2> QED BY <2>3, <2>5
<1>2. CASE \E ids \in kSubset(WinnerCount, Ids) : NameWinners(r, ids)
  <2>1. /\ Free(r) /\ requests'[r].pc = "resolve" /\ requests'[r].among = {}
        /\ \A p \in Requests \ {r} : requests'[p] = requests[p]
        /\ UNCHANGED <<setting, stored, file, blank, faulty, closed, reopened, scores, winners>>
    BY <1>2, NameEffect DEF store
  <2>2. ~At(r, "fill") /\ ~At(r, "open") /\ requests'[r].pc \notin Entering \cup Scoring
    BY <2>1 DEF Free, At, Entering, Scoring
  <2>3. Settled'
    BY <2>1, <2>2, QuietSettled
  <2>4. Ready(r)'
    BY <2>1 DEF Ready, At, Selected, Complete
  <2> QED BY <2>3, <2>4
<1>3. ASSUME NEW top \in SUBSET Ids, NEW ranked \in BOOLEAN, Choose(r, top, ranked)
      PROVE  Ready(r)' /\ Settled'
  <2>1. /\ At(r, "readScores") /\ requests[r].ids \subseteq DOMAIN scores
        /\ ranked => top \in TopOf(requests[r].seen, requests[r].ids)
        /\ requests'[r].pc = "resolve" /\ requests'[r].ids = top /\ requests'[r].arg = ranked
        /\ requests'[r].among = requests[r].ids
        /\ \A p \in Requests \ {r} : requests'[p] = requests[p]
        /\ UNCHANGED <<setting, stored, file, blank, faulty, closed, reopened, scores, winners>>
    BY <1>3, ChooseEffect DEF store
  <2>2. requests[r].ids = Submitted(stored) /\ requests[r].seen = stored.rows
    BY <2>1 DEF Ready
  <2>3. PICK among : among = requests[r].ids
    OBVIOUS
  <2>4. Selected(top, among, ranked) /\ Complete(among)
    BY <2>1, <2>2, <2>3 DEF Selected, Complete
  <2>5. Selected(top, among, ranked)'
    BY <2>1, <2>4, SelectedStays DEF Submitted
  <2>6. Complete(among)'
    BY <2>1, <2>4 DEF Complete, Submitted
  <2>7. ~At(r, "fill") /\ ~At(r, "open") /\ requests'[r].pc \notin Entering \cup Scoring
    BY <2>1 DEF At, Entering, Scoring
  <2>8. Settled'
    BY <2>1, <2>7, QuietSettled
  <2>9. /\ requests'[r].among = among /\ requests'[r].ids = top /\ requests'[r].arg = ranked
    BY <2>1, <2>3
  <2>10. Selected(requests[r].ids, requests[r].among, requests[r].arg)' /\ Complete(requests[r].among)'
    BY <2>5, <2>6, <2>9
  <2>11. Ready(r)'
    BY <2>1, <2>10 DEF Ready, At
  <2> QED BY <2>8, <2>11
<1> QED BY <1>1, <1>2, <1>3

LEMMA ResolveAlone ==
  ASSUME BaseInv, Alone, Settled, NEW r \in Requests, Ready(r), NEW failed \in BOOLEAN,
         ResolveSelection(r, failed)
  PROVE  Ready(r)' /\ Settled'
<1>1. /\ At(r, "resolve") /\ faulty' = (faulty \/ failed)
      /\ \/ requests'[r] = Idle
         \/ /\ requests'[r].pc = "finalize" /\ requests'[r].ids = requests[r].ids
            /\ requests'[r].arg = requests[r].arg /\ requests'[r].among = requests[r].among
            /\ closed /\ requests[r].ids \subseteq Submitted(Read(failed))
      /\ \A p \in Requests \ {r} : requests'[p] = requests[p]
      /\ UNCHANGED <<setting, stored, file, blank, closed, reopened, scores, winners>>
  BY ResolveEffect
<1>2. /\ ~At(r, "fill") /\ ~At(r, "open") /\ requests'[r].pc \notin Entering \cup Scoring
      /\ faulty => faulty'
  BY <1>1, IdleLocals DEF At, Entering, Scoring
<1>3. Settled'
  BY <1>1, <1>2, QuietSettled
<1>4. CASE requests'[r] = Idle
  BY <1>3, <1>4, ElsewhereReady, IdleLocals
<1>5. CASE /\ requests'[r].pc = "finalize" /\ requests'[r].ids = requests[r].ids
           /\ requests'[r].arg = requests[r].arg /\ requests'[r].among = requests[r].among
           /\ closed /\ requests[r].ids \subseteq Submitted(Read(failed))
  <2>1. PICK ids, among, ranked :
          ids = requests[r].ids /\ among = requests[r].among /\ ranked = requests[r].arg
    OBVIOUS
  <2>2. Selected(ids, among, ranked) /\ Complete(among)
    BY <1>1, <2>1 DEF Ready
  <2>3. Selected(ids, among, ranked)'
    BY <1>1, <2>2, SelectedStays DEF Submitted
  <2>4. Complete(among)'
    BY <1>1, <2>2 DEF Complete, Submitted
  <2>5. requests'[r].ids = ids /\ requests'[r].among = among /\ requests'[r].arg = ranked
    BY <1>5, <2>1
  <2>6. Selected(requests[r].ids, requests[r].among, requests[r].arg)' /\ Complete(requests[r].among)'
    BY <2>3, <2>4, <2>5
  <2>7. ~faulty' => ids \subseteq Submitted(stored)
    <3>1. SUFFICES ASSUME ~faulty' PROVE ids \subseteq Submitted(stored)
      OBVIOUS
    <3>2. ~faulty /\ failed = FALSE
      BY <1>1, <3>1
    <3>3. Read(FALSE) = stored \/ (stored = EmptyStore /\ blank = EmptyStore)
      BY <1>1, <3>2, ReadIsStored
    <3>4. Read(FALSE) = stored
      BY <3>3 DEF Read
    <3>5. ids \subseteq Submitted(Read(FALSE))
      BY <1>5, <2>1, <3>2
    <3> QED BY <3>4, <3>5
  <2>8. closed' /\ (~faulty' => requests'[r].ids \subseteq Submitted(stored)')
    BY <1>1, <1>5, <2>5, <2>7 DEF Submitted
  <2>9. Ready(r)'
    BY <1>5, <2>6, <2>8 DEF Ready, At
  <2> QED BY <1>3, <2>9
<1> QED BY <1>1, <1>4, <1>5

LEMMA FinalizeAlone ==
  ASSUME BaseInv, Alone, Settled, NEW r \in Requests, Ready(r), Finalize(r)
  PROVE  Ready(r)' /\ Settled'
<1>1. /\ At(r, "finalize") /\ requests'[r] = Idle
      /\ \A p \in Requests \ {r} : requests'[p] = requests[p]
      /\ \/ winners' = winners
         \/ /\ winners'.ids = requests[r].ids /\ winners'.ranked = requests[r].arg
            /\ winners'.among = requests[r].among
      /\ UNCHANGED <<setting, stored, file, blank, faulty, closed, reopened, scores>>
  BY FinalizeEffect DEF store
<1>2. \A p \in Requests \ {r} : At(p, "idle") /\ ~At(r, "fill") /\ ~At(r, "open")
  BY <1>1 DEF Alone, At
<1>3. CASE winners' = winners
  <2>1. ~At(r, "fill") /\ ~At(r, "open") /\ requests'[r].pc \notin Entering \cup Scoring
    BY <1>1, IdleLocals DEF At, Entering, Scoring
  <2> QED BY <1>1, <1>3, <2>1, QuietSettled, ElsewhereReady, IdleLocals
<1>4. CASE /\ winners'.ids = requests[r].ids /\ winners'.ranked = requests[r].arg
           /\ winners'.among = requests[r].among
  <2>1. PICK ids, among, ranked :
          ids = requests[r].ids /\ among = requests[r].among /\ ranked = requests[r].arg
    OBVIOUS
  <2>2. /\ Selected(ids, among, ranked) /\ Complete(among)
        /\ closed \/ reopened
        /\ ~faulty => ids \subseteq Submitted(stored)
    BY <1>1, <2>1 DEF Ready
  <2>3. Selected(ids, among, ranked)'
    BY <1>1, <2>2, SelectedStays DEF Submitted
  <2>4. winners'.ids = ids /\ winners'.among = among /\ winners'.ranked = ranked
    BY <1>4, <2>1
  <2>5. Selected(winners.ids, winners.among, winners.ranked)'
    BY <2>3, <2>4
  <2>6. Submitted(stored)' = Submitted(stored)
    BY <1>1 DEF Submitted
  <2>7. Complete(winners.among)'
    BY <2>2, <2>4, <2>6 DEF Complete
  <2>8. \A p \in Requests : requests'[p].pc \notin Entering \cup Scoring
    BY <1>1, <1>2, IdleLocals DEF At, Entering, Scoring
  <2>9. Final'
    BY <1>1, <2>2, <2>4, <2>5, <2>6, <2>7, <2>8 DEF Final
  <2>10. Right(stored, setting.maxSubmissions)' = Right(stored, setting.maxSubmissions)
    BY <1>1 DEF Right, Submitted
  <2>11. \A p \in Requests : ~At(p, "fill") /\ ~At(p, "open")
    BY <1>1, <1>2 DEF At
  <2>12. Settled'
    BY <1>1, <2>9, <2>10, <2>11 DEF Settled, At
  <2> QED BY <1>1, <2>12, ElsewhereReady, IdleLocals
<1> QED BY <1>1, <1>3, <1>4

LEMMA EndAlone ==
  ASSUME BaseInv, Settled, NEW r \in Requests, RefuseReview(r) \/ Abort(r)
  PROVE  Ready(r)' /\ Settled'
<1>1. /\ requests'[r] = Idle /\ \A p \in Requests \ {r} : requests'[p] = requests[p]
      /\ faulty => faulty'
      /\ At(r, "open") \/ At(r, "fill") => faulty'
      /\ UNCHANGED <<setting, stored, file, blank, closed, reopened, scores, winners>>
  BY EndEffect
<1>2. Ready(r)'
  BY <1>1, ElsewhereReady, IdleLocals
<1>3. requests'[r].pc \notin Entering \cup Scoring
  BY <1>1, IdleLocals DEF Entering, Scoring
<1>4. CASE At(r, "open") \/ At(r, "fill")
  <2>1. faulty'
    BY <1>1, <1>4
  <2>2. Right(stored, setting.maxSubmissions)' = Right(stored, setting.maxSubmissions)
    BY <1>1 DEF Right, Submitted
  <2>3. ASSUME winners' # NoWinners PROVE Final'
    <3>1. Final
      BY <1>1, <2>3 DEF Settled
    <3>2. /\ \A p \in Requests : requests'[p].pc \notin Scoring
          /\ ~reopened' => \A p \in Requests : requests'[p].pc \notin Entering
      BY <1>1, <1>3, <3>1 DEF Final
    <3>3. closed' \/ reopened'
      BY <1>1, <3>1 DEF Final
    <3> QED BY <1>1, <2>1, <3>1, <3>2, <3>3, FinalStays
  <2>4. Settled'
    BY <1>1, <2>1, <2>2, <2>3 DEF Settled
  <2> QED BY <1>2, <2>4
<1>5. CASE ~At(r, "open") /\ ~At(r, "fill")
  BY <1>1, <1>2, <1>3, <1>5, QuietSettled
<1> QED BY <1>4, <1>5

\* A step after which no request is under way, or that moves the deadline.
LEMMA ApartSettled ==
  ASSUME BaseInv, Settled, UNCHANGED <<setting, stored, file, scores, winners>>,
         \/ \A r \in Requests : requests'[r] = Idle
         \/ UNCHANGED requests /\ (~reopened' => closed' /\ ~reopened),
         closed' \/ reopened' \/ UNCHANGED <<closed, reopened>>, reopened => reopened',
         \/ UNCHANGED <<blank, faulty, requests>>
         \/ /\ blank' = EmptyStore /\ (faulty => faulty')
            /\ (\E r \in Requests : At(r, "open") \/ At(r, "fill")) => faulty'
  PROVE  Settled'
<1>1. Right(stored, setting.maxSubmissions)' = Right(stored, setting.maxSubmissions)
  BY DEF Right, Submitted
<1>2. ASSUME winners' # NoWinners PROVE Final'
  <2>1. Final
    BY <1>2 DEF Settled
  <2>2. \A r \in Requests : requests'[r].pc \notin Scoring
    BY <2>1, IdleLocals DEF Final, Scoring
  <2>3. ~reopened' => \A r \in Requests : requests'[r].pc \notin Entering
    BY <2>1, IdleLocals DEF Final, Entering
  <2>4. closed' \/ reopened'
    BY <2>1 DEF Final
  <2>5. \A i \in Submitted(stored) : i \in DOMAIN stored'.rows /\ stored'.rows[i] = stored.rows[i]
    BY DEF Submitted
  <2> QED BY <2>1, <2>2, <2>3, <2>4, <2>5, FinalStays
<1> QED BY <1>1, <1>2 DEF Settled, At

\* Requests that do not overlap keep what each found.
LEMMA NextAlone == BaseInv /\ AloneInv /\ [Next]_vars => AloneInv'
<1> SUFFICES ASSUME BaseInv, AloneInv, [Next]_vars, setting'.overlap = 1
             PROVE  Alone' /\ (\A r \in Requests : Ready(r))' /\ Settled'
  BY DEF AloneInv
<1>0. setting.overlap = 1
  BY DEF Next, StartSave, StartSubmit, Change, Open, Fill, WriteRows, WriteKeys, StartScore,
         FindEntry, SaveScore, StartReview, RefuseReview, Choose, NameWinners, ResolveSelection,
         Finalize, Abort, Restart, Close, Reopen, vars
<1>1. Alone /\ (\A r \in Requests : Ready(r)) /\ Settled
  BY <1>0 DEF AloneInv
<1>2. ASSUME NEW r \in Requests, StepOf(r) PROVE Alone' /\ (\A p \in Requests : Ready(p))' /\ Settled'
  <2>1. Ready(r)' /\ Settled'
    BY <1>1, <1>2, StartAlone, ChangeAlone, OpenAlone, FillAlone, WriteRowsAlone, WriteKeysAlone,
       ScoreAlone, ReviewAlone, ResolveAlone, FinalizeAlone, EndAlone DEF StepOf
  <2>2. /\ ~At(r, "idle") \/ Free(r)
        /\ \A p \in Requests \ {r} : requests'[p] = requests[p]
    <3>1. ASSUME \/ \E c \in Creators :
                      StartSave(r, c) \/ \E key \in IdempotencyKeys : StartSubmit(r, c, key)
                 \/ \E i \in Ids, score \in Scores : StartScore(r, i, score)
                 \/ \E ids \in kSubset(WinnerCount, Ids) : NameWinners(r, ids)
                 \/ StartReview(r)
          PROVE  Free(r) /\ \A p \in Requests \ {r} : requests'[p] = requests[p]
      BY <3>1, StartEffect, StartScoreEffect, StartReviewEffect, NameEffect
    <3>2. ASSUME \/ \E failed \in BOOLEAN : Change(r, failed) \/ ResolveSelection(r, failed)
                 \/ Open(r) \/ Fill(r) \/ WriteRows(r) \/ WriteKeys(r)
                 \/ FindEntry(r) \/ SaveScore(r)
          PROVE  ~At(r, "idle") /\ \A p \in Requests \ {r} : requests'[p] = requests[p]
      BY <3>2, ChangeEffect, ResolveEffect, OpenEffect, FillEffect, WriteRowsEffect,
         WriteKeysEffect, FindEntryEffect, SaveScoreEffect DEF At
    <3>3. ASSUME \/ \E top \in SUBSET Ids, ranked \in BOOLEAN : Choose(r, top, ranked)
                 \/ Finalize(r) \/ RefuseReview(r) \/ Abort(r)
          PROVE  ~At(r, "idle") /\ \A p \in Requests \ {r} : requests'[p] = requests[p]
      BY <3>3, ChooseEffect, FinalizeEffect, EndEffect DEF At
    <3> QED BY <1>2, <3>1, <3>2, <3>3 DEF StepOf
  <2>3. /\ \A p \in Requests \ {r} : requests'[p].pc = "idle"
        /\ Alone'
    BY <1>0, <1>1, <2>2, OthersIdle
  <2>4. \A p \in Requests \ {r} : Ready(p)'
    BY <2>3, ElsewhereReady
  <2> QED BY <2>1, <2>3, <2>4
<1>3. CASE Close \/ Reopen
  <2>1. /\ (closed' \/ reopened') /\ (reopened => reopened') /\ (~reopened' => closed')
        /\ UNCHANGED <<setting, stored, file, blank, faulty, requests, scores, winners>>
    BY <1>3, DeadlineEffect DEF store
  <2>2. Alone'
    BY <1>1, <2>1 DEF Alone, At
  <2>3. \A r \in Requests : Ready(r)'
    <3>1. SUFFICES ASSUME NEW r \in Requests PROVE Ready(r)'
      OBVIOUS
    <3>2. Ready(r)
      BY <1>1
    <3> QED BY <2>1, <3>2 DEF Ready, At, Extends, Right, Submitted, Selected, Complete, TopOf, Before
  <2>4. Settled'
    BY <1>1, <2>1, ApartSettled
  <2> QED BY <2>2, <2>3, <2>4
<1>4. CASE Restart
  <2>1. /\ \A r \in Requests : requests'[r] = Idle
        /\ blank' = EmptyStore /\ (faulty => faulty')
        /\ (\E r \in Requests : At(r, "open") \/ At(r, "fill")) => faulty'
        /\ UNCHANGED <<setting, stored, file, closed, reopened, scores, winners>>
    BY <1>4, RestartEffect
  <2>2. Alone' /\ \A r \in Requests : Ready(r)'
    BY <2>1, ElsewhereReady, IdleLocals DEF Alone, At
  <2>3. Settled'
    BY <1>1, <2>1, ApartSettled
  <2> QED BY <2>2, <2>3
<1>5. CASE UNCHANGED vars
  <2>1. UNCHANGED <<setting, stored, file, blank, faulty, requests, scores, closed, reopened, winners>>
    BY <1>5 DEF vars, store, deadline
  <2>2. Alone'
    BY <1>1, <2>1 DEF Alone, At
  <2>3. (\A r \in Requests : Ready(r))'
    BY <1>1, <2>1 DEF Ready, At, Extends, Right, Submitted, Selected, Complete, TopOf, Before
  <2>4. Settled'
    BY <1>1, <2>1 DEF Settled, Final, At, Right, Submitted, Selected, Complete, TopOf, Before
  <2> QED BY <2>2, <2>3, <2>4
<1> QED BY <1>2, <1>3, <1>4, <1>5, NextCases

\* What is stored is right with the file, and without overlap.
LEMMA StoredIsRight ==
  ASSUME BaseInv, AloneInv, setting.adapter = "filesystem" \/ setting.overlap = 1
  PROVE  Right(stored, setting.maxSubmissions)
BY Limits DEF BaseInv, AloneInv, Settled

\* A finalize key that would be answered with success names an entry that is
\* submitted, except for requests that overlap on Supabase.
THEOREM KeysNameSubmittedHolds == Spec => []KeysNameSubmitted
<1>1. BaseInv /\ AloneInv => KeysNameSubmitted
  BY StoredIsRight DEF Right, KeysNameSubmitted
<1> QED BY InitBase, NextBase, InitAlone, NextAlone, <1>1, PTL DEF Spec

\* The limit of entries holds, except for requests that overlap on Supabase.
THEOREM LimitHoldsAlways == Spec => []LimitHolds
<1>1. BaseInv /\ AloneInv => LimitHolds
  BY StoredIsRight DEF Right, LimitHolds
<1> QED BY InitBase, NextBase, InitAlone, NextAlone, <1>1, PTL DEF Spec

\* While requests do not overlap, and no read and no write of the file fails, a
\* finalized selection stays right: the winners are submitted, a review that chose
\* them had every entry unless the deadline was moved, and among the reviewed
\* entries none comes before a winner by rank.
THEOREM WinnersStandHolds == Spec => []WinnersStand
<1>1. ASSUME BaseInv, AloneInv, setting.overlap = 1, ~faulty, winners # NoWinners,
             winners.among # {}
      PROVE  /\ winners.among \subseteq DOMAIN scores \cap Submitted(stored)
             /\ ~reopened => winners.among = Submitted(stored)
             /\ winners.ranked => winners.ids \in TopOf(stored.rows, winners.among)
  BY <1>1 DEF AloneInv, Settled, Final, Selected, Complete
<1>2. ASSUME BaseInv, AloneInv, setting.overlap = 1, ~faulty, winners # NoWinners
      PROVE  winners.ids \subseteq Submitted(stored)
  BY <1>2 DEF AloneInv, Settled, Final
<1>3. BaseInv /\ AloneInv => WinnersStand
  BY <1>1, <1>2 DEF WinnersStand
<1> QED BY InitBase, NextBase, InitAlone, NextAlone, <1>3, PTL DEF Spec

\* A submitted entry is neither changed nor lost while requests do not overlap
\* and no read and no write of the file fails.
THEOREM SubmittedStayAloneHolds == Spec => SubmittedStayAlone
<1>1. ASSUME BaseInv, AloneInv, [Next]_vars, setting.overlap = 1, ~faulty
      PROVE  SubmittedStay
  <2>1. Settled /\ \A r \in Requests : Ready(r)
    BY <1>1 DEF AloneInv
  <2>2. CASE UNCHANGED stored \/ stored'.rows = stored.rows
    BY <2>2 DEF SubmittedStay, Submitted
  <2>3. ASSUME NEW r \in Requests, Fill(r) PROVE SubmittedStay
    <3>1. At(r, "fill") /\ stored' = requests[r].store
      BY <1>1, <2>3, FillEffect
    <3>2. Extends(requests[r].store, stored)
      BY <1>1, <2>1, <3>1 DEF Ready
    <3> QED BY <3>1, <3>2 DEF Extends, SubmittedStay, Submitted
  <2>4. ASSUME NEW r \in Requests, WriteRows(r) PROVE SubmittedStay
    BY <1>1, <2>1, <2>4, WriteRowsAlone DEF SubmittedStay
  <2>5. ASSUME NEW r \in Requests, WriteKeys(r) PROVE stored'.rows = stored.rows
    BY <1>1, <2>5, WriteKeysEffect
  <2>6. ASSUME NEW r \in Requests, StepOf(r), ~Fill(r), ~WriteRows(r), ~WriteKeys(r)
        PROVE  UNCHANGED stored
    BY <2>6 DEF StepOf, StartSave, StartSubmit, Change, Open, StartScore, FindEntry, SaveScore,
                StartReview, Choose, NameWinners, ResolveSelection, Finalize, RefuseReview, Abort,
                store
  <2>7. Close \/ Reopen \/ Restart \/ UNCHANGED vars => UNCHANGED stored
    BY DEF Close, Reopen, Restart, vars, store
  <2> QED BY <1>1, <2>2, <2>3, <2>4, <2>5, <2>6, <2>7, NextCases
<1>2. BaseInv /\ AloneInv /\ [Next]_vars => [setting.overlap = 1 /\ ~faulty => SubmittedStay]_vars
  BY <1>1
<1> QED BY InitBase, NextBase, InitAlone, NextAlone, <1>2, PTL DEF Spec, SubmittedStayAlone
=============================================================================
