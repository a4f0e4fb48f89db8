-------------------------- MODULE CexSequentialProofs --------------------------
(***************************************************************************)
(* Theorems about CexAccounts where requests are served one at a time, for *)
(* every set of users, keys and bodies, and any number of restarts and,    *)
(* unless said otherwise, of database faults.  Then what a request holds   *)
(* is what one operation makes of the row as it still is, so that what     *)
(* Write stores is known.  None of these theorems holds for two requests   *)
(* at a time.                                                              *)
(***************************************************************************)
EXTENDS CexAccountsProofs

OneAtATime == \A p, q \in Handlers : p = q

-----------------------------------------------------------------------------
(* The inductive invariant *)

\* Hash and ciphertext are of one key, status and count tell one story.
RowOK(row) == row.hash = row.cipher.key /\ (row.conn = "error" <=> row.fails > 0)

NoLive(r) == ~\E id \in DOMAIN accounts : Live(accounts[id]) /\ SameSlot(accounts[id], r)

IndexHolds ==
  \A i, j \in DOMAIN accounts : IndexKey(accounts[i]) = IndexKey(accounts[j]) => i = j

\* A test that reports failure has held either the row, or, when the database refused
\* its report of success, an entity whose count was already cleared.
HasFailed(row, entity) ==
  entity = Failed(row) \/ (faults > 0 /\ entity = Failed(Connected(row)))

\* A creation request may use `row` again.
MayRestore(row, r) == r \in CreateRequest /\ ~Live(row) /\ SameSlot(row, r) /\ NoLive(r)

\* What the other requests make of `row` to be able to answer `result`.
Changes(row, r, result, entity) ==
  /\ Live(row)
  /\ \/ result = "updated" /\ entity = Updated(row, r.body) /\ r \in UpdateRequests
     \/ result = "deleted" /\ entity = Deleted(row)
     \/ result = "connected" /\ entity = Connected(row)
     \/ result = "failed" /\ HasFailed(row, entity)

\* The entity a request holds to be able to answer `result`.
Derives(row, r, result, entity) ==
  \/ result = "restored" /\ MayRestore(row, r) /\ entity = Restored(row, r)
  \/ Changes(row, r, result, entity)

\* save() leaves the column of an undefined property as it is.
Filled(row, entity) ==
  [user |-> entity.user, type |-> entity.type, env |-> entity.env, hash |-> entity.hash,
   cipher |-> entity.cipher, label |-> Given(entity.label, row.label),
   rights |-> Given(entity.rights, row.rights), enabled |-> entity.enabled,
   deletedAt |-> entity.deletedAt, conn |-> entity.conn, fails |-> entity.fails]

\* The row it stores.
Leaves(row, r, result, stored) ==
  \/ result = "restored" /\ MayRestore(row, r) /\ stored = Filled(row, Restored(row, r))
  \/ Changes(row, r, result, stored)

Serving(p) ==
  /\ pc[p] \in {"findDeleted", "insert"} => NoLive(req[p])
  /\ pc[p] = "insert" => ~\E id \in DOMAIN accounts : SameSlot(accounts[id], req[p])
  /\ pc[p] = "probe" => held[p] = accounts[target[p]] /\ Live(held[p])
  /\ pc[p] \in {"load", "write"} =>
       Derives(accounts[target[p]], req[p], outcome[p], held[p])
  /\ pc[p] = "write" => dirty[p] = Differing(held[p], accounts[target[p]])

SoundTable ==
  /\ \A id \in DOMAIN accounts : RowOK(accounts[id])
  /\ OneLiveRowPerSlot
  /\ IndexHolds

SeqInv == SoundTable /\ \A p \in Handlers : Serving(p)

-----------------------------------------------------------------------------
(* What one operation makes of a row *)

\* save() stores what the entity defines, if the row is as it was when the columns were
\* compared.
LEMMA RowReplaced ==
  ASSUME NEW row \in Row, NEW entity \in Entity, Kept(row, entity)
  PROVE  Merge(row, entity, Differing(entity, row)) = Filled(row, entity)
<1> DEFINE cols == Differing(entity, row)
<1>1. \A c \in Columns : c \notin cols => entity[c] = Undefined \/ entity[c] = row[c]
  BY DEF Differing
<1>2. \A c \in cols : entity[c] # Undefined BY DEF Differing
<1>3. /\ entity.hash # Undefined /\ entity.cipher # Undefined /\ entity.enabled # Undefined
      /\ entity.deletedAt # Undefined /\ entity.conn # Undefined /\ entity.fails # Undefined
  BY ConstantsAssumption DEF ConstantsAssumption, Entity
<1>4. /\ "hash" \notin cols => entity.hash = row.hash
      /\ "cipher" \notin cols => entity.cipher = row.cipher
      /\ "label" \notin cols => entity.label = Undefined \/ entity.label = row.label
      /\ "rights" \notin cols => entity.rights = Undefined \/ entity.rights = row.rights
      /\ "enabled" \notin cols => entity.enabled = row.enabled
      /\ "deletedAt" \notin cols => entity.deletedAt = row.deletedAt
      /\ "conn" \notin cols => entity.conn = row.conn
      /\ "fails" \notin cols => entity.fails = row.fails
  BY <1>1, <1>3 DEF Columns
<1>5. /\ "label" \in cols => entity.label # Undefined
      /\ "rights" \in cols => entity.rights # Undefined
  BY <1>2
<1> HIDE DEF cols
<1> DEFINE stored ==
        [user |-> entity.user, type |-> entity.type, env |-> entity.env, hash |-> entity.hash,
         cipher |-> entity.cipher, label |-> Given(entity.label, row.label),
         rights |-> Given(entity.rights, row.rights),
         enabled |-> entity.enabled, deletedAt |-> entity.deletedAt, conn |-> entity.conn,
         fails |-> entity.fails]
<1>6. Merge(row, entity, cols) = stored BY <1>4, <1>5 DEF Merge, Kept, Given
<1>7. Filled(row, entity) = stored BY DEF Filled
<1> HIDE DEF stored
<1>8. Merge(row, entity, cols) = Filled(row, entity) BY <1>6, <1>7
<1> QED BY <1>8 DEF cols

\* A row has nothing to fill in.
LEMMA FilledRow ==
  ASSUME NEW row, NEW entity \in Row
  PROVE  Filled(row, entity) = entity
<1>1. entity.label # Undefined /\ entity.rights # Undefined
  BY ConstantsAssumption DEF ConstantsAssumption, Row
<1> QED BY <1>1 DEF Filled, Given, Row

\* A restored account is live, switched on, and has the key of the request in the slot of
\* the row; its label and rights are the request's, or the deleted account's.
LEMMA RestoredFields ==
  ASSUME NEW row \in Row, NEW r \in CreateRequest
  PROVE  LET stored == Filled(row, Restored(row, r)) IN
         /\ stored \in Row /\ Kept(row, stored) /\ SameHealth(row, stored) /\ Live(stored)
         /\ stored.hash = r.body.key /\ stored.cipher.key = r.body.key
         /\ stored.label = Given(r.body.label, row.label)
         /\ stored.rights = Given(RightsOf(r.body), row.rights)
         /\ stored.enabled = "yes"
<1> DEFINE stored == Filled(row, Restored(row, r))
<1>1. Seal(r).key = r.body.key BY DEF Seal
<1>2. Restored(row, r) \in Entity BY RestoredOK
<1>3. PICK entity \in Entity : entity = Restored(row, r) BY <1>2, Zenon
<1>4. /\ entity.cipher = Seal(r) /\ entity.hash = r.body.key /\ entity.label = r.body.label
      /\ entity.rights = RightsOf(r.body) /\ entity.enabled = "yes" /\ entity.deletedAt = "null"
      /\ Kept(row, entity) /\ SameHealth(row, entity)
  BY <1>3, RestoredOK DEF Restored, Row
<1>5. /\ stored.cipher = entity.cipher /\ stored.hash = entity.hash
      /\ stored.label = Given(entity.label, row.label)
      /\ stored.rights = Given(entity.rights, row.rights)
      /\ stored.enabled = entity.enabled /\ stored.deletedAt = entity.deletedAt
      /\ Kept(row, stored) /\ SameHealth(row, stored)
  BY <1>3, <1>4 DEF Filled, Entity, Kept, SameHealth
<1>6. stored \in Row
  <2>1. Merge(row, entity, Differing(entity, row)) \in Row
    <3>1. \A c \in Differing(entity, row) : entity[c] # Undefined BY DEF Differing
    <3> QED BY <3>1, MergeOK
  <2>2. Merge(row, entity, Differing(entity, row)) = stored BY <1>3, <1>4, RowReplaced
  <2> QED BY <2>1, <2>2
<1> QED BY <1>1, <1>4, <1>5, <1>6 DEF Live

\* An update changes label, rights and the switch, as its body says.
LEMMA UpdatedFields ==
  ASSUME NEW row \in Row, NEW body \in UpdateBodies
  PROVE  LET entity == Updated(row, body) IN
         /\ Kept(row, entity) /\ SameHealth(row, entity)
         /\ entity.deletedAt = row.deletedAt
         /\ entity.hash = row.hash /\ entity.cipher = row.cipher
         /\ entity.label = Given(body.label, row.label)
         /\ entity.rights = Given(RightsOf(body), row.rights)
         /\ entity.enabled = Given(body.enabled, row.enabled)
BY UpdatedOK DEF Updated, Row

\* The other operations leave what a client sees of a row alone.
SameView(row, entity) ==
  /\ entity.hash = row.hash /\ entity.cipher = row.cipher
  /\ entity.label = row.label /\ entity.rights = row.rights /\ entity.enabled = row.enabled

\* A soft delete.
LEMMA DeletedFields ==
  ASSUME NEW row \in Row
  PROVE  LET entity == Deleted(row) IN
         /\ Kept(row, entity) /\ SameHealth(row, entity) /\ SameView(row, entity)
         /\ ~Live(entity)
BY DeletedOK DEF Deleted, Row, SameView, Live

\* A test that succeeds.
LEMMA ConnectedFields ==
  ASSUME NEW row \in Row
  PROVE  LET entity == Connected(row) IN
         /\ entity \in Row /\ Kept(row, entity) /\ SameView(row, entity)
         /\ entity.deletedAt = row.deletedAt
         /\ entity.conn = "connected" /\ entity.fails = 0
<1>1. row \in Entity BY RowIsEntity
<1>2. [row EXCEPT !.conn = "connected"] \in Row BY SetColumn, Zenon
<1>3. Connected(row) \in Row BY <1>2, SetColumn, Zenon DEF Connected
<1> QED BY <1>1, <1>3, ConnectedOK DEF Connected, Row, SameView

\* A test that fails.
LEMMA FailedFields ==
  ASSUME NEW row \in Row
  PROVE  LET entity == Failed(row) IN
         /\ entity \in Row /\ Kept(row, entity) /\ SameView(row, entity)
         /\ entity.deletedAt = row.deletedAt
         /\ entity.conn = "error" /\ entity.fails = row.fails + 1
<1>1. row \in Entity BY RowIsEntity
<1>2. [row EXCEPT !.conn = "error"] \in Row BY SetColumn, Zenon
<1>3. [row EXCEPT !.conn = "error"].fails = row.fails /\ row.fails + 1 \in Nat BY DEF Row
<1>4. Failed(row) \in Row BY <1>2, <1>3, SetColumn, Zenon DEF Failed
<1> QED BY <1>1, <1>4, FailedOK DEF Failed, Row, SameView

\* A test that fails, with or without a report of success that was lost.
LEMMA HasFailedFields ==
  ASSUME NEW row \in Row, NEW entity, HasFailed(row, entity)
  PROVE  /\ entity \in Row /\ Kept(row, entity) /\ SameView(row, entity)
         /\ entity.deletedAt = row.deletedAt
         /\ entity.conn = "error" /\ entity.fails \in Nat /\ entity.fails > 0
<1>1. ASSUME NEW start \in Row, Kept(row, start), SameView(row, start),
             start.deletedAt = row.deletedAt, entity = Failed(start)
      PROVE  /\ entity \in Row /\ Kept(row, entity) /\ SameView(row, entity)
             /\ entity.deletedAt = row.deletedAt
             /\ entity.conn = "error" /\ entity.fails \in Nat /\ entity.fails > 0
  <2>1. start.fails \in Nat BY DEF Row
  <2>2. entity.fails = start.fails + 1 BY <1>1, FailedFields
  <2>3. entity.fails \in Nat /\ entity.fails > 0 BY <2>1, <2>2
  <2> QED BY <1>1, <2>3, FailedFields DEF Kept, SameView
<1>2. CASE entity = Failed(row) BY <1>1, <1>2 DEF Kept, SameView
<1>3. CASE entity = Failed(Connected(row))
  <2>1. PICK start \in Row : start = Connected(row) BY ConnectedFields
  <2>2. Kept(row, start) /\ SameView(row, start) /\ start.deletedAt = row.deletedAt
    BY <2>1, ConnectedFields
  <2> QED BY <1>1, <1>3, <2>1, <2>2
<1> QED BY <1>2, <1>3 DEF HasFailed

\* What any of them makes of a sound row is a sound row in the same slot.  Only the
\* restore path makes a live row of a deleted one; it changes no live row.
LEMMA LeftOK ==
  ASSUME NEW row \in Row, NEW r, NEW result, NEW stored, RowOK(row),
         result = "updated" /\ r \in UpdateRequests => r.body \in UpdateBodies,
         Leaves(row, r, result, stored)
  PROVE  /\ stored \in Row /\ Kept(row, stored) /\ RowOK(stored)
         /\ result = "restored" => NoLive(r) /\ SameSlot(row, r)
         /\ result # "restored" => Live(row)
<1>1. CASE result = "restored"
  <2>1. MayRestore(row, r) /\ stored = Filled(row, Restored(row, r))
    BY <1>1 DEF Leaves, Changes
  <2> QED BY <1>1, <2>1, RestoredFields DEF RowOK, SameHealth, MayRestore
<1>2. CASE result = "updated"
  <2>1. stored = Updated(row, r.body) /\ r.body \in UpdateBodies /\ Live(row)
    BY <1>2 DEF Leaves, Changes
  <2> QED BY <1>2, <2>1, UpdatedOK, UpdatedFields DEF RowOK, SameHealth
<1>3. CASE result = "deleted"
  <2>1. stored = Deleted(row) /\ Live(row) BY <1>3 DEF Leaves, Changes
  <2> QED BY <1>3, <2>1, DeletedOK, DeletedFields DEF RowOK, SameHealth, SameView
<1>4. CASE result = "connected"
  <2>1. stored = Connected(row) /\ Live(row) BY <1>4 DEF Leaves, Changes
  <2> QED BY <1>4, <2>1, ConnectedFields DEF RowOK, SameView
<1>5. CASE result = "failed"
  <2>1. HasFailed(row, stored) /\ Live(row) BY <1>5 DEF Leaves, Changes
  <2> QED BY <1>5, <2>1, HasFailedFields DEF RowOK, SameView
<1> QED BY <1>1, <1>2, <1>3, <1>4, <1>5 DEF Leaves, Changes

-----------------------------------------------------------------------------
(* Steps of the table *)

\* Leaving the rows alone.
LEMMA KeptSound ==
  ASSUME SoundTable, accounts' = accounts
  PROVE  SoundTable'
BY DEF SoundTable, RowOK, OneLiveRowPerSlot, IndexHolds, IndexKey, Live

\* Inserting an account where the slot has no live one and the index lets it.
LEMMA AppendSound ==
  ASSUME Table, SoundTable, NEW r \in CreateRequest, NoLive(r), Insertable(r),
         accounts' = Append(accounts, NewAccount(r))
  PROVE  SoundTable'
<1> DEFINE n == Len(accounts)
<1>1. PICK row \in Row : row = NewAccount(r) BY NewOK
<1>2. /\ RowOK(row) /\ row.user = r.user /\ row.type = Normalize(r.body.type)
      /\ row.env = EnvOf(r.body)
  BY <1>1 DEF NewAccount, Seal, RowOK
<1>3. n \in Nat /\ accounts' \in Seq(Row) /\ Len(accounts') = n + 1 /\ DOMAIN accounts = 1..n
  BY <1>1 DEF Table
<1>4. \A id \in 1..n : accounts'[id] = accounts[id] BY <1>3 DEF Table
<1>5. accounts'[n + 1] = row BY <1>1, <1>3 DEF Table
<1>6. DOMAIN accounts' = 1..n \cup {n + 1} /\ (n + 1) \notin 1..n BY <1>3
<1>7. \A id \in DOMAIN accounts' : RowOK(accounts'[id])
  BY <1>2, <1>3, <1>4, <1>5, <1>6 DEF SoundTable
<1>8. OneLiveRowPerSlot'
  <2>1. \A id \in 1..n : Live(accounts[id]) =>
          ~(/\ accounts[id].user = row.user /\ accounts[id].type = row.type
            /\ accounts[id].env = row.env)
    BY <1>2, <1>3 DEF NoLive, SameSlot, Selects
  <2> QED BY <1>3, <1>4, <1>5, <1>6, <2>1 DEF SoundTable, OneLiveRowPerSlot, Live
<1>9. IndexHolds'
  <2>1. \A id \in 1..n : IndexKey(accounts[id]) # IndexKey(row)
    BY <1>1, <1>3 DEF Clashes, Insertable
  <2>2. \A i, j \in DOMAIN accounts' : IndexKey(accounts'[i]) = IndexKey(accounts'[j]) => i = j
    BY <1>3, <1>4, <1>5, <1>6, <2>1 DEF SoundTable, IndexHolds
  <2> QED BY <2>2 DEF IndexHolds, IndexKey
<1> QED BY <1>7, <1>8, <1>9 DEF SoundTable, RowOK

\* Storing what an operation makes of a row, if the index lets it.
LEMMA StoreSound ==
  ASSUME Table, SoundTable, NEW id \in 1..Len(accounts), NEW entity \in Row,
         NEW r, NEW result, Leaves(accounts[id], r, result, entity),
         result = "updated" /\ r \in UpdateRequests => r.body \in UpdateBodies,
         ~Clashes(entity, id), accounts' = [accounts EXCEPT ![id] = entity]
  PROVE  SoundTable'
<1> DEFINE n == Len(accounts)
<1>1. PICK row \in Row : row = accounts[id] BY DEF Table
<1>2. n \in Nat /\ DOMAIN accounts = 1..n /\ DOMAIN accounts' = 1..n BY DEF Table
<1>3. \A i \in 1..n : accounts'[i] = IF i = id THEN entity ELSE accounts[i]
  BY DEF Table
<1>4. /\ Kept(row, entity) /\ RowOK(entity)
      /\ result = "restored" => NoLive(r) /\ SameSlot(row, r)
      /\ result # "restored" => Live(row)
  BY <1>1, <1>2, LeftOK DEF SoundTable
<1>5. \A i \in DOMAIN accounts' : RowOK(accounts'[i])
  BY <1>2, <1>3, <1>4 DEF SoundTable
<1>6. OneLiveRowPerSlot'
  <2>1. ASSUME NEW i \in 1..n, i # id, Live(accounts[i]),
               accounts[i].user = entity.user, accounts[i].type = entity.type,
               accounts[i].env = entity.env
        PROVE  FALSE
    <3>1. CASE result = "restored"
      <4>1. SameSlot(accounts[i], r) BY <1>4, <2>1, <3>1 DEF SameSlot, Kept
      <4> QED BY <1>2, <1>4, <2>1, <3>1, <4>1 DEF NoLive
    <3>2. CASE result # "restored"
      BY <1>1, <1>2, <1>4, <2>1, <3>2 DEF SoundTable, OneLiveRowPerSlot, Kept
    <3> QED BY <3>1, <3>2
  <2> QED BY <1>2, <1>3, <2>1 DEF SoundTable, OneLiveRowPerSlot, Live
<1>7. IndexHolds'
  <2>1. \A i \in 1..n : i # id => IndexKey(accounts[i]) # IndexKey(entity)
    BY <1>2 DEF Clashes
  <2>2. \A i, j \in DOMAIN accounts' : IndexKey(accounts'[i]) = IndexKey(accounts'[j]) => i = j
    BY <1>2, <1>3, <2>1 DEF SoundTable, IndexHolds
  <2> QED BY <2>2 DEF IndexHolds, IndexKey
<1> QED BY <1>5, <1>6, <1>7 DEF SoundTable, RowOK

-----------------------------------------------------------------------------
(* Steps of the one request *)

\* The invariants of CexAccountsProofs, where p holds an entity of a row.
LEMMA AtRow ==
  ASSUME Inv, SeqInv, NEW p \in Handlers, pc[p] \in Holding
  PROVE  \E id \in 1..Len(accounts), row \in Row, entity \in Entity :
           /\ id = target[p] /\ row = accounts[id] /\ entity = held[p]
           /\ RowOK(row) /\ DOMAIN accounts = 1..Len(accounts)
           /\ pc[p] \in {"load", "write"} => Derives(row, req[p], outcome[p], entity)
<1>1. Holds(p) BY DEF Inv, HandlerInv
<1>2. PICK id \in 1..Len(accounts) : id = target[p] BY <1>1 DEF Holds
<1>3. PICK row \in Row : row = accounts[id] BY <1>2 DEF Inv, Table
<1>4. PICK entity \in Entity : entity = held[p] BY <1>1 DEF Holds
<1>5. DOMAIN accounts = 1..Len(accounts) BY DEF Inv, Table
<1>6. RowOK(row) BY <1>3, <1>5 DEF SeqInv, SoundTable
<1>7. pc[p] \in {"load", "write"} => Derives(row, req[p], outcome[p], entity)
  BY <1>2, <1>3, <1>4 DEF SeqInv, Serving
<1> QED BY <1>2, <1>3, <1>4, <1>5, <1>6, <1>7

\* The body of an update is one that may be sent.
LEMMA Bodies ==
  \A r \in UpdateRequests : r.op = "update" /\ r.user \in Users /\ r.body \in UpdateBodies
BY DEF UpdateRequests

\* When there is one request, what p does is all there is to check.
LEMMA OnlyOne ==
  ASSUME OneAtATime, NEW p \in Handlers, Serving(p)', SoundTable'
  PROVE  SeqInv'
<1>1. \A q \in Handlers : q = p BY DEF OneAtATime
<1> QED BY <1>1 DEF SeqInv

\* An answered request has nothing more to do.
LEMMA AnsweredServing ==
  ASSUME Inv, NEW p \in Handlers, NEW result, Answer(p, result)
  PROVE  Serving(p)'
BY DEF Answer, Inv, Domains, Serving

\* save() is called with what the request makes of the row.
LEMMA SaveServing ==
  ASSUME Inv, NEW p \in Handlers, NEW id \in 1..Len(accounts), NEW row \in Row, NEW entity,
         NEW result, row = accounts'[id], Save(p, id, entity, result),
         Derives(row, req[p], result, entity)'
  PROVE  Serving(p)'
<1>1. /\ pc'[p] = "load" /\ target'[p] = id /\ held'[p] = entity /\ outcome'[p] = result
      /\ req' = req
  BY DEF Save, Inv, Domains
<1>2. accounts'[target'[p]] = row BY <1>1
<1> QED BY <1>1, <1>2 DEF Serving

\* The statements of createCexAccount.
LEMMA CreateServing ==
  ASSUME Inv, SeqInv, NEW p \in Handlers, FindLive(p) \/ FindDeleted(p) \/ Insert(p)
  PROVE  SoundTable' /\ Serving(p)'
<1>1. req[p] \in CreateRequest /\ Table /\ SoundTable
  BY DEF FindLive, FindDeleted, Insert, Inv, HandlerInv, Creating, SeqInv
<1>2. CASE FindLive(p)
  <2>1. accounts' = accounts BY <1>2 DEF FindLive, db
  <2>2. SoundTable' BY <1>1, <2>1, KeptSound
  <2>3. ASSUME Answer(p, "conflict") PROVE Serving(p)' BY <2>3, AnsweredServing
  <2>4. ASSUME ~\E id \in DOMAIN accounts : Live(accounts[id]) /\ SameSlot(accounts[id], req[p]),
               pc' = [pc EXCEPT ![p] = "findDeleted"], req' = req
        PROVE  Serving(p)'
    <3>1. NoLive(req[p])' BY <2>1, <2>4 DEF NoLive, SameSlot, Live
    <3>2. pc'[p] = "findDeleted" BY <2>4 DEF Inv, Domains
    <3> QED BY <3>1, <3>2 DEF Serving
  <2> QED BY <1>2, <2>2, <2>3, <2>4 DEF FindLive
<1>3. CASE FindDeleted(p)
  <2>1. accounts' = accounts BY <1>3 DEF FindDeleted, db
  <2>2. SoundTable' BY <1>1, <2>1, KeptSound
  <2>3. NoLive(req[p]) BY <1>3 DEF FindDeleted, SeqInv, Serving
  <2>4. ASSUME NEW id \in DeletedInSlot(req[p]),
               Save(p, id, Restored(accounts[id], req[p]), "restored")
        PROVE  Serving(p)'
    <3>1. /\ id \in 1..Len(accounts) /\ ~Live(accounts[id]) /\ SameSlot(accounts[id], req[p])
          /\ accounts[id] \in Row
      BY <2>4 DEF DeletedInSlot, Inv, Table
    <3>2. PICK row \in Row : row = accounts[id] BY <3>1
    <3>3. PICK r \in CreateRequest : r = req[p] BY <1>1
    <3>4. req' = req BY <2>4 DEF Save
    <3>5. Save(p, id, Restored(row, r), "restored") BY <2>4, <3>2, <3>3
    <3>6. Derives(row, r, "restored", Restored(row, r))'
      BY <2>1, <2>3, <3>1, <3>2, <3>3 DEF Derives, MayRestore, NoLive, SameSlot, Live
    <3>7. Derives(row, req[p], "restored", Restored(row, r))' BY <3>3, <3>4, <3>6
    <3> QED BY <2>1, <3>1, <3>2, <3>5, <3>7, SaveServing
  <2>5. ASSUME DeletedInSlot(req[p]) = {}, pc' = [pc EXCEPT ![p] = "insert"], req' = req
        PROVE  Serving(p)'
    <3>1. NoLive(req[p])' BY <2>1, <2>3, <2>5 DEF NoLive, SameSlot, Live
    <3>2. ~\E id \in DOMAIN accounts : SameSlot(accounts[id], req[p])
      BY <2>3, <2>5 DEF DeletedInSlot, NoLive
    <3>3. ~\E id \in DOMAIN accounts' : SameSlot(accounts'[id], req'[p])
      BY <2>1, <2>5, <3>2
    <3>4. pc'[p] = "insert" BY <2>5 DEF Inv, Domains
    <3> QED BY <3>1, <3>3, <3>4 DEF Serving, SameSlot
  <2> QED BY <1>3, <2>2, <2>4, <2>5 DEF FindDeleted
<1>4. CASE Insert(p)
  <2>1. Serving(p)' BY <1>4, AnsweredServing DEF Insert
  <2>2. NoLive(req[p]) BY <1>4 DEF Insert, SeqInv, Serving
  <2>3. SoundTable' BY <1>1, <1>4, <2>2, KeptSound, AppendSound DEF Insert
  <2> QED BY <2>1, <2>3
<1> QED BY <1>2, <1>3, <1>4

\* The lookup of update, delete and test.
LEMMA FindServing ==
  ASSUME Inv, SeqInv, NEW p \in Handlers, Find(p)
  PROVE  SoundTable' /\ Serving(p)'
<1>1. accounts' = accounts BY DEF Find, db
<1>2. SoundTable' BY <1>1, KeptSound DEF SeqInv
<1>3. req[p] \in UpdateRequests \cup IdRequests
  BY DEF Find, Inv, HandlerInv
<1>4. ASSUME Answer(p, "notFound") PROVE Serving(p)' BY <1>4, AnsweredServing
<1>5. ASSUME Found(req[p])
      PROVE  \E id \in 1..Len(accounts), row \in Row :
               id = req[p].id /\ row = accounts[id] /\ Live(row)
  <2>1. req[p].id \in 1..Len(accounts) /\ accounts[req[p].id] \in Row /\ Live(accounts[req[p].id])
    BY <1>5 DEF Found, Inv, Table
  <2> QED BY <2>1
<1>6. ASSUME Found(req[p]), req[p].op = "update",
             Save(p, req[p].id, Updated(accounts[req[p].id], req[p].body), "updated")
      PROVE  Serving(p)'
  <2>1. PICK id \in 1..Len(accounts), row \in Row :
          id = req[p].id /\ row = accounts[id] /\ Live(row)
    BY <1>5, <1>6
  <2>2. PICK r \in UpdateRequests : r = req[p] BY <1>3, <1>6 DEF IdRequests
  <2>3. Save(p, id, Updated(row, r.body), "updated") BY <1>6, <2>1, <2>2
  <2>4. req' = req BY <2>3 DEF Save
  <2>5. Derives(row, r, "updated", Updated(row, r.body))'
    BY <2>1, <2>2 DEF Derives, Changes, Live
  <2>6. Derives(row, req[p], "updated", Updated(row, r.body))' BY <2>2, <2>4, <2>5
  <2> QED BY <1>1, <2>1, <2>3, <2>6, SaveServing
<1>7. ASSUME Found(req[p]), Save(p, req[p].id, Deleted(accounts[req[p].id]), "deleted")
      PROVE  Serving(p)'
  <2>1. PICK id \in 1..Len(accounts), row \in Row :
          id = req[p].id /\ row = accounts[id] /\ Live(row)
    BY <1>5, <1>7
  <2>2. Save(p, id, Deleted(row), "deleted") BY <1>7, <2>1
  <2>3. Derives(row, req[p], "deleted", Deleted(row))' BY <2>1 DEF Derives, Changes, Live
  <2> QED BY <1>1, <2>1, <2>2, <2>3, SaveServing
<1>8. ASSUME Found(req[p]), pc' = [pc EXCEPT ![p] = "probe"],
             target' = [target EXCEPT ![p] = req[p].id],
             held' = [held EXCEPT ![p] = accounts[req[p].id]]
      PROVE  Serving(p)'
  <2>1. PICK id \in 1..Len(accounts), row \in Row :
          id = req[p].id /\ row = accounts[id] /\ Live(row)
    BY <1>5, <1>8
  <2>2. pc'[p] = "probe" /\ target'[p] = id /\ held'[p] = row
    BY <1>8, <2>1 DEF Inv, Domains
  <2> QED BY <1>1, <2>1, <2>2 DEF Serving, Live
<1>9. Serving(p)' BY <1>4, <1>6, <1>7, <1>8 DEF Find
<1> QED BY <1>2, <1>9

\* The test ends, and save() is called; or it is tried again.
LEMMA ProbeServing ==
  ASSUME Inv, SeqInv, NEW p \in Handlers,
         ProbeSucceeds(p) \/ ProbeSkipped(p) \/ ProbeFails(p) \/ ProbeImpossible(p)
  PROVE  SoundTable' /\ Serving(p)'
<1>1. accounts' = accounts /\ pc[p] = "probe"
  BY DEF ProbeSucceeds, ProbeSkipped, ProbeFails, ProbeImpossible, db
<1>2. SoundTable' BY <1>1, KeptSound DEF SeqInv
<1>3. PICK id \in 1..Len(accounts), row \in Row, entity \in Entity :
        id = target[p] /\ row = accounts[id] /\ entity = held[p]
  BY <1>1, AtRow DEF Holding
<1>4. entity = row /\ Live(row) BY <1>1, <1>3 DEF SeqInv, Serving
<1>5. ASSUME Save(p, target[p], Connected(held[p]), "connected") PROVE Serving(p)'
  <2>1. Save(p, id, Connected(row), "connected") BY <1>3, <1>4, <1>5
  <2>2. Derives(row, req[p], "connected", Connected(row))' BY <1>4 DEF Derives, Changes, Live
  <2> QED BY <1>1, <1>3, <2>1, <2>2, SaveServing
<1>6. ASSUME Catch(p) PROVE Serving(p)'
  <2>1. Save(p, id, Failed(row), "failed") BY <1>3, <1>4, <1>6 DEF Catch
  <2>2. Derives(row, req[p], "failed", Failed(row))'
    BY <1>4 DEF Derives, Changes, HasFailed, Live
  <2> QED BY <1>1, <1>3, <2>1, <2>2, SaveServing
<1>7. ASSUME UNCHANGED <<pc, req, target, held, dirty, outcome>> PROVE Serving(p)'
  BY <1>1, <1>3, <1>4, <1>7 DEF Serving, Live
<1>8. Serving(p)'
  BY <1>5, <1>6, <1>7 DEF ProbeSucceeds, ProbeSkipped, ProbeFails, ProbeImpossible
<1> QED BY <1>2, <1>8

\* Before Write, the row is as it was when Load compared it: Write stores the entity, but
\* for what it leaves undefined.
LEMMA WriteStores ==
  ASSUME Inv, SeqInv, NEW p \in Handlers, pc[p] = "write"
  PROVE  \E id \in 1..Len(accounts), row \in Row, stored \in Row :
           /\ id = target[p] /\ row = accounts[id] /\ Stored(p) = stored
           /\ DOMAIN accounts = 1..Len(accounts)
           /\ RowOK(row) /\ Kept(row, stored) /\ Leaves(row, req[p], outcome[p], stored)
           /\ outcome[p] # "restored" => held[p] = stored
<1>1. PICK id \in 1..Len(accounts), row \in Row, entity \in Entity :
        /\ id = target[p] /\ row = accounts[id] /\ entity = held[p]
        /\ RowOK(row) /\ DOMAIN accounts = 1..Len(accounts)
        /\ Derives(row, req[p], outcome[p], entity)
  BY AtRow DEF Holding
<1>2. dirty[p] = Differing(entity, row) BY <1>1 DEF SeqInv, Serving
<1>3. Stored(p) = Merge(row, entity, Differing(entity, row)) BY <1>1, <1>2 DEF Stored
<1>4. CASE outcome[p] = "restored"
  <2>1. MayRestore(row, req[p]) /\ entity = Restored(row, req[p])
    BY <1>1, <1>4 DEF Derives, Changes
  <2>2. Kept(row, entity) BY <2>1, RestoredOK DEF MayRestore
  <2>3. Stored(p) = Filled(row, Restored(row, req[p])) BY <1>3, <2>1, <2>2, RowReplaced
  <2>4. Leaves(row, req[p], outcome[p], Stored(p)) BY <1>4, <2>1, <2>3 DEF Leaves
  <2> QED BY <1>1, <1>4, <2>4, LeftOK, Bodies
<1>5. CASE outcome[p] # "restored"
  <2>1. Changes(row, req[p], outcome[p], entity) BY <1>1, <1>5 DEF Derives
  <2>2. Leaves(row, req[p], outcome[p], entity) BY <2>1 DEF Leaves
  <2>3. entity \in Row /\ Kept(row, entity) BY <1>1, <2>2, LeftOK, Bodies
  <2>4. Stored(p) = entity BY <1>3, <2>3, RowReplaced, FilledRow
  <2> QED BY <1>1, <2>2, <2>3, <2>4
<1> QED BY <1>4, <1>5

\* Only the restore path can run into the index: the key of no other row changes.
LEMMA NoClash ==
  ASSUME Inv, SeqInv, NEW p \in Handlers, pc[p] = "write", outcome[p] # "restored"
  PROVE  ~Clashes(Stored(p), target[p])
<1>1. PICK id \in 1..Len(accounts), row \in Row, entity \in Row :
        /\ id = target[p] /\ row = accounts[id] /\ Stored(p) = entity
        /\ DOMAIN accounts = 1..Len(accounts)
        /\ Kept(row, entity) /\ Changes(row, req[p], outcome[p], entity)
  BY WriteStores DEF Leaves
<1>2. entity.hash = row.hash
  <2>1. CASE outcome[p] = "updated"
    <3>1. PICK body \in UpdateBodies : body = req[p].body BY <1>1, <2>1, Bodies DEF Changes
    <3> QED BY <1>1, <2>1, <3>1, UpdatedFields DEF Changes
  <2>2. CASE outcome[p] = "deleted" BY <1>1, <2>2, DeletedFields DEF Changes, SameView
  <2>3. CASE outcome[p] = "connected" BY <1>1, <2>3, ConnectedFields DEF Changes, SameView
  <2>4. CASE outcome[p] = "failed" BY <1>1, <2>4, HasFailedFields DEF Changes, SameView
  <2> QED BY <1>1, <2>1, <2>2, <2>3, <2>4 DEF Changes
<1>3. IndexKey(entity) = IndexKey(row) BY <1>1, <1>2 DEF Kept, IndexKey
<1> QED BY <1>1, <1>3 DEF Clashes, SeqInv, SoundTable, IndexHolds

\* The first statement of save().
LEMMA LoadServing ==
  ASSUME Inv, SeqInv, NEW p \in Handlers, Load(p)
  PROVE  SoundTable' /\ Serving(p)'
<1>1. accounts' = accounts /\ pc[p] = "load" /\ faults' = faults BY DEF Load, db, counters
<1>2. SoundTable' BY <1>1, KeptSound DEF SeqInv
<1>3. PICK id \in 1..Len(accounts), row \in Row, entity \in Entity :
        /\ id = target[p] /\ row = accounts[id] /\ entity = held[p]
        /\ Derives(row, req[p], outcome[p], entity)
  BY <1>1, AtRow DEF Holding
<1>4. PICK r, result : r = req[p] /\ result = outcome[p] OBVIOUS
<1>5. Derives(row, r, result, entity)'
  BY <1>1, <1>3, <1>4 DEF Derives, MayRestore, Changes, HasFailed, NoLive, SameSlot, Live
<1>6. /\ target'[p] = id /\ held'[p] = entity /\ req'[p] = r /\ outcome'[p] = result
      /\ pc'[p] = "write" /\ dirty'[p] = Differing(entity, row)
  BY <1>3, <1>4 DEF Load, Inv, Domains, Differing
<1> QED BY <1>1, <1>2, <1>3, <1>5, <1>6 DEF Serving

\* A save() that throws in the success path of a test, after a fault: the entity goes
\* to the catch block with its count cleared, whether or not it was stored.
LEMMA ThrowServing ==
  ASSUME Inv, SeqInv, NEW p \in Handlers, pc[p] \in {"load", "write"}, SaveThrows(p),
         faults' = faults + 1,
         \/ accounts' = accounts
         \/ pc[p] = "write" /\ accounts' = [accounts EXCEPT ![target[p]] = Stored(p)]
  PROVE  Serving(p)'
<1>1. CASE outcome[p] # "connected" BY <1>1, AnsweredServing DEF SaveThrows
<1>2. CASE outcome[p] = "connected"
  <2>1. PICK id \in 1..Len(accounts), row \in Row, entity \in Entity :
          /\ id = target[p] /\ row = accounts[id] /\ entity = held[p]
          /\ RowOK(row) /\ DOMAIN accounts = 1..Len(accounts)
          /\ Derives(row, req[p], outcome[p], entity)
    BY AtRow DEF Holding
  <2>2. entity = Connected(row) /\ Live(row) BY <1>2, <2>1 DEF Derives, Changes
  <2>3. Save(p, id, Failed(entity), "failed") BY <1>2, <2>1 DEF SaveThrows, Catch
  <2>4. faults' > 0 BY DEF Inv, Counters
  <2>5. CASE accounts' = accounts
    <3>1. Derives(row, req[p], "failed", Failed(entity))'
      BY <2>2, <2>4 DEF Derives, Changes, HasFailed, Live
    <3> QED BY <2>1, <2>3, <2>5, <3>1, SaveServing
  <2>6. CASE pc[p] = "write" /\ accounts' = [accounts EXCEPT ![target[p]] = Stored(p)]
    <3>1. Stored(p) = entity /\ entity \in Row BY <1>2, <2>1, <2>6, WriteStores
    <3>2. accounts'[id] = entity BY <2>1, <2>6, <3>1
    <3>3. Live(entity) BY <2>2, ConnectedFields DEF Live
    <3>4. Derives(entity, req[p], "failed", Failed(entity))'
      BY <3>3 DEF Derives, Changes, HasFailed, Live
    <3> QED BY <2>1, <2>3, <3>1, <3>2, <3>4, SaveServing
  <2> QED BY <2>5, <2>6
<1> QED BY <1>1, <1>2

\* Storing the entity of p.
LEMMA WriteSound ==
  ASSUME Inv, SeqInv, NEW p \in Handlers, pc[p] = "write", ~Clashes(Stored(p), target[p]),
         accounts' = [accounts EXCEPT ![target[p]] = Stored(p)]
  PROVE  SoundTable'
<1>1. PICK id \in 1..Len(accounts), row \in Row, stored \in Row :
        /\ id = target[p] /\ row = accounts[id] /\ Stored(p) = stored
        /\ Leaves(row, req[p], outcome[p], stored)
  BY WriteStores
<1>2. Table /\ SoundTable BY DEF Inv, SeqInv
<1>3. Leaves(accounts[id], req[p], outcome[p], stored) BY <1>1
<1>4. ~Clashes(stored, id) /\ accounts' = [accounts EXCEPT ![id] = stored] BY <1>1
<1> QED BY <1>2, <1>3, <1>4, StoreSound, Bodies

\* The second statement of save().
LEMMA WriteServing ==
  ASSUME Inv, SeqInv, NEW p \in Handlers, Write(p)
  PROVE  SoundTable' /\ Serving(p)'
<1>1. pc[p] = "write" BY DEF Write
<1>2. CASE Clashes(Stored(p), target[p])
  <2>1. outcome[p] = "restored" BY <1>1, <1>2, NoClash
  <2>2. SoundTable' BY <1>2, KeptSound DEF Write, SeqInv
  <2> QED BY <1>2, <2>1, <2>2, AnsweredServing DEF Write, SaveThrows
<1>3. CASE ~Clashes(Stored(p), target[p])
  <2>1. accounts' = [accounts EXCEPT ![target[p]] = Stored(p)] /\ Answer(p, outcome[p])
    BY <1>3 DEF Write
  <2> QED BY <1>1, <1>3, <2>1, WriteSound, AnsweredServing
<1> QED BY <1>2, <1>3

\* Faults of the database.
LEMMA FaultServing ==
  ASSUME Inv, SeqInv, NEW p \in Handlers, DbFault(p)
  PROVE  SoundTable' /\ Serving(p)'
<1>1. faults' = faults + 1 BY DEF DbFault
<1>2. SoundTable /\ Table BY DEF SeqInv, Inv
<1>3. ASSUME Answer(p, "dbError"), accounts' = accounts PROVE SoundTable' /\ Serving(p)'
  BY <1>2, <1>3, KeptSound, AnsweredServing
<1>4. ASSUME pc[p] \in {"load", "write"}, SaveThrows(p), accounts' = accounts
      PROVE  SoundTable' /\ Serving(p)'
  BY <1>1, <1>2, <1>4, KeptSound, ThrowServing
<1>5. ASSUME pc[p] = "write", ~Clashes(Stored(p), target[p]), SaveThrows(p),
             accounts' = [accounts EXCEPT ![target[p]] = Stored(p)]
      PROVE  SoundTable' /\ Serving(p)'
  BY <1>1, <1>5, WriteSound, ThrowServing
<1>6. ASSUME pc[p] = "insert", Insertable(req[p]), Answer(p, "dbError"),
             accounts' = Append(accounts, NewAccount(req[p]))
      PROVE  SoundTable' /\ Serving(p)'
  <2>1. req[p] \in CreateRequest /\ NoLive(req[p])
    BY <1>6 DEF Inv, HandlerInv, Creating, SeqInv, Serving
  <2> QED BY <1>2, <1>6, <2>1, AppendSound, AnsweredServing
<1> QED BY <1>3, <1>4, <1>5, <1>6 DEF DbFault

-----------------------------------------------------------------------------
(* The invariant holds in every state *)

\* It holds at first.
LEMMA SeqInit == Init => SeqInv
BY DEF Init, SeqInv, SoundTable, OneLiveRowPerSlot, IndexHolds, Serving

\* Every step keeps it.
LEMMA SeqNext ==
  ASSUME OneAtATime
  PROVE  Inv /\ SeqInv /\ [Next]_vars => SeqInv'
<1> SUFFICES ASSUME Inv, SeqInv, [Next]_vars PROVE SeqInv' OBVIOUS
<1>1. ASSUME NEW p \in Handlers, Proceed(p) \/ DbFault(p) PROVE SeqInv'
  BY <1>1, OnlyOne, CreateServing, FindServing, ProbeServing, LoadServing, WriteServing,
     FaultServing
  DEF Proceed
<1>2. ASSUME NEW p \in Handlers, NEW r, NEW place \in {"findLive", "find"}, Receive(p, r, place)
      PROVE  SeqInv'
  <2>1. SoundTable' BY <1>2, KeptSound DEF Receive, db, SeqInv
  <2>2. Serving(p)' BY <1>2 DEF Receive, Inv, Domains, Serving
  <2> QED BY <2>1, <2>2, OnlyOne
<1>3. ASSUME NEW p \in Handlers,
             ReceiveCreate(p) \/ ReceiveUpdate(p) \/ ReceiveDelete(p) \/ ReceiveTest(p)
      PROVE  SeqInv'
  BY <1>2, <1>3 DEF ReceiveCreate, ReceiveUpdate, ReceiveDelete, ReceiveTest
<1>4. CASE Restart
  <2>1. SoundTable' BY <1>4, KeptSound DEF Restart, db, SeqInv
  <2> QED BY <1>4, <2>1 DEF Restart, SeqInv, Serving
<1>5. CASE UNCHANGED vars
  BY <1>5 DEF vars, SeqInv, SoundTable, RowOK, OneLiveRowPerSlot, IndexHolds, IndexKey, Live,
              Serving, Derives, MayRestore, Changes, HasFailed, NoLive, SameSlot
<1> QED BY <1>1, <1>3, <1>4, <1>5 DEF Next

\* The inductive invariant of one request at a time.
THEOREM SequentialInvariance ==
  ASSUME OneAtATime
  PROVE  Spec => [](Inv /\ SeqInv)
<1>1. Inv /\ SeqInv /\ [Next]_vars => Inv' /\ SeqInv' BY InvNext, SeqNext
<1> QED BY <1>1, InvInit, SeqInit, PTL DEF Spec

-----------------------------------------------------------------------------
(* Theorems: the states *)

\* One request at a time, the hash stored beside a ciphertext is that of its key.
THEOREM HashesMatch ==
  ASSUME OneAtATime
  PROVE  Spec => []HashMatchesCipher
<1>1. SeqInv => HashMatchesCipher BY DEF SeqInv, SoundTable, RowOK, HashMatchesCipher
<1> QED BY <1>1, SequentialInvariance, PTL

\* One request at a time, a stored status is "error" exactly while failures are counted.
THEOREM HealthConsistent ==
  ASSUME OneAtATime
  PROVE  Spec => []HealthMatchesCount
<1>1. SeqInv => HealthMatchesCount BY DEF SeqInv, SoundTable, RowOK, HealthMatchesCount
<1> QED BY <1>1, SequentialInvariance, PTL

\* One request at a time, the two lookups of createCexAccount leave one live account in
\* a slot even under the entity's own unique index, which is not about slots.
THEOREM LiveSlotsUnique ==
  ASSUME OneAtATime
  PROVE  Spec => []OneLiveRowPerSlot
<1>1. SeqInv => OneLiveRowPerSlot BY DEF SeqInv, SoundTable
<1> QED BY <1>1, SequentialInvariance, PTL

-----------------------------------------------------------------------------
(* Theorems: the steps *)

\* A step leaves the table alone, inserts a row, or stores an entity.
LEMMA TableSteps ==
  ASSUME [Next]_vars
  PROVE  \/ accounts' = accounts
         \/ \E p \in Handlers :
              /\ pc[p] = "insert" /\ Insertable(req[p])
              /\ accounts' = Append(accounts, NewAccount(req[p]))
         \/ \E p \in Handlers :
              /\ pc[p] = "write" /\ ~Clashes(Stored(p), target[p])
              /\ accounts' = [accounts EXCEPT ![target[p]] = Stored(p)]
<1>1. ASSUME NEW p \in Handlers, Insert(p) \/ Write(p) \/ DbFault(p)
      PROVE  \/ accounts' = accounts
             \/ /\ pc[p] = "insert" /\ Insertable(req[p])
                /\ accounts' = Append(accounts, NewAccount(req[p]))
             \/ /\ pc[p] = "write" /\ ~Clashes(Stored(p), target[p])
                /\ accounts' = [accounts EXCEPT ![target[p]] = Stored(p)]
  BY <1>1 DEF Insert, Write, DbFault, db
<1> QED
  BY <1>1
  DEF Next, Proceed, vars, db, ReceiveCreate, ReceiveUpdate, ReceiveDelete, ReceiveTest, Receive,
      FindLive, FindDeleted, Find, ProbeSucceeds, ProbeSkipped, ProbeFails, ProbeImpossible, Load,
      Restart

\* A row that changes is the one whose entity is stored.
LEMMA RowSteps ==
  ASSUME Inv, SeqInv, [Next]_vars, NEW id \in DOMAIN accounts
  PROVE  \/ accounts'[id] = accounts[id]
         \/ \E p \in Handlers, row \in Row, entity \in Row :
              /\ Saving(p, id) /\ row = accounts[id] /\ entity = accounts'[id]
              /\ Leaves(row, req[p], outcome[p], entity)
<1>1. DOMAIN accounts = 1..Len(accounts) /\ accounts \in Seq(Row) BY DEF Inv, Table
<1>2. ASSUME NEW row, accounts' = Append(accounts, row) PROVE accounts'[id] = accounts[id]
  BY <1>1, <1>2
<1>3. ASSUME NEW p \in Handlers, pc[p] = "write",
             accounts' = [accounts EXCEPT ![target[p]] = Stored(p)],
             accounts'[id] # accounts[id]
      PROVE  \E row \in Row, entity \in Row :
               /\ Saving(p, id) /\ row = accounts[id] /\ entity = accounts'[id]
               /\ Leaves(row, req[p], outcome[p], entity)
  <2>1. PICK i \in 1..Len(accounts), row \in Row, entity \in Row :
          /\ i = target[p] /\ row = accounts[i] /\ Stored(p) = entity
          /\ Leaves(row, req[p], outcome[p], entity)
    BY <1>3, WriteStores
  <2>2. i = id BY <1>1, <1>3, <2>1
  <2>3. accounts'[id] = entity BY <1>1, <1>3, <2>1, <2>2
  <2> QED BY <1>3, <2>1, <2>2, <2>3 DEF Saving
<1> QED BY <1>2, <1>3, TableSteps

\* One request at a time, nothing but an update that asks for it and the restore path
\* switches a disabled account on again: no entity brings an older switch back.
THEOREM DisabledKept ==
  ASSUME OneAtATime
  PROVE  Spec => DisabledStaysDisabled
<1>1. ASSUME Inv, SeqInv, [Next]_vars, NEW id \in DOMAIN accounts,
             accounts[id].enabled = "no" /\ accounts'[id].enabled = "yes"
      PROVE  \E p \in Handlers :
               /\ Saving(p, id)
               /\ \/ outcome[p] = "restored"
                  \/ outcome[p] = "updated" /\ req[p].body.enabled = "yes"
  <2>1. PICK p \in Handlers, row \in Row, entity \in Row :
          /\ Saving(p, id) /\ row = accounts[id] /\ entity = accounts'[id]
          /\ Leaves(row, req[p], outcome[p], entity)
    BY <1>1, RowSteps
  <2>2. CASE outcome[p] = "updated"
    <3>1. PICK body \in UpdateBodies : body = req[p].body BY <2>1, <2>2, Bodies DEF Leaves, Changes
    <3>2. entity.enabled = Given(body.enabled, row.enabled)
      BY <2>1, <2>2, <3>1, UpdatedFields DEF Leaves, Changes
    <3> QED BY <1>1, <2>1, <2>2, <3>1, <3>2 DEF Given
  <2>3. CASE outcome[p] \in {"deleted", "connected", "failed"}
    BY <1>1, <2>1, <2>3, DeletedFields, ConnectedFields, HasFailedFields
    DEF Leaves, Changes, SameView
  <2> QED BY <2>1, <2>2, <2>3 DEF Leaves, Changes
<1>2. Inv /\ SeqInv /\ [Next]_vars =>
        [\A id \in DOMAIN accounts :
           accounts[id].enabled = "no" /\ accounts'[id].enabled = "yes" =>
             \E p \in Handlers :
               /\ Saving(p, id)
               /\ \/ outcome[p] = "restored"
                  \/ outcome[p] = "updated" /\ req[p].body.enabled = "yes"]_vars
  BY <1>1
<1> QED BY <1>2, SequentialInvariance, PTL DEF Spec, DisabledStaysDisabled

\* One request at a time, with request bodies as they are sent, an update leaves alone
\* what its body leaves out.
THEOREM OmittedKept ==
  ASSUME OneAtATime, TransformsDto = FALSE
  PROVE  Spec => OmittedFieldsKeep
<1>1. ASSUME Inv, SeqInv, [Next]_vars, NEW p \in Handlers,
             pc[p] = "write" /\ pc'[p] = "idle" /\ outcome[p] = "updated"
      PROVE  /\ req[p].body.label = Undefined =>
                  accounts'[target[p]].label = accounts[target[p]].label
             /\ req[p].body.rights = Undefined =>
                  accounts'[target[p]].rights = accounts[target[p]].rights
  <2>1. PICK id \in DOMAIN accounts : id = target[p] BY <1>1, WriteStores
  <2>2. CASE accounts'[id] = accounts[id] BY <2>1, <2>2
  <2>3. CASE accounts'[id] # accounts[id]
    <3>1. PICK q \in Handlers, row \in Row, entity \in Row :
            /\ Saving(q, id) /\ row = accounts[id] /\ entity = accounts'[id]
            /\ Leaves(row, req[q], outcome[q], entity)
      BY <1>1, <2>3, RowSteps
    <3>2. q = p BY DEF OneAtATime
    <3>3. PICK body \in UpdateBodies : body = req[p].body /\ entity = Updated(row, body)
      BY <1>1, <3>1, <3>2, Bodies DEF Leaves, Changes
    <3>4. /\ entity.label = Given(body.label, row.label)
          /\ entity.rights = Given(RightsOf(body), row.rights)
      BY <3>3, UpdatedFields
    <3>5. body.rights = Undefined => RightsOf(body) = Undefined BY DEF RightsOf
    <3> QED BY <2>1, <3>1, <3>3, <3>4, <3>5 DEF Given
  <2> QED BY <2>2, <2>3
<1>2. Inv /\ SeqInv /\ [Next]_vars =>
        [\A p \in Handlers :
           pc[p] = "write" /\ pc'[p] = "idle" /\ outcome[p] = "updated" =>
             /\ req[p].body.label = Undefined =>
                  accounts'[target[p]].label = accounts[target[p]].label
             /\ req[p].body.rights = Undefined =>
                  accounts'[target[p]].rights = accounts[target[p]].rights]_vars
  BY <1>1
<1> QED BY <1>2, SequentialInvariance, PTL DEF Spec, OmittedFieldsKeep

\* One request at a time, and without database faults, a reported failure adds one to the
\* count.  (With one, the report of success that was lost has cleared the count.)
THEOREM FailuresCounted ==
  ASSUME OneAtATime, MaxFaults = 0
  PROVE  Spec => FailuresAreCounted
<1>1. ASSUME Inv, SeqInv, [Next]_vars, NEW p \in Handlers,
             /\ pc[p] = "write" /\ outcome[p] = "failed" /\ outcome'[p] = "failed"
             /\ pc'[p] = "idle"
      PROVE  accounts'[target[p]].fails = accounts[target[p]].fails + 1
  <2>1. PICK id \in 1..Len(accounts), row \in Row, entity \in Row :
          /\ id = target[p] /\ row = accounts[id] /\ Stored(p) = entity
          /\ DOMAIN accounts = 1..Len(accounts)
          /\ Leaves(row, req[p], outcome[p], entity)
    BY <1>1, WriteStores
  <2>2. faults = 0 BY <1>1 DEF Inv, Counters
  <2>3. entity = Failed(row) BY <1>1, <2>1, <2>2 DEF Leaves, Changes, HasFailed
  <2>4. ASSUME NEW q \in Handlers PROVE q = p BY DEF OneAtATime
  <2>5. Write(p)
    <3>1. ~DbFault(p) BY <2>2 DEF DbFault
    <3>2. ~Restart BY <1>1 DEF Restart
    <3>3. ~UNCHANGED vars BY <1>1 DEF vars
    <3> QED
      BY <1>1, <2>4, <3>1, <3>2, <3>3
      DEF Next, Proceed, ReceiveCreate, ReceiveUpdate, ReceiveDelete, ReceiveTest, Receive,
          FindLive, FindDeleted, Insert, Find, ProbeSucceeds, ProbeSkipped, ProbeFails,
          ProbeImpossible, Load
  <2>6. accounts' = [accounts EXCEPT ![target[p]] = Stored(p)]
    BY <1>1, <2>5, NoClash DEF Write
  <2>7. accounts'[id] = Failed(row) BY <2>1, <2>3, <2>6
  <2> QED BY <2>1, <2>7, FailedFields
<1>2. Inv /\ SeqInv /\ [Next]_vars =>
        [\A p \in Handlers :
           pc[p] = "write" /\ outcome[p] = "failed" /\ outcome'[p] = "failed"
             /\ pc'[p] = "idle" =>
               accounts'[target[p]].fails = accounts[target[p]].fails + 1]_vars
  BY <1>1
<1> QED BY <1>2, SequentialInvariance, PTL DEF Spec, FailuresAreCounted

\* One request at a time, createCexAccount succeeds only where the slot is still free of
\* a live account when it does: its lookups are not overtaken.
THEOREM CreationNeedsFreeSlot ==
  ASSUME OneAtATime
  PROVE  Spec => CreateNeedsFreeSlot
<1>1. ASSUME Inv, SeqInv, [Next]_vars, NEW p \in Handlers,
             pc[p] # "idle" /\ outcome'[p] \in {"created", "restored"} /\ pc'[p] = "idle"
      PROVE  NoLive(req[p])
  <2>1. ASSUME NEW q \in Handlers PROVE q = p BY DEF OneAtATime
  <2>2. ASSUME NEW result, Answer(p, result) PROVE outcome'[p] = result
    BY <1>1, <2>2 DEF Answer, Inv, Domains
  <2>3. ~(\E id, entity, result : Save(p, id, entity, result))
    BY <1>1 DEF Save, Inv, Domains
  <2>4. CASE Insert(p) BY <1>1, <2>4 DEF Insert, SeqInv, Serving
  <2>5. CASE Write(p)
    <3>1. pc[p] = "write" BY <2>5 DEF Write
    <3>2. \/ Answer(p, "dbError") \/ Answer(p, outcome[p])
      BY <2>3, <2>5 DEF Write, SaveThrows, Catch
    <3>3. outcome[p] \in {"created", "restored"} BY <1>1, <2>2, <3>2
    <3>4. PICK row, entity : Leaves(row, req[p], outcome[p], entity)
      BY <1>1, <3>1, WriteStores
    <3> QED BY <3>3, <3>4 DEF Leaves, Changes, MayRestore
  <2>6. ~DbFault(p) BY <1>1, <2>2, <2>3 DEF DbFault, SaveThrows, Catch
  <2>7. ~(FindLive(p) \/ FindDeleted(p) \/ Find(p))
    BY <1>1, <2>2, <2>3 DEF FindLive, FindDeleted, Find, Inv, Domains
  <2>8. ~(ProbeSucceeds(p) \/ ProbeSkipped(p) \/ ProbeFails(p) \/ ProbeImpossible(p) \/ Load(p))
    BY <1>1, <2>3
    DEF ProbeSucceeds, ProbeSkipped, ProbeFails, ProbeImpossible, Catch, Load, Inv, Domains
  <2>9. ~(ReceiveCreate(p) \/ ReceiveUpdate(p) \/ ReceiveDelete(p) \/ ReceiveTest(p))
    BY <1>1 DEF ReceiveCreate, ReceiveUpdate, ReceiveDelete, ReceiveTest, Receive
  <2>10. ~Restart /\ ~UNCHANGED vars BY <1>1 DEF Restart, vars
  <2> QED BY <1>1, <2>1, <2>4, <2>5, <2>6, <2>7, <2>8, <2>9, <2>10 DEF Next, Proceed
<1>2. Inv /\ SeqInv /\ [Next]_vars =>
        [\A p \in Handlers :
           pc[p] # "idle" /\ outcome'[p] \in {"created", "restored"} /\ pc'[p] = "idle" =>
             ~\E id \in DOMAIN accounts : Live(accounts[id]) /\ SameSlot(accounts[id], req[p])]_vars
  BY <1>1 DEF NoLive
<1> QED BY <1>2, SequentialInvariance, PTL DEF Spec, CreateNeedsFreeSlot

-----------------------------------------------------------------------------
(* Theorem: the service implements the registry *)

\* Request p is of operation `op`, about the row p works on.
Asks(p, op) ==
  req[p] \in UpdateRequests \cup IdRequests /\ req[p].op = op /\ req[p].id = target[p]

\* What p is about to answer is an answer to what it was asked.
Telling(p) ==
  /\ pc[p] = "probe" => Asks(p, "test")
  /\ pc[p] \in {"load", "write"} =>
       \/ outcome[p] = "restored" /\ req[p] \in CreateRequest
       \/ outcome[p] = "updated" /\ Asks(p, "update")
       \/ outcome[p] = "deleted" /\ Asks(p, "delete")
       \/ outcome[p] \in {"connected", "failed"} /\ Asks(p, "test")

\* An answered request has nothing more to tell.
LEMMA AnswerTells ==
  ASSUME Inv, NEW p \in Handlers, NEW result, Answer(p, result)
  PROVE  Telling(p)'
BY DEF Answer, Inv, Domains, Telling

\* save() is called to answer a request about row `id`.
LEMMA SaveTells ==
  ASSUME Inv, NEW p \in Handlers, NEW id, NEW entity, NEW result, Save(p, id, entity, result),
         \/ result = "restored" /\ req[p] \in CreateRequest
         \/ /\ req[p] \in UpdateRequests \cup IdRequests /\ req[p].id = id
            /\ \/ result = "updated" /\ req[p].op = "update"
               \/ result = "deleted" /\ req[p].op = "delete"
               \/ result \in {"connected", "failed"} /\ req[p].op = "test"
  PROVE  Telling(p)'
<1>1. pc'[p] = "load" /\ target'[p] = id /\ outcome'[p] = result /\ req' = req
  BY DEF Save, Inv, Domains
<1> QED BY <1>1 DEF Telling, Asks

\* A test that ends in the catch block, from its calls or from its save().
LEMMA CatchTells ==
  ASSUME Inv, NEW p \in Handlers, Telling(p), Catch(p),
         pc[p] = "probe" \/ (pc[p] \in {"load", "write"} /\ outcome[p] = "connected")
  PROVE  Telling(p)'
<1>1. Asks(p, "test") BY DEF Telling
<1>2. Save(p, target[p], Failed(held[p]), "failed") BY DEF Catch
<1> QED BY <1>1, <1>2, SaveTells DEF Asks

\* A save() that throws.
LEMMA ThrowTells ==
  ASSUME Inv, NEW p \in Handlers, Telling(p), pc[p] \in {"load", "write"}, SaveThrows(p)
  PROVE  Telling(p)'
BY AnswerTells, CatchTells DEF SaveThrows

\* Any step of p.
LEMMA TellingStep ==
  ASSUME Inv, NEW p \in Handlers, Telling(p), Proceed(p) \/ DbFault(p)
  PROVE  Telling(p)'
<1>1. CASE FindLive(p) \/ Insert(p)
  <2>1. ASSUME pc' = [pc EXCEPT ![p] = "findDeleted"] PROVE Telling(p)'
    BY <2>1 DEF Inv, Domains, Telling
  <2> QED BY <1>1, <2>1, AnswerTells DEF FindLive, Insert
<1>2. CASE FindDeleted(p)
  <2>1. req[p] \in CreateRequest BY <1>2 DEF FindDeleted, Inv, HandlerInv, Creating
  <2>2. ASSUME pc' = [pc EXCEPT ![p] = "insert"] PROVE Telling(p)'
    BY <2>2 DEF Inv, Domains, Telling
  <2>3. ASSUME NEW id, Save(p, id, Restored(accounts[id], req[p]), "restored")
        PROVE  Telling(p)'
    BY <2>1, <2>3, SaveTells
  <2> QED BY <1>2, <2>2, <2>3 DEF FindDeleted
<1>3. CASE Find(p)
  <2>1. req[p] \in UpdateRequests \cup IdRequests BY <1>3 DEF Find, Inv, HandlerInv
  <2>2. ASSUME req[p].op = "test", pc' = [pc EXCEPT ![p] = "probe"], req' = req,
               target' = [target EXCEPT ![p] = req[p].id]
        PROVE  Telling(p)'
    BY <2>1, <2>2 DEF Inv, Domains, Telling, Asks
  <2>3. ASSUME NEW entity, req[p].op = "update", Save(p, req[p].id, entity, "updated")
        PROVE  Telling(p)'
    BY <2>1, <2>3, SaveTells
  <2>4. ASSUME NEW entity, req[p].op = "delete", Save(p, req[p].id, entity, "deleted")
        PROVE  Telling(p)'
    BY <2>1, <2>4, SaveTells
  <2>5. ASSUME Answer(p, "notFound") PROVE Telling(p)' BY <2>5, AnswerTells
  <2> QED BY <1>3, <2>2, <2>3, <2>4, <2>5 DEF Find
<1>4. CASE ProbeSucceeds(p) \/ ProbeSkipped(p)
  <2>1. pc[p] = "probe" /\ Save(p, target[p], Connected(held[p]), "connected")
    BY <1>4 DEF ProbeSucceeds, ProbeSkipped
  <2> QED BY <2>1, SaveTells DEF Telling, Asks
<1>5. CASE ProbeFails(p) \/ ProbeImpossible(p)
  <2>1. ASSUME UNCHANGED <<pc, req, target, outcome>> PROVE Telling(p)'
    BY <2>1 DEF Telling, Asks
  <2> QED BY <1>5, <2>1, CatchTells DEF ProbeFails, ProbeImpossible
<1>6. CASE Load(p) BY <1>6 DEF Load, Inv, Domains, Telling, Asks
<1>7. CASE Write(p) BY <1>7, ThrowTells, AnswerTells DEF Write
<1>8. CASE DbFault(p) BY <1>8, ThrowTells, AnswerTells DEF DbFault
<1> QED BY <1>1, <1>2, <1>3, <1>4, <1>5, <1>6, <1>7, <1>8 DEF Proceed

TellingInv == \A p \in Handlers : Telling(p)

\* Every step keeps it.
LEMMA TellingNext ==
  ASSUME OneAtATime
  PROVE  Inv /\ TellingInv /\ [Next]_vars => TellingInv'
<1> SUFFICES ASSUME Inv, TellingInv, [Next]_vars PROVE TellingInv' OBVIOUS
<1>1. ASSUME NEW p \in Handlers, Telling(p)' PROVE TellingInv'
  BY <1>1 DEF OneAtATime, TellingInv
<1>2. ASSUME NEW p \in Handlers, Proceed(p) \/ DbFault(p) PROVE TellingInv'
  BY <1>1, <1>2, TellingStep DEF TellingInv
<1>3. ASSUME NEW p \in Handlers, NEW r, NEW place \in {"findLive", "find"}, Receive(p, r, place)
      PROVE  TellingInv'
  <2>1. Telling(p)' BY <1>3 DEF Receive, Inv, Domains, Telling
  <2> QED BY <1>1, <2>1
<1>4. ASSUME NEW p \in Handlers,
             ReceiveCreate(p) \/ ReceiveUpdate(p) \/ ReceiveDelete(p) \/ ReceiveTest(p)
      PROVE  TellingInv'
  BY <1>3, <1>4 DEF ReceiveCreate, ReceiveUpdate, ReceiveDelete, ReceiveTest
<1>5. CASE Restart BY <1>5 DEF Restart, TellingInv, Telling
<1>6. CASE UNCHANGED vars BY <1>6 DEF vars, TellingInv, Telling, Asks
<1> QED BY <1>2, <1>4, <1>5, <1>6 DEF Next

\* The table is a sequence of rows, as the book is of what is shown of them.
LEMMA BookRows ==
  ASSUME Table
  PROVE  /\ Len(accounts) \in Nat /\ DOMAIN accounts = 1..Len(accounts)
         /\ DOMAIN Book = 1..Len(accounts)
         /\ \A id \in 1..Len(accounts) : accounts[id] \in Row /\ Book[id] = Shown(accounts[id])
BY DEF Table, Book

\* Steps of the table, seen in the book.
LEMMA BookKept ==
  ASSUME accounts' = accounts
  PROVE  Book' = Book
BY DEF Book, Shown, Live

\* A row appended to the table is an entry appended to the book.
LEMMA BookAppends ==
  ASSUME Table, NEW row, accounts' = Append(accounts, row), row \in Row
  PROVE  Book' = Append(Book, Shown(row))
<1>1. PICK n \in Nat : n = Len(accounts) BY BookRows
<1>2. PICK shown, S : shown = Shown(row) /\ S = {Shown(accounts[id]) : id \in 1..n} \cup {shown}
  OBVIOUS
<1>3. Book \in Seq(S) /\ Len(Book) = n
  <2>1. Book = [id \in 1..n |-> Book[id]] BY <1>1, BookRows DEF Book
  <2>2. \A id \in 1..n : Book[id] \in S BY <1>1, <1>2, BookRows
  <2> HIDE DEF Book
  <2> QED BY <2>1, <2>2, <1>1
<1>4. PICK longer \in Seq(S) :
        /\ longer = Append(Book, shown) /\ Len(longer) = n + 1 /\ longer[n + 1] = shown
        /\ \A id \in 1..n : longer[id] = Book[id]
  <2>1. /\ Append(Book, shown) \in Seq(S) /\ Len(Append(Book, shown)) = n + 1
        /\ Append(Book, shown)[n + 1] = shown
        /\ \A id \in 1..n : Append(Book, shown)[id] = Book[id]
    BY <1>2, <1>3
  <2> QED BY <2>1
<1>5. /\ DOMAIN accounts' = 1..(n + 1) /\ accounts'[n + 1] = row
      /\ \A id \in 1..n : accounts'[id] = accounts[id]
  BY <1>1 DEF Table
<1>6. PICK new : new = accounts' OBVIOUS
<1>7. Book' = [id \in 1..(n + 1) |-> Shown(new[id])] BY <1>5, <1>6 DEF Book, Shown, Live
<1>8. ASSUME NEW id \in 1..(n + 1) PROVE Shown(new[id]) = longer[id]
  <2>1. CASE id \in 1..n BY <1>1, <1>4, <1>5, <1>6, <2>1, BookRows
  <2>2. CASE id = n + 1 BY <1>2, <1>4, <1>5, <1>6, <2>2
  <2> QED BY <1>1, <2>1, <2>2
<1>9. longer = [id \in 1..(n + 1) |-> longer[id]]
  <2>1. longer \in [1..(n + 1) -> S] BY <1>4, LenProperties
  <2> QED BY <2>1
<1>10. Book' = longer BY <1>7, <1>8, <1>9
<1> QED BY <1>2, <1>4, <1>10

\* A row stored over another is its entry of the book, replaced.
LEMMA BookStores ==
  ASSUME Table, NEW id \in 1..Len(accounts), NEW row,
         accounts' = [accounts EXCEPT ![id] = row]
  PROVE  Book' = [Book EXCEPT ![id] = Shown(row)]
<1>1. PICK n \in Nat : n = Len(accounts) BY BookRows
<1>2. PICK new : new = accounts' OBVIOUS
<1>3. /\ DOMAIN new = 1..n
      /\ \A i \in 1..n : new[i] = IF i = id THEN row ELSE accounts[i]
  BY <1>1, <1>2, BookRows
<1>4. Book' = [i \in 1..n |-> Shown(new[i])] BY <1>2, <1>3 DEF Book, Shown, Live
<1>5. Book = [i \in 1..n |-> Shown(accounts[i])] BY <1>1, BookRows DEF Book
<1>6. \A i \in 1..n : Shown(new[i]) = IF i = id THEN Shown(row) ELSE Shown(accounts[i])
  BY <1>3
<1>7. [Book EXCEPT ![id] = Shown(row)] =
        [i \in 1..n |-> IF i = id THEN Shown(row) ELSE Shown(accounts[i])]
  BY <1>1, <1>5
<1> QED BY <1>4, <1>6, <1>7

\* What a request asks for is a request to the registry; the accounts it means there are
\* the rows of its slot, or the row it names.
LEMMA Means ==
  ASSUME Table, NEW r \in Requests
  PROVE  /\ Meaning(r) \in Registry!Requests
         /\ r \in CreateRequest =>
              \A id \in 1..Len(accounts) :
                id \in Registry!Meant(Meaning(r)) <=> SameSlot(accounts[id], r)
         /\ r \in CreateRequest => Registry!Meant(Meaning(r)) \subseteq 1..Len(accounts)
         /\ r \in UpdateRequests \cup IdRequests => (Registry!Named(Meaning(r)) <=> Found(r))
<1>1. CASE r \in CreateRequest
  <2>1. PICK type, env, rights, body, user :
          /\ type = Normalize(r.body.type) /\ env = EnvOf(r.body) /\ rights = RightsOf(r.body)
          /\ body = r.body /\ user = r.user
    OBVIOUS
  <2>2. /\ type \in NormalizedTypes \cup {Undefined} /\ env \in Envs \cup {Undefined}
        /\ rights \in Rights \cup {Undefined} /\ body.key \in Keys
        /\ body.label \in Labels \cup {Undefined} /\ user \in Users
    BY <1>1, <2>1, RequestFields DEF Normalize, NormalizedTypes
  <2>3. Meaning(r) = [op |-> "create", user |-> user, type |-> type, env |-> env,
                      key |-> body.key, label |-> body.label, rights |-> rights]
    <3>1. r.op = "create" BY <1>1 DEF CreateRequest, CreateRequests
    <3> QED BY <2>1, <3>1 DEF Meaning
  <2>4. Meaning(r) \in Registry!Requests BY <2>2, <2>3 DEF Registry!Requests
  <2>5. PICK m : m = Meaning(r) OBVIOUS
  <2>6. m.user = user /\ m.type = type /\ m.env = env BY <2>3, <2>5
  <2>7. ASSUME NEW id \in 1..Len(accounts)
        PROVE  id \in Registry!Meant(m) <=> SameSlot(accounts[id], r)
    <3>1. /\ Book[id].user = accounts[id].user /\ Book[id].type = accounts[id].type
          /\ Book[id].env = accounts[id].env /\ id \in DOMAIN Book
      BY BookRows DEF Shown
    <3> QED BY <2>1, <2>6, <3>1 DEF Registry!Meant, SameSlot, Selects
  <2>8. Registry!Meant(m) \subseteq 1..Len(accounts) BY BookRows DEF Registry!Meant
  <2>9. r \notin UpdateRequests \cup IdRequests
    BY <1>1 DEF CreateRequest, CreateRequests, UpdateRequests, IdRequests
  <2> QED BY <2>4, <2>5, <2>7, <2>8, <2>9
<1>2. CASE r \in UpdateRequests \cup IdRequests
  <2>1. Meaning(r) \in Registry!Requests /\ Meaning(r).id = r.id /\ Meaning(r).user = r.user
    <3>1. CASE r \in UpdateRequests
      <4>1. PICK body, rights : body = r.body /\ rights = RightsOf(body) OBVIOUS
      <4>2. /\ r.op = "update" /\ r.user \in Users /\ r.id \in Nat
            /\ body.label \in Labels \cup {Undefined} /\ rights \in Rights \cup {Undefined}
            /\ body.enabled \in {"yes", "no", Undefined}
        BY <3>1, <4>1, ConstantsAssumption
        DEF ConstantsAssumption, UpdateRequests, Ids, RightsOf
      <4>3. Meaning(r) = [op |-> "update", user |-> r.user, id |-> r.id, label |-> body.label,
                          rights |-> rights, enabled |-> body.enabled]
        BY <4>1, <4>2 DEF Meaning
      <4> QED BY <4>2, <4>3 DEF Registry!Requests
    <3>2. CASE r \in IdRequests
      <4>1. r.op \in {"delete", "test"} /\ Meaning(r) = r BY <3>2 DEF IdRequests, Meaning
      <4>2. r \in Registry!Requests
        BY <3>2, ConstantsAssumption
        DEF ConstantsAssumption, IdRequests, Ids, Registry!Requests
      <4> QED BY <4>1, <4>2
    <3> QED BY <1>2, <3>1, <3>2
  <2>2. \A id \in 1..Len(accounts) :
          Book[id].user = accounts[id].user /\ (Book[id].state = "open" <=> Live(accounts[id]))
    BY BookRows DEF Shown
  <2>3. PICK m : m = Meaning(r) OBVIOUS
  <2>4. Registry!Named(m) <=> Found(r)
    BY <2>1, <2>2, <2>3, BookRows DEF Registry!Named, Found
  <2>5. r \notin CreateRequest
    BY <1>2 DEF CreateRequest, CreateRequests, UpdateRequests, IdRequests
  <2> QED BY <2>1, <2>3, <2>4, <2>5
<1> QED BY <1>1, <1>2 DEF Requests, CreateRequest

\* The parts of what a creation request asks for.
LEMMA CreateMeaning ==
  ASSUME NEW r \in CreateRequest
  PROVE  Meaning(r) =
           [op |-> "create", user |-> r.user, type |-> Normalize(r.body.type),
            env |-> EnvOf(r.body), key |-> r.body.key, label |-> r.body.label,
            rights |-> RightsOf(r.body)]
<1>1. r.op = "create" BY DEF CreateRequest, CreateRequests
<1> QED BY <1>1 DEF Meaning

\* A new account is shown as the registry opens it.
LEMMA ShownNew ==
  ASSUME NEW r \in CreateRequest
  PROVE  Shown(NewAccount(r)) = Registry!Opened(Meaning(r))
<1>1. PICK type, env, rights, body, user, salt :
        /\ type = Normalize(r.body.type) /\ env = EnvOf(r.body) /\ rights = RightsOf(r.body)
        /\ body = r.body /\ user = r.user /\ salt = r.salt
  OBVIOUS
<1>2. Shown(NewAccount(r)) =
        [user |-> user, type |-> type, env |-> env, key |-> body.key, label |-> body.label,
         rights |-> Given(rights, DefaultRights), enabled |-> "yes", state |-> "open"]
  BY <1>1 DEF Shown, NewAccount, Seal, Live
<1>3. Meaning(r) = [op |-> "create", user |-> user, type |-> type, env |-> env,
                    key |-> body.key, label |-> body.label, rights |-> rights]
  BY <1>1, CreateMeaning
<1>4. Registry!Opened(Meaning(r)) =
        [user |-> user, type |-> type, env |-> env, key |-> body.key, label |-> body.label,
         rights |-> Given(rights, DefaultRights), enabled |-> "yes", state |-> "open"]
  BY <1>3 DEF Registry!Opened, Registry!Or, Given
<1> QED BY <1>2, <1>4

\* An account, as the registry shows it.
Page(user, type, env, key, label, rights, enabled, state) ==
  [user |-> user, type |-> type, env |-> env, key |-> key, label |-> label,
   rights |-> rights, enabled |-> enabled, state |-> state]

StateOf(row) == IF Live(row) THEN "open" ELSE "closed"

\* What is shown of a row is a page.
LEMMA ShownPage ==
  ASSUME NEW row
  PROVE  Shown(row) = Page(row.user, row.type, row.env, row.cipher.key, row.label, row.rights,
                           row.enabled, StateOf(row))
BY DEF Shown, Page, StateOf

\* A restored account is shown as the registry reopens it.
LEMMA ShownRestored ==
  ASSUME NEW row \in Row, NEW r \in CreateRequest
  PROVE  Shown(Filled(row, Restored(row, r))) = Registry!Reopened(Shown(row), Meaning(r))
<1>1. PICK stored \in Row : stored = Filled(row, Restored(row, r)) BY RestoredFields
<1>2. PICK key, label, rights :
        /\ key = r.body.key /\ label = Given(r.body.label, row.label)
        /\ rights = Given(RightsOf(r.body), row.rights)
  OBVIOUS
<1>3. Kept(row, stored) /\ Live(stored) /\ stored.cipher.key = key /\ stored.label = label
      /\ stored.rights = rights /\ stored.enabled = "yes"
  BY <1>1, <1>2, RestoredFields
<1>4. Shown(stored) = Page(row.user, row.type, row.env, key, label, rights, "yes", "open")
  BY <1>3, ShownPage DEF Kept, StateOf
<1>5. PICK m, page : m = Meaning(r) /\ page = Shown(row) OBVIOUS
<1>6. /\ m.key = key /\ Registry!Or(m.label, page.label) = label
      /\ Registry!Or(m.rights, page.rights) = rights
  BY <1>2, <1>5, CreateMeaning DEF Shown, Registry!Or, Given
<1>7. [page EXCEPT !.key = key, !.label = label, !.rights = rights, !.enabled = "yes",
                   !.state = "open"] = Shown(stored)
  <2>1. PICK s : s = StateOf(row) OBVIOUS
  <2>2. page = Page(row.user, row.type, row.env, row.cipher.key, row.label, row.rights,
                    row.enabled, s)
    BY <1>5, <2>1, ShownPage
  <2>3. [page EXCEPT !.key = key] =
          Page(row.user, row.type, row.env, key, row.label, row.rights, row.enabled, s)
    BY <2>2 DEF Page
  <2>4. [Page(row.user, row.type, row.env, key, row.label, row.rights, row.enabled, s)
           EXCEPT !.label = label] =
          Page(row.user, row.type, row.env, key, label, row.rights, row.enabled, s)
    BY DEF Page
  <2>5. [Page(row.user, row.type, row.env, key, label, row.rights, row.enabled, s)
           EXCEPT !.rights = rights] =
          Page(row.user, row.type, row.env, key, label, rights, row.enabled, s)
    BY DEF Page
  <2>6. [Page(row.user, row.type, row.env, key, label, rights, row.enabled, s)
           EXCEPT !.enabled = "yes"] =
          Page(row.user, row.type, row.env, key, label, rights, "yes", s)
    BY DEF Page
  <2>7. [Page(row.user, row.type, row.env, key, label, rights, "yes", s)
           EXCEPT !.state = "open"] =
          Page(row.user, row.type, row.env, key, label, rights, "yes", "open")
    BY DEF Page
  <2>8. [page EXCEPT !.key = key, !.label = label, !.rights = rights] =
          Page(row.user, row.type, row.env, key, label, rights, row.enabled, s)
    BY <2>3, <2>4, <2>5
  <2>9. [page EXCEPT !.key = key, !.label = label, !.rights = rights, !.enabled = "yes"] =
          Page(row.user, row.type, row.env, key, label, rights, "yes", s)
    BY <2>6, <2>8
  <2> QED BY <1>4, <2>7, <2>9
<1>8. Registry!Reopened(page, m) =
        [page EXCEPT !.key = key, !.label = label, !.rights = rights, !.enabled = "yes",
                     !.state = "open"]
  BY <1>6 DEF Registry!Reopened
<1> QED BY <1>1, <1>5, <1>7, <1>8

\* An updated account is shown as the registry amends it.
LEMMA ShownUpdated ==
  ASSUME NEW row \in Row, NEW r \in UpdateRequests
  PROVE  Shown(Updated(row, r.body)) = Registry!Amended(Shown(row), Meaning(r))
<1>1. PICK body \in UpdateBodies : body = r.body BY Bodies
<1>2. PICK stored \in Row : stored = Updated(row, body) BY UpdatedOK
<1>3. PICK label, rights, enabled :
        /\ label = Given(body.label, row.label) /\ rights = Given(RightsOf(body), row.rights)
        /\ enabled = Given(body.enabled, row.enabled)
  OBVIOUS
<1>4. /\ Kept(row, stored) /\ stored.deletedAt = row.deletedAt /\ stored.cipher = row.cipher
      /\ stored.label = label /\ stored.rights = rights /\ stored.enabled = enabled
  BY <1>2, <1>3, UpdatedFields
<1>5. Shown(stored) = Page(row.user, row.type, row.env, row.cipher.key, label, rights, enabled,
                           StateOf(row))
  BY <1>4, ShownPage DEF Kept, StateOf, Live
<1>6. PICK m, page : m = Meaning(r) /\ page = Shown(row) OBVIOUS
<1>7. m.label = body.label /\ m.rights = RightsOf(body) /\ m.enabled = body.enabled
  BY <1>1, <1>6, Bodies DEF Meaning
<1>8. /\ Registry!Or(m.label, page.label) = label /\ Registry!Or(m.rights, page.rights) = rights
      /\ Registry!Or(m.enabled, page.enabled) = enabled
  BY <1>3, <1>6, <1>7 DEF Shown, Registry!Or, Given
<1>9. [page EXCEPT !.label = label, !.rights = rights, !.enabled = enabled] = Shown(stored)
  <2>1. PICK s, key : s = StateOf(row) /\ key = row.cipher.key OBVIOUS
  <2>2. page = Page(row.user, row.type, row.env, key, row.label, row.rights, row.enabled, s)
    BY <1>6, <2>1, ShownPage
  <2>3. [page EXCEPT !.label = label] =
          Page(row.user, row.type, row.env, key, label, row.rights, row.enabled, s)
    BY <2>2 DEF Page
  <2>4. [Page(row.user, row.type, row.env, key, label, row.rights, row.enabled, s)
           EXCEPT !.rights = rights] =
          Page(row.user, row.type, row.env, key, label, rights, row.enabled, s)
    BY DEF Page
  <2>5. [Page(row.user, row.type, row.env, key, label, rights, row.enabled, s)
           EXCEPT !.enabled = enabled] =
          Page(row.user, row.type, row.env, key, label, rights, enabled, s)
    BY DEF Page
  <2> QED BY <1>5, <2>1, <2>3, <2>4, <2>5
<1>10. Registry!Amended(page, m) =
         [page EXCEPT !.label = label, !.rights = rights, !.enabled = enabled]
  BY <1>8 DEF Registry!Amended
<1> QED BY <1>1, <1>2, <1>6, <1>9, <1>10

\* A deleted account is shown closed, a tested one as it was.
LEMMA ShownOthers ==
  ASSUME NEW row \in Row
  PROVE  /\ Shown(Deleted(row)) = [Shown(row) EXCEPT !.state = "closed"]
         /\ \A e : Kept(row, e) /\ SameView(row, e) /\ e.deletedAt = row.deletedAt =>
                     Shown(e) = Shown(row)
<1>1. PICK stored : stored = Deleted(row) OBVIOUS
<1>2. Kept(row, stored) /\ SameView(row, stored) /\ ~Live(stored) BY <1>1, DeletedFields DEF Live
<1>3. Shown(stored) = [Shown(row) EXCEPT !.state = "closed"]
  <2>1. Shown(stored) =
          [user |-> row.user, type |-> row.type, env |-> row.env, key |-> row.cipher.key,
           label |-> row.label, rights |-> row.rights, enabled |-> row.enabled,
           state |-> "closed"]
    BY <1>2 DEF Shown, Kept, SameView, Live
  <2>2. [Shown(row) EXCEPT !.state = "closed"] =
          [user |-> row.user, type |-> row.type, env |-> row.env, key |-> row.cipher.key,
           label |-> row.label, rights |-> row.rights, enabled |-> row.enabled,
           state |-> "closed"]
    BY DEF Shown, Live
  <2> QED BY <2>1, <2>2, Zenon
<1>4. ASSUME NEW e, Kept(row, e), SameView(row, e), e.deletedAt = row.deletedAt
      PROVE  Shown(e) = Shown(row)
  BY <1>4 DEF Shown, Kept, SameView, Live
<1> QED BY <1>1, <1>3, <1>4

-----------------------------------------------------------------------------
(* What the registry does meanwhile *)

\* An insertion opens an account.
LEMMA InsertDoes ==
  ASSUME Inv, SeqInv, NEW p \in Handlers, pc[p] = "insert", Insertable(req[p]),
         accounts' = Append(accounts, NewAccount(req[p]))
  PROVE  Registry!Does(Meaning(req[p]), "created")
<1>1. PICK r \in CreateRequest : r = req[p] BY DEF Inv, HandlerInv, Creating
<1>2. Table /\ r \in Requests BY DEF Inv, Requests, CreateRequest
<1>3. PICK m : m = Meaning(r) OBVIOUS
<1>4. Registry!Meant(m) = {}
  <2>1. \A id \in 1..Len(accounts) : ~SameSlot(accounts[id], r)
    BY <1>1, <1>2, BookRows DEF SeqInv, Serving
  <2> QED BY <1>2, <1>3, <2>1, Means
<1>5. Undefined \notin {m.type, m.env, m.label} /\ m.op = "create"
  <2>1. m.type = Normalize(r.body.type) /\ m.env = EnvOf(r.body) /\ m.label = r.body.label
        /\ m.op = "create"
    BY <1>3, CreateMeaning
  <2> QED BY <1>1, <2>1, ConstantsAssumption
          DEF ConstantsAssumption, Insertable, Normalize
<1>6. Book' = Append(Book, Registry!Opened(m))
  <2>1. PICK row \in Row : row = NewAccount(r) BY <1>1, NewOK
  <2> QED BY <1>1, <1>2, <1>3, <2>1, BookAppends, ShownNew
<1>7. Registry!Open(m) BY <1>4, <1>5, <1>6 DEF Registry!Open
<1> QED BY <1>1, <1>3, <1>5, <1>7 DEF Registry!Does

\* What the storing of an entity does: the operation's own change, or, after a test,
\* nothing.
LEMMA StoreDoes ==
  ASSUME Inv, SeqInv, TellingInv, NEW p \in Handlers, pc[p] = "write",
         accounts' = [accounts EXCEPT ![target[p]] = Stored(p)]
  PROVE  \/ /\ outcome[p] \in {"restored", "updated", "deleted"}
            /\ Registry!Does(Meaning(req[p]), outcome[p])
         \/ /\ outcome[p] \in {"connected", "failed"}
            /\ Book' = Book /\ Registry!Refuses(Meaning(req[p]), outcome[p])
<1>1. PICK id \in 1..Len(accounts), row \in Row, stored \in Row :
        /\ id = target[p] /\ row = accounts[id] /\ Stored(p) = stored
        /\ Leaves(row, req[p], outcome[p], stored)
  BY WriteStores
<1>2. PICK r, result : r = req[p] /\ result = outcome[p] OBVIOUS
<1>3. Table /\ Telling(p) BY DEF Inv, TellingInv
<1>4. Book' = [Book EXCEPT ![id] = Shown(stored)] BY <1>1, <1>3, BookStores
<1>5. Book[id] = Shown(row) /\ id \in DOMAIN Book /\ id \in DOMAIN accounts
      /\ DOMAIN accounts = 1..Len(accounts)
  BY <1>1, <1>3, BookRows
<1>6. PICK m : m = Meaning(r) OBVIOUS
<1>7. CASE result = "restored"
  <2>1. MayRestore(row, r) /\ stored = Filled(row, Restored(row, r)) /\ r \in CreateRequest
    BY <1>1, <1>2, <1>7 DEF Leaves, Changes, MayRestore
  <2>2. r \in Requests /\ m.op = "create"
    BY <1>6, <2>1, CreateMeaning DEF Requests, CreateRequest
  <2>3. id \in Registry!Meant(m) BY <1>1, <1>3, <1>6, <2>1, <2>2, Means DEF MayRestore
  <2>4. \A n \in Registry!Meant(m) : Book[n].state = "closed"
    <3>1. \A n \in Registry!Meant(m) : n \in 1..Len(accounts) /\ SameSlot(accounts[n], r)
      BY <1>3, <1>6, <2>1, <2>2, Means
    <3>2. \A n \in 1..Len(accounts) : Book[n].state = IF Live(accounts[n]) THEN "open" ELSE "closed"
      BY <1>3, BookRows DEF Shown
    <3> QED BY <1>5, <2>1, <3>1, <3>2 DEF MayRestore, NoLive
  <2>5. Shown(stored) = Registry!Reopened(Book[id], m) BY <1>5, <1>6, <2>1, ShownRestored
  <2>6. Registry!Reopen(m) BY <1>4, <2>3, <2>4, <2>5 DEF Registry!Reopen
  <2> QED BY <1>2, <1>6, <1>7, <2>2, <2>6 DEF Registry!Does
<1>8. ASSUME result # "restored"
      PROVE  /\ r \in UpdateRequests \cup IdRequests /\ r.id = id
             /\ m.op = r.op /\ m.id = id /\ Registry!Named(m)
             /\ result = "updated" => r.op = "update" /\ r \in UpdateRequests
             /\ result = "deleted" => r.op = "delete"
             /\ result \in {"connected", "failed"} => r.op = "test"
             /\ result \in {"updated", "deleted", "connected", "failed"}
  <2>1. /\ r \in UpdateRequests \cup IdRequests /\ r.id = id
        /\ result = "updated" => r.op = "update"
        /\ result = "deleted" => r.op = "delete"
        /\ result \in {"connected", "failed"} => r.op = "test"
        /\ result \in {"updated", "deleted", "connected", "failed"}
    BY <1>1, <1>2, <1>3, <1>8 DEF Telling, Asks
  <2>2. r.op = "update" => r \in UpdateRequests BY <2>1 DEF IdRequests
  <2>3. Live(row) BY <1>1, <1>2, <1>8 DEF Leaves, Changes
  <2>4. accounts[id].user = r.user
    BY <1>1, <1>2 DEF Inv, HandlerInv, Holds, Holding
  <2>5. Found(r) BY <1>1, <1>5, <2>1, <2>3, <2>4 DEF Found
  <2>6. Registry!Named(m) BY <1>3, <1>6, <2>1, <2>5, Means DEF Requests
  <2>7. m.op = r.op /\ m.id = id
    <3>1. CASE r \in UpdateRequests
      <4>1. r.op = "update" BY <3>1, Bodies
      <4> QED BY <1>6, <2>1, <4>1 DEF Meaning
    <3>2. CASE r \in IdRequests
      <4>1. r.op \in {"delete", "test"} BY <3>2 DEF IdRequests
      <4> QED BY <1>6, <2>1, <4>1 DEF Meaning
    <3> QED BY <2>1, <3>1, <3>2
  <2> QED BY <2>1, <2>2, <2>6, <2>7
<1>9. CASE result = "updated"
  <2>1. stored = Updated(row, r.body) /\ r \in UpdateRequests
    BY <1>1, <1>2, <1>9 DEF Leaves, Changes
  <2>2. Shown(stored) = Registry!Amended(Book[id], m) BY <1>5, <1>6, <2>1, ShownUpdated
  <2>3. Registry!Amend(m) BY <1>4, <1>8, <1>9, <2>2 DEF Registry!Amend
  <2> QED BY <1>2, <1>6, <1>8, <1>9, <2>3 DEF Registry!Does
<1>10. CASE result = "deleted"
  <2>1. stored = Deleted(row) BY <1>1, <1>2, <1>10 DEF Leaves, Changes
  <2>2. Shown(stored) = [Book[id] EXCEPT !.state = "closed"] BY <1>5, <2>1, ShownOthers
  <2>3. Registry!Close(m) BY <1>4, <1>8, <1>10, <2>2 DEF Registry!Close
  <2> QED BY <1>2, <1>6, <1>8, <1>10, <2>3 DEF Registry!Does
<1>11. CASE result \in {"connected", "failed"}
  <2>1. Kept(row, stored) /\ SameView(row, stored) /\ stored.deletedAt = row.deletedAt
    <3>1. CASE result = "connected"
      BY <1>1, <1>2, <3>1, ConnectedFields DEF Leaves, Changes
    <3>2. CASE result = "failed"
      BY <1>1, <1>2, <3>2, HasFailedFields DEF Leaves, Changes
    <3> QED BY <1>11, <3>1, <3>2
  <2>2. Shown(stored) = Book[id] BY <1>5, <2>1, ShownOthers
  <2>3. Book' = Book BY <1>4, <1>5, <2>2 DEF Book
  <2> QED BY <1>2, <1>6, <1>8, <1>11, <2>3 DEF Registry!Refuses
<1> QED BY <1>2, <1>7, <1>8, <1>9, <1>10, <1>11

-----------------------------------------------------------------------------
(* The theorem *)

\* The one request is all that is asked; when there is none, its answer is all that is told.
LEMMA View ==
  ASSUME OneAtATime, NEW p \in Handlers
  PROVE  /\ pc[p] = "idle" => Asked = {} /\ Told = {outcome[p]}
         /\ pc[p] # "idle" => Asked = {Meaning(req[p])} /\ Told = {}
         /\ pc'[p] = "idle" => Asked' = {} /\ Told' = {outcome'[p]}
         /\ pc'[p] # "idle" => Asked' = {Meaning(req'[p])} /\ Told' = {}
<1>1. Handlers = {p} BY DEF OneAtATime
<1> HIDE DEF Meaning
<1>2. /\ pc[p] = "idle" => Asked = {} /\ Told = {outcome[p]}
      /\ pc[p] # "idle" => Asked = {Meaning(req[p])} /\ Told = {}
  BY <1>1 DEF Asked, Told
<1>3. PICK pcs, reqs, outcomes : pcs = pc' /\ reqs = req' /\ outcomes = outcome' OBVIOUS
<1>4. /\ Asked' = {Meaning(reqs[q]) : q \in {x \in Handlers : pcs[x] # "idle"}}
      /\ Told' = {outcomes[q] : q \in {x \in Handlers : pcs[x] = "idle"}}
  BY <1>3 DEF Asked, Told, Meaning
<1>5. /\ pcs[p] = "idle" => Asked' = {} /\ Told' = {outcomes[p]}
      /\ pcs[p] # "idle" => Asked' = {Meaning(reqs[p])} /\ Told' = {}
  BY <1>1, <1>4
<1> QED BY <1>2, <1>3, <1>5

view == <<Book, Asked, Told>>

\* An answer that tells what was done, or why nothing was.
LEMMA Answers ==
  ASSUME OneAtATime, Inv, NEW p \in Handlers, NEW result, pc[p] # "idle", Answer(p, result),
         \/ Registry!Does(Meaning(req[p]), result)
         \/ Registry!Refuses(Meaning(req[p]), result) /\ Book' = Book
         \/ result = "dbError" /\ Book' = Book
         \/ /\ result = "dbError"
            /\ \E done \in {"created", "restored", "updated", "deleted"} :
                 Registry!Does(Meaning(req[p]), done)
  PROVE  Registry!Next
<1>1. pc'[p] = "idle" /\ outcome'[p] = result BY DEF Answer, Inv, Domains
<1>2. PICK m : m = Meaning(req[p]) OBVIOUS
<1>3. Asked = {m} /\ Asked' = {} /\ Told' = {result} BY <1>1, <1>2, View
<1>4. CASE Registry!Does(m, result) \/ (Registry!Refuses(m, result) /\ Book' = Book)
  <2>1. Registry!Serve(m) BY <1>3, <1>4 DEF Registry!Serve
  <2> QED BY <1>3, <2>1 DEF Registry!Next
<1>5. CASE result = "dbError" /\ Book' = Book
  <2>1. Registry!Fail(m) BY <1>3, <1>5 DEF Registry!Fail
  <2> QED BY <1>3, <2>1 DEF Registry!Next
<1>6. CASE /\ result = "dbError"
           /\ \E done \in {"created", "restored", "updated", "deleted"} :
                Registry!Does(m, done)
  <2>1. Registry!Fail(m) BY <1>3, <1>6 DEF Registry!Fail
  <2> QED BY <1>3, <2>1 DEF Registry!Next
<1> QED BY <1>2, <1>4, <1>5, <1>6

\* While a request is worked on, a client sees nothing.
LEMMA Hidden ==
  ASSUME OneAtATime, NEW p \in Handlers, pc[p] # "idle", pc'[p] # "idle", req' = req,
         Book' = Book
  PROVE  view' = view
<1>1. /\ Asked = {Meaning(req[p])} /\ Told = {}
      /\ Asked' = {Meaning(req'[p])} /\ Told' = {}
  BY View
<1> QED BY <1>1 DEF view

\* save() is called.
LEMMA SaveHidden ==
  ASSUME OneAtATime, Inv, NEW p \in Handlers, pc[p] # "idle", Book' = Book,
         NEW id, NEW entity, NEW result, Save(p, id, entity, result)
  PROVE  view' = view
<1>1. pc'[p] = "load" /\ req' = req BY DEF Save, Inv, Domains
<1> QED BY <1>1, Hidden

\* A request arrives.
LEMMA ReceiveAsks ==
  ASSUME OneAtATime, Inv, NEW p \in Handlers, NEW r \in Requests,
         NEW place \in {"findLive", "find"}, Receive(p, r, place)
  PROVE  Registry!Next
<1>1. pc[p] = "idle" /\ pc'[p] # "idle" /\ req'[p] = r /\ accounts' = accounts
  BY DEF Receive, db, Inv, Domains
<1>2. PICK m : m = Meaning(r) OBVIOUS
<1>3. Asked = {} /\ Asked' = {m} /\ Told' = {} BY <1>1, <1>2, View
<1>4. Book' = Book BY <1>1, BookKept
<1>5. m \in Registry!Requests BY <1>2, Means DEF Inv
<1>6. Registry!Ask BY <1>3, <1>4, <1>5 DEF Registry!Ask
<1> QED BY <1>6 DEF Registry!Next

\* The lookups of createCexAccount.
LEMMA CreateSeen ==
  ASSUME OneAtATime, Inv, SeqInv, NEW p \in Handlers, FindLive(p) \/ FindDeleted(p) \/ Insert(p)
  PROVE  Registry!Next \/ view' = view
<1>1. /\ req[p] \in CreateRequest /\ Table /\ pc[p] # "idle"
  BY DEF FindLive, FindDeleted, Insert, Inv, HandlerInv, Creating
<1>2. ASSUME accounts' = accounts, NEW place \in {"findDeleted", "insert"},
             pc' = [pc EXCEPT ![p] = place], req' = req
      PROVE  view' = view
  <2>1. pc'[p] # "idle" BY <1>2 DEF Inv, Domains
  <2> QED BY <1>1, <1>2, <2>1, BookKept, Hidden
<1>3. CASE FindLive(p)
  <2>1. accounts' = accounts BY <1>3 DEF FindLive, db
  <2>2. ASSUME NEW id \in DOMAIN accounts, Live(accounts[id]), SameSlot(accounts[id], req[p]),
               Answer(p, "conflict")
        PROVE  Registry!Next
    <3>1. PICK r \in CreateRequest : r = req[p] BY <1>1
    <3>2. PICK asks : asks = Meaning(r) OBVIOUS
    <3>3. asks.op = "create" /\ r \in Requests
      BY <3>2, CreateMeaning DEF Requests, CreateRequest
    <3>4. id \in Registry!Meant(asks) /\ Book[id].state = "open"
      BY <1>1, <2>2, <3>1, <3>2, <3>3, Means, BookRows DEF Shown
    <3>5. Registry!Refuses(asks, "conflict") BY <3>3, <3>4 DEF Registry!Refuses
    <3> QED BY <1>1, <2>1, <2>2, <3>1, <3>2, <3>5, BookKept, Answers
  <2> QED BY <1>2, <1>3, <2>1, <2>2 DEF FindLive
<1>4. CASE FindDeleted(p)
  <2>1. accounts' = accounts BY <1>4 DEF FindDeleted, db
  <2>2. Book' = Book BY <2>1, BookKept
  <2>3. ASSUME NEW id, Save(p, id, Restored(accounts[id], req[p]), "restored")
        PROVE  view' = view
    BY <1>1, <2>2, <2>3, SaveHidden
  <2> QED BY <1>2, <1>4, <2>1, <2>3 DEF FindDeleted
<1>5. CASE Insert(p)
  <2>1. CASE Insertable(req[p])
    <3>1. Registry!Does(Meaning(req[p]), "created") BY <1>5, <2>1, InsertDoes DEF Insert
    <3>2. Answer(p, "created") BY <1>5, <2>1 DEF Insert
    <3> QED BY <1>1, <3>1, <3>2, Answers
  <2>2. CASE ~Insertable(req[p])
    <3>1. Answer(p, "dbError") /\ accounts' = accounts BY <1>5, <2>2 DEF Insert
    <3> QED BY <1>1, <3>1, BookKept, Answers
  <2> QED BY <2>1, <2>2
<1> QED BY <1>3, <1>4, <1>5

\* The lookup of the others.
LEMMA FindSeen ==
  ASSUME OneAtATime, Inv, NEW p \in Handlers, Find(p)
  PROVE  Registry!Next \/ view' = view
<1>1. /\ req[p] \in UpdateRequests \cup IdRequests /\ Table /\ pc[p] # "idle"
      /\ accounts' = accounts
  BY DEF Find, Inv, HandlerInv, db
<1>2. Book' = Book BY <1>1, BookKept
<1>3. ASSUME ~Found(req[p]), Answer(p, "notFound") PROVE Registry!Next
  <2>1. PICK r : r = req[p] /\ r \in Requests BY <1>1 DEF Requests
  <2>2. PICK m : m = Meaning(r) OBVIOUS
  <2>3. ~Registry!Named(m) BY <1>1, <1>3, <2>1, <2>2, Means
  <2>4. m.op # "create"
    <3>1. CASE r \in UpdateRequests
      <4>1. r.op = "update" BY <3>1, Bodies
      <4> QED BY <2>2, <4>1 DEF Meaning
    <3>2. CASE r \in IdRequests
      <4>1. r.op \in {"delete", "test"} BY <3>2 DEF IdRequests
      <4> QED BY <2>2, <4>1 DEF Meaning
    <3> QED BY <1>1, <2>1, <3>1, <3>2
  <2>5. Registry!Refuses(m, "notFound") BY <2>3, <2>4 DEF Registry!Refuses
  <2> QED BY <1>1, <1>2, <1>3, <2>1, <2>2, <2>5, Answers
<1>4. ASSUME NEW id, NEW entity, NEW result, Save(p, id, entity, result) PROVE view' = view
  BY <1>1, <1>2, <1>4, SaveHidden
<1>5. ASSUME pc' = [pc EXCEPT ![p] = "probe"], req' = req PROVE view' = view
  <2>1. pc'[p] # "idle" BY <1>5 DEF Inv, Domains
  <2> QED BY <1>1, <1>2, <1>5, <2>1, Hidden
<1> QED BY <1>3, <1>4, <1>5 DEF Find

\* The calls of the exchange, and the first statement of save().
LEMMA ProbeSeen ==
  ASSUME OneAtATime, Inv, NEW p \in Handlers,
         ProbeSucceeds(p) \/ ProbeSkipped(p) \/ ProbeFails(p) \/ ProbeImpossible(p) \/ Load(p)
  PROVE  view' = view
<1>1. accounts' = accounts /\ pc[p] # "idle"
  BY DEF ProbeSucceeds, ProbeSkipped, ProbeFails, ProbeImpossible, Load, db
<1>2. Book' = Book BY <1>1, BookKept
<1>3. ASSUME NEW id, NEW entity, NEW result, Save(p, id, entity, result) PROVE view' = view
  BY <1>1, <1>2, <1>3, SaveHidden
<1>4. ASSUME req' = req, pc' = pc \/ pc' = [pc EXCEPT ![p] = "write"] PROVE view' = view
  <2>1. pc'[p] # "idle" BY <1>1, <1>4 DEF Inv, Domains
  <2> QED BY <1>1, <1>2, <1>4, <2>1, Hidden
<1> QED
  BY <1>3, <1>4
  DEF ProbeSucceeds, ProbeSkipped, ProbeFails, ProbeImpossible, Catch, Load

\* A save() that throws, where what it stored, if anything, is not seen or is done.
LEMMA ThrowSeen ==
  ASSUME OneAtATime, Inv, NEW p \in Handlers, pc[p] # "idle", SaveThrows(p),
         \/ Book' = Book
         \/ /\ outcome[p] \in {"restored", "updated", "deleted"}
            /\ Registry!Does(Meaning(req[p]), outcome[p])
  PROVE  Registry!Next \/ view' = view
<1>1. CASE outcome[p] = "connected"
  <2>1. Save(p, target[p], Failed(held[p]), "failed") BY <1>1 DEF SaveThrows, Catch
  <2>2. Book' = Book BY <1>1
  <2> QED BY <2>1, <2>2, SaveHidden
<1>2. CASE outcome[p] # "connected"
  <2>1. Answer(p, "dbError") BY <1>2 DEF SaveThrows
  <2>2. PICK m, done : m = Meaning(req[p]) /\ done = outcome[p] OBVIOUS
  <2>3. \/ Book' = Book
        \/ \E result \in {"created", "restored", "updated", "deleted"} :
             Registry!Does(m, result)
    BY <2>2
  <2>4. Registry!Next BY <2>1, <2>2, <2>3, Answers
  <2> QED BY <2>4
<1> QED BY <1>1, <1>2

\* The second statement of save().
LEMMA WriteSeen ==
  ASSUME OneAtATime, Inv, SeqInv, TellingInv, NEW p \in Handlers, Write(p)
  PROVE  Registry!Next \/ view' = view
<1>1. pc[p] = "write" BY DEF Write
<1>2. CASE Clashes(Stored(p), target[p])
  <2>1. SaveThrows(p) /\ accounts' = accounts BY <1>2 DEF Write
  <2> QED BY <1>1, <2>1, BookKept, ThrowSeen
<1>3. CASE ~Clashes(Stored(p), target[p])
  <2>1. accounts' = [accounts EXCEPT ![target[p]] = Stored(p)] /\ Answer(p, outcome[p])
    BY <1>3 DEF Write
  <2>2. PICK m, done : m = Meaning(req[p]) /\ done = outcome[p] OBVIOUS
  <2>3. Registry!Does(m, done) \/ (Book' = Book /\ Registry!Refuses(m, done))
    BY <1>1, <2>1, <2>2, StoreDoes
  <2> QED BY <1>1, <2>1, <2>2, <2>3, Answers
<1> QED BY <1>2, <1>3

\* Faults of the database.
LEMMA FaultSeen ==
  ASSUME OneAtATime, Inv, SeqInv, TellingInv, NEW p \in Handlers, DbFault(p)
  PROVE  Registry!Next \/ view' = view
<1>1. pc[p] # "idle" BY DEF DbFault
<1>2. ASSUME Answer(p, "dbError"), accounts' = accounts PROVE Registry!Next
  BY <1>1, <1>2, BookKept, Answers
<1>3. ASSUME SaveThrows(p), accounts' = accounts PROVE Registry!Next \/ view' = view
  BY <1>1, <1>3, BookKept, ThrowSeen
<1>4. ASSUME pc[p] = "write", SaveThrows(p),
             accounts' = [accounts EXCEPT ![target[p]] = Stored(p)]
      PROVE  Registry!Next \/ view' = view
  BY <1>1, <1>4, StoreDoes, ThrowSeen
<1>5. ASSUME pc[p] = "insert", Insertable(req[p]), Answer(p, "dbError"),
             accounts' = Append(accounts, NewAccount(req[p]))
      PROVE  Registry!Next
  <2>1. Registry!Does(Meaning(req[p]), "created") BY <1>5, InsertDoes
  <2> QED BY <1>1, <1>5, <2>1, Answers
<1> QED BY <1>2, <1>3, <1>4, <1>5 DEF DbFault

\* A restart forgets what was asked.
LEMMA RestartSeen ==
  ASSUME OneAtATime, Restart
  PROVE  Registry!Next
<1>1. PICK p \in Handlers : pc[p] # "idle" BY DEF Restart
<1>2. pc'[p] = "idle" /\ outcome'[p] = "none" /\ accounts' = accounts BY DEF Restart
<1>3. Asked # {} /\ Asked' = {} /\ Told' = {"none"} BY <1>1, <1>2, View
<1>4. Book' = Book BY <1>2, BookKept
<1>5. Registry!Forget BY <1>3, <1>4 DEF Registry!Forget
<1> QED BY <1>5 DEF Registry!Next

\* At first the book is empty.
LEMMA StartSeen == Init => Registry!Init
<1> SUFFICES ASSUME Init PROVE Registry!Init OBVIOUS
<1>1. Book = << >> BY DEF Init, Book
<1>2. Asked = {} /\ Told \subseteq {"none"} BY DEF Init, Asked, Told
<1> QED BY <1>1, <1>2 DEF Registry!Init

\* Each step is one of the registry's, or shows nothing.
LEMMA StepSeen ==
  ASSUME OneAtATime
  PROVE  Inv /\ SeqInv /\ TellingInv /\ [Next]_vars => [Registry!Next]_view
<1> SUFFICES ASSUME Inv, SeqInv, TellingInv, [Next]_vars
             PROVE  Registry!Next \/ view' = view
  OBVIOUS
<1>1. ASSUME NEW p \in Handlers, Proceed(p) PROVE Registry!Next \/ view' = view
  BY <1>1, CreateSeen, FindSeen, ProbeSeen, WriteSeen DEF Proceed
<1>2. ASSUME NEW p \in Handlers,
             ReceiveCreate(p) \/ ReceiveUpdate(p) \/ ReceiveDelete(p) \/ ReceiveTest(p)
      PROVE  Registry!Next
  <2>1. CASE ReceiveCreate(p)
    <3>1. PICK r \in CreateRequests({creates + 1}) : Receive(p, r, "findLive")
      BY <2>1 DEF ReceiveCreate
    <3>2. creates + 1 \in 1..MaxCreates
      BY <2>1, ConstantsAssumption DEF ConstantsAssumption, ReceiveCreate, Inv, Counters
    <3>3. r \in Requests BY <3>2 DEF Requests, CreateRequests
    <3> QED BY <3>1, <3>3, ReceiveAsks
  <2>2. CASE ReceiveUpdate(p) BY <2>2, ReceiveAsks DEF ReceiveUpdate, Requests
  <2>3. CASE ReceiveDelete(p) \/ ReceiveTest(p)
    BY <2>3, ReceiveAsks DEF ReceiveDelete, ReceiveTest, Requests
  <2> QED BY <1>2, <2>1, <2>2, <2>3
<1>3. CASE UNCHANGED vars
  <2>1. accounts' = accounts /\ pc' = pc /\ req' = req /\ outcome' = outcome
    BY <1>3 DEF vars
  <2>2. Book' = Book BY <2>1, BookKept
  <2>3. Asked' = Asked /\ Told' = Told BY <2>1 DEF Asked, Told, Meaning
  <2> QED BY <2>2, <2>3 DEF view
<1> QED BY <1>1, <1>2, <1>3, FaultSeen, RestartSeen DEF Next

\* One request at a time, whatever is left out of the requests, whatever the database
\* refuses or loses, and with restarts: what clients ask, are told and can see of the
\* accounts is what they would of the registry.
THEOREM ServiceImplementsRegistry ==
  ASSUME OneAtATime
  PROVE  Spec => ImplementsRegistry
<1>1. Init => TellingInv BY DEF Init, TellingInv, Telling
<1>2. Spec => [](Inv /\ SeqInv /\ TellingInv)
  <2>1. Inv /\ TellingInv /\ [Next]_vars => TellingInv' BY TellingNext
  <2> QED BY <1>1, <2>1, SequentialInvariance, PTL DEF Spec
<1>3. Init => Registry!Init BY StartSeen
<1>4. Inv /\ SeqInv /\ TellingInv /\ [Next]_vars => [Registry!Next]_<<Book, Asked, Told>>
  BY StepSeen DEF view
<1> QED BY <1>2, <1>3, <1>4, PTL DEF Spec, ImplementsRegistry, Registry!Spec
=============================================================================
