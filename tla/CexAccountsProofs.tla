--------------------------- MODULE CexAccountsProofs ---------------------------
(***************************************************************************)
(* Theorems about CexAccounts, for every set of users, keys, handlers and  *)
(* every bound.  Inv is inductive: it says of a handler that holds an      *)
(* entity what the invariants say of the table, because a later Write may  *)
(* store any column of that entity.                                        *)
(***************************************************************************)
EXTENDS CexAccounts, SequenceTheorems, TLAPS

-----------------------------------------------------------------------------
(* What the operators on rows return *)

\* One column of a row may be given any value of its type.
LEMMA SetColumn ==
  ASSUME NEW x \in Row
  PROVE  /\ \A v \in Keys : [x EXCEPT !.hash = v] \in Row
         /\ \A v \in Ciphers : [x EXCEPT !.cipher = v] \in Row
         /\ \A v \in Labels : [x EXCEPT !.label = v] \in Row
         /\ \A v \in Rights : [x EXCEPT !.rights = v] \in Row
         /\ \A v \in {"yes", "no"} : [x EXCEPT !.enabled = v] \in Row
         /\ \A v \in {"null", "set"} : [x EXCEPT !.deletedAt = v] \in Row
         /\ \A v \in {"disconnected", "connected", "error"} : [x EXCEPT !.conn = v] \in Row
         /\ \A v \in Nat : [x EXCEPT !.fails = v] \in Row
BY SMT DEF Row

\* So may one column of an entity.
LEMMA SetProperty ==
  ASSUME NEW x \in Entity
  PROVE  /\ \A v \in Keys : [x EXCEPT !.hash = v] \in Entity
         /\ \A v \in Ciphers : [x EXCEPT !.cipher = v] \in Entity
         /\ \A v \in Labels \cup {Undefined} : [x EXCEPT !.label = v] \in Entity
         /\ \A v \in Rights \cup {Undefined} : [x EXCEPT !.rights = v] \in Entity
         /\ \A v \in {"yes", "no"} : [x EXCEPT !.enabled = v] \in Entity
         /\ \A v \in {"null", "set"} : [x EXCEPT !.deletedAt = v] \in Entity
         /\ \A v \in {"disconnected", "connected", "error"} : [x EXCEPT !.conn = v] \in Entity
         /\ \A v \in Nat : [x EXCEPT !.fails = v] \in Entity
BY SMT DEF Entity

\* A row is an entity with all its columns.
LEMMA RowIsEntity == Row \subseteq Entity
BY DEF Row, Entity

CreateRequest == CreateRequests(1..MaxCreates)

\* The parts of a creation request.
LEMMA RequestFields ==
  ASSUME NEW r \in CreateRequest
  PROVE  /\ r.user \in Users /\ r.body \in CreateBodies /\ r.salt \in Nat
         /\ r.body.key \in Keys /\ r.body.label \in Labels \cup {Undefined}
         /\ r.body.type \in {"spot", "future", "futures", Undefined}
         /\ EnvOf(r.body) \in Envs \cup {Undefined}
         /\ RightsOf(r.body) \in Rights \cup {Undefined}
         /\ Given(RightsOf(r.body), DefaultRights) \in Rights
<1>1. r.user \in Users /\ r.body \in CreateBodies /\ r.salt \in Nat
  BY ConstantsAssumption DEF ConstantsAssumption, CreateRequest, CreateRequests
<1>2. r.body \in [type : {"spot", "future", "futures", Undefined},
                  env : Envs \cup {Undefined}, key : Keys,
                  label : Labels \cup {Undefined}, rights : Rights \cup {Undefined}]
  BY <1>1, ConstantsAssumption DEF ConstantsAssumption
<1>3. EnvOf(r.body) \in Envs \cup {Undefined} /\ RightsOf(r.body) \in Rights \cup {Undefined}
  BY <1>2, ConstantsAssumption DEF ConstantsAssumption, EnvOf, RightsOf
<1>4. Given(RightsOf(r.body), DefaultRights) \in Rights
  BY <1>3, ConstantsAssumption DEF ConstantsAssumption, Given
<1> QED BY <1>1, <1>2, <1>3, <1>4

\* A sealed key belongs to the user who asked.
LEMMA SealOK ==
  ASSUME NEW r \in CreateRequest
  PROVE  Seal(r) \in Ciphers /\ Seal(r).owner = r.user
BY RequestFields DEF Seal, Ciphers

\* A new account the database takes is a row of the requesting user, never tested.
LEMMA NewOK ==
  ASSUME NEW r \in CreateRequest, Insertable(r)
  PROVE  /\ NewAccount(r) \in Row
         /\ NewAccount(r).user = r.user /\ NewAccount(r).cipher.owner = r.user
         /\ NewAccount(r).conn = "disconnected" /\ NewAccount(r).fails = 0
<1>1. Normalize(r.body.type) \in NormalizedTypes /\ EnvOf(r.body) \in Envs
      /\ r.body.label \in Labels
  BY RequestFields DEF Normalize, NormalizedTypes, Insertable
<1>2. NewAccount(r) \in Row
  BY <1>1, RequestFields, SealOK DEF NewAccount, Row
<1> QED BY <1>2, SealOK DEF NewAccount

Kept(row, entity) ==
  entity.user = row.user /\ entity.type = row.type /\ entity.env = row.env

SameHealth(row, entity) == entity.conn = row.conn /\ entity.fails = row.fails

\* Restoring keeps the slot and the health, and seals the new key for the requester.
LEMMA RestoredOK ==
  ASSUME NEW row \in Row, NEW r \in CreateRequest
  PROVE  /\ Restored(row, r) \in Entity
         /\ Kept(row, Restored(row, r))
         /\ SameHealth(row, Restored(row, r))
         /\ Restored(row, r).cipher.owner = r.user
<1>1. Restored(row, r) \in Entity
  <2>0. [row EXCEPT !.label = r.body.label] \in Entity
    BY SetProperty, RowIsEntity, RequestFields, Zenon
  <2>1. [row EXCEPT !.label = r.body.label, !.hash = r.body.key] \in Entity
    BY <2>0, SetProperty, RequestFields, Zenon
  <2>2. [row EXCEPT !.label = r.body.label, !.hash = r.body.key, !.cipher = Seal(r)] \in Entity
    BY <2>1, SetProperty, SealOK, Zenon
  <2>3. [row EXCEPT !.label = r.body.label, !.hash = r.body.key, !.cipher = Seal(r),
                    !.rights = RightsOf(r.body)] \in Entity
    BY <2>2, SetProperty, RequestFields, Zenon
  <2>4. [row EXCEPT !.label = r.body.label, !.hash = r.body.key, !.cipher = Seal(r),
                    !.rights = RightsOf(r.body), !.deletedAt = "null"] \in Entity
    BY <2>3, SetProperty, Zenon
  <2> QED BY <2>4, SetProperty, Zenon DEF Restored
<1>2. Kept(row, Restored(row, r)) BY DEF Kept, Restored, Row
<1>3. SameHealth(row, Restored(row, r)) BY DEF SameHealth, Restored, Row
<1>4. Restored(row, r).cipher = Seal(r) BY DEF Restored, Row
<1> QED BY <1>1, <1>2, <1>3, <1>4, SealOK

\* An update keeps slot, credentials and health.
LEMMA UpdatedOK ==
  ASSUME NEW row \in Row, NEW body \in UpdateBodies
  PROVE  /\ Updated(row, body) \in Row
         /\ Kept(row, Updated(row, body))
         /\ SameHealth(row, Updated(row, body))
         /\ Updated(row, body).cipher = row.cipher
<1>1. /\ body.label \in Labels \cup {Undefined}
      /\ body.rights \in Rights \cup {Undefined}
      /\ body.enabled \in {"yes", "no", Undefined}
  BY ConstantsAssumption DEF ConstantsAssumption
<1>2. row.label \in Labels /\ row.rights \in Rights /\ row.enabled \in {"yes", "no"}
  BY DEF Row
<1>3. /\ Given(body.label, row.label) \in Labels
      /\ Given(RightsOf(body), row.rights) \in Rights
      /\ Given(body.enabled, row.enabled) \in {"yes", "no"}
  BY <1>1, <1>2, ConstantsAssumption DEF Given, RightsOf, ConstantsAssumption
<1>4. Updated(row, body) \in Row
  <2>1. [row EXCEPT !.label = Given(body.label, @)] \in Row
    BY <1>3, SetColumn, Zenon
  <2>2. [row EXCEPT !.label = Given(body.label, @)].rights = row.rights
    BY DEF Row
  <2>3. [row EXCEPT !.label = Given(body.label, @), !.rights = Given(RightsOf(body), @)] \in Row
    BY <1>3, <2>1, <2>2, SetColumn, Zenon
  <2>4. [row EXCEPT !.label = Given(body.label, @), !.rights = Given(RightsOf(body), @)].enabled
          = row.enabled
    BY DEF Row
  <2> QED BY <1>3, <2>3, <2>4, SetColumn, Zenon DEF Updated
<1>5. Kept(row, Updated(row, body)) BY DEF Kept, Updated, Row
<1>6. SameHealth(row, Updated(row, body)) BY DEF SameHealth, Updated, Row
<1>7. Updated(row, body).cipher = row.cipher BY DEF Updated, Row
<1> QED BY <1>4, <1>5, <1>6, <1>7

\* So does a soft delete.
LEMMA DeletedOK ==
  ASSUME NEW row \in Row
  PROVE  /\ Deleted(row) \in Row
         /\ Kept(row, Deleted(row))
         /\ SameHealth(row, Deleted(row))
         /\ Deleted(row).cipher = row.cipher
BY DEF Kept, SameHealth, Deleted, Row

\* A good connection test keeps slot and credentials and clears the count.
LEMMA ConnectedOK ==
  ASSUME NEW row \in Entity
  PROVE  /\ Connected(row) \in Entity
         /\ Kept(row, Connected(row))
         /\ Connected(row).fails = 0
         /\ Connected(row).cipher = row.cipher
<1>1. [row EXCEPT !.conn = "connected"] \in Entity BY SetProperty, Zenon
<1>2. Connected(row) \in Entity BY <1>1, SetProperty, Zenon DEF Connected
<1>3. Kept(row, Connected(row)) BY DEF Kept, Connected, Entity
<1> QED BY <1>2, <1>3 DEF Connected, Entity

\* A bad one keeps slot and credentials.
LEMMA FailedOK ==
  ASSUME NEW row \in Entity
  PROVE  /\ Failed(row) \in Entity
         /\ Kept(row, Failed(row))
         /\ Failed(row).conn = "error" /\ Failed(row).fails = row.fails + 1
         /\ Failed(row).cipher = row.cipher
<1>1. [row EXCEPT !.conn = "error"] \in Entity BY SetProperty, Zenon
<1>2. [row EXCEPT !.conn = "error"].fails = row.fails /\ row.fails + 1 \in Nat BY DEF Entity
<1>3. Failed(row) \in Entity BY <1>1, <1>2, SetProperty, Zenon DEF Failed
<1>4. Kept(row, Failed(row)) BY DEF Kept, Failed, Entity
<1> QED BY <1>3, <1>4 DEF Failed, Entity

\* Each column save() stores is the entity's or the row's, and defined.
LEMMA MergeOK ==
  ASSUME NEW row \in Row, NEW entity \in Entity, NEW cols,
         \A c \in cols : entity[c] # Undefined
  PROVE  /\ Merge(row, entity, cols) \in Row
         /\ Kept(row, Merge(row, entity, cols))
         /\ Merge(row, entity, cols).cipher \in {row.cipher, entity.cipher}
         /\ Merge(row, entity, cols).conn \in {row.conn, entity.conn}
         /\ Merge(row, entity, cols).fails \in {row.fails, entity.fails}
<1> DEFINE m == Merge(row, entity, cols)
<1>1. /\ m.user \in Users /\ m.type \in NormalizedTypes /\ m.env \in Envs
      /\ m.hash \in Keys /\ m.cipher \in Ciphers
  BY DEF Merge, Row, Entity
<1>2. m.label \in Labels /\ m.rights \in Rights
  <2>1. /\ entity.label \in Labels \cup {Undefined} /\ entity.rights \in Rights \cup {Undefined}
        /\ row.label \in Labels /\ row.rights \in Rights
    BY DEF Row, Entity
  <2>2. /\ "label" \in cols => entity.label # Undefined
        /\ "rights" \in cols => entity.rights # Undefined
    OBVIOUS
  <2> QED BY <2>1, <2>2 DEF Merge
<1>3. /\ m.enabled \in {"yes", "no"} /\ m.deletedAt \in {"null", "set"}
      /\ m.conn \in {"disconnected", "connected", "error"} /\ m.fails \in Nat
  BY DEF Merge, Row, Entity
<1>4. m = [user |-> m.user, type |-> m.type, env |-> m.env, hash |-> m.hash,
           cipher |-> m.cipher, label |-> m.label, rights |-> m.rights,
           enabled |-> m.enabled, deletedAt |-> m.deletedAt, conn |-> m.conn,
           fails |-> m.fails]
  BY DEF Merge
<1>5. m \in Row
  <2> HIDE DEF m
  <2> QED BY <1>1, <1>2, <1>3, <1>4 DEF Row
<1> QED BY <1>5 DEF Merge, Kept

-----------------------------------------------------------------------------
(* The inductive invariant *)

\* The variables of the handlers are functions.
Domains ==
  /\ pc \in [Handlers -> Places]
  /\ req \in [Handlers -> Requests \cup {Undefined}]
  /\ target \in [Handlers -> Nat]
  /\ held \in [Handlers -> Entity \cup {Undefined}]
  /\ dirty \in [Handlers -> SUBSET Columns]
  /\ outcome \in [Handlers -> Outcomes]
  /\ attempt \in [Handlers -> Nat]

\* What `row` says of its health, if stored under `id`, has evidence.
Supported(id, row) ==
  /\ maxAttempts > 0 /\ row.conn = "connected" => id \in answered
  /\ row.fails <= caught[id]

LogOK ==
  /\ answered \subseteq 1..Len(accounts)
  /\ caught \in Seq(Nat) /\ Len(caught) = Len(accounts)

\* The key in a row is its owner's, and its status has evidence.
Sound(id) == accounts[id].cipher.owner = accounts[id].user /\ Supported(id, accounts[id])

Table ==
  /\ accounts \in Seq(Row) /\ LogOK
  /\ \A id \in 1..Len(accounts) : Sound(id)

Creating == {"findLive", "findDeleted", "insert"}
Holding == {"probe", "load", "write"}

Holds(p) ==
  /\ req[p] \in Requests
  /\ target[p] \in 1..Len(accounts)
  /\ held[p] \in Entity
  /\ \A c \in dirty[p] : held[p][c] # Undefined
  /\ accounts[target[p]].user = req[p].user
  /\ held[p].user = req[p].user
  /\ held[p].cipher.owner = req[p].user
  /\ Supported(target[p], held[p])

HandlerInv(p) ==
  /\ attempt[p] \in 1..(maxAttempts + 1)
  /\ maxAttempts > 0 => attempt[p] <= maxAttempts
  /\ pc[p] \in Creating => req[p] \in CreateRequest
  /\ pc[p] = "find" => req[p] \in UpdateRequests \cup IdRequests
  /\ pc[p] \notin Holding => target[p] = 0 /\ dirty[p] = {}
  /\ pc[p] \in Holding => Holds(p)

Counters ==
  /\ maxAttempts \in RetryCounts /\ overtaken \in [Handlers -> BOOLEAN]
  /\ creates \in 0..MaxCreates /\ tests \in 0..MaxTests /\ faults \in 0..MaxFaults

Inv ==
  /\ Domains /\ Table /\ Counters
  /\ \A p \in Handlers : HandlerInv(p)

\* Evidence is never lost.
LogGrows ==
  /\ answered \subseteq answered'
  /\ \A id \in 1..Len(accounts) :
       caught[id] \in Nat /\ caught'[id] \in Nat /\ caught[id] <= caught'[id]
  /\ maxAttempts' = maxAttempts

\* Rows stay with their users and evidence is never lost.
Grows ==
  /\ Len(accounts) <= Len(accounts')
  /\ \A id \in 1..Len(accounts) : accounts'[id].user = accounts[id].user
  /\ LogGrows

-----------------------------------------------------------------------------
(* Steps of the table *)

\* What has evidence keeps it.
LEMMA StillSupported ==
  ASSUME LogGrows, NEW id \in 1..Len(accounts), NEW row, row.fails \in Nat, Supported(id, row)
  PROVE  Supported(id, row)'
BY DEF LogGrows, Supported

\* Inserting a row that was never tested.
LEMMA AppendStep ==
  ASSUME Table, NEW row \in Row, row.cipher.owner = row.user,
         row.conn = "disconnected", row.fails = 0,
         accounts' = Append(accounts, row), caught' = Append(caught, 0),
         answered' = answered, maxAttempts' = maxAttempts
  PROVE  Table' /\ Grows
<1>1. PICK n \in Nat : n = Len(accounts) BY DEF Table
<1>2. accounts' \in Seq(Row) /\ Len(accounts') = n + 1 BY <1>1 DEF Table
<1>3. ASSUME NEW id \in 1..n PROVE accounts'[id] = accounts[id] /\ accounts[id].fails \in Nat
  <2>1. accounts'[id] = accounts[id] /\ accounts[id] \in Row BY <1>1 DEF Table
  <2> QED BY <2>1 DEF Row
<1>4. accounts'[n + 1] = row
  BY <1>1 DEF Table
<1>5. /\ caught' \in Seq(Nat) /\ Len(caught') = n + 1 /\ caught'[n + 1] = 0
      /\ \A id \in 1..n : caught'[id] = caught[id] /\ caught[id] \in Nat
  BY <1>1 DEF Table, LogOK
<1>6. LogGrows BY <1>1, <1>5 DEF LogGrows
<1>7. Grows BY <1>1, <1>2, <1>3, <1>6 DEF Grows
<1>8. LogOK' BY <1>1, <1>2, <1>5 DEF LogOK, Table
<1>9. ASSUME NEW id \in 1..n PROVE Sound(id)'
  <2>1. accounts[id].cipher.owner = accounts[id].user /\ Supported(id, accounts[id])
    BY <1>1 DEF Table, Sound
  <2>2. PICK old : old = accounts[id] OBVIOUS
  <2>3. Supported(id, old)' BY <1>1, <1>3, <1>6, <2>1, <2>2, StillSupported
  <2>4. accounts'[id] = old BY <1>3, <2>2
  <2> QED BY <2>1, <2>2, <2>3, <2>4 DEF Sound, Supported
<1>10. PICK new \in Nat : new = n + 1 OBVIOUS
<1>11. Sound(new)'
  <2>1. PICK last \in Row : last = row OBVIOUS
  <2>2. accounts'[new] = last /\ caught'[new] = 0 BY <1>4, <1>5, <1>10, <2>1
  <2>3. last.fails <= 0 BY <2>1
  <2> QED BY <2>1, <2>2, <2>3 DEF Sound, Supported
<1>12. \A id \in 1..(n + 1) : Sound(id)'
  BY <1>9, <1>10, <1>11
<1> QED BY <1>2, <1>7, <1>8, <1>12 DEF Table

\* What a step does to the history of the tests.
Logs ==
  /\ answered \subseteq answered' /\ answered' \subseteq 1..Len(accounts)
  /\ caught' \in Seq(Nat) /\ Len(caught') = Len(accounts)
  /\ \A id \in 1..Len(accounts) : caught[id] <= caught'[id]
  /\ maxAttempts' = maxAttempts

\* It leaves out no evidence.
LEMMA LogsGrow ==
  ASSUME Table, Logs
  PROVE  LogGrows
BY DEF Table, LogOK, Logs, LogGrows

\* Storing a row over one of the same user.
LEMMA StoreStep ==
  ASSUME Table, NEW id \in 1..Len(accounts), NEW row \in Row,
         Kept(accounts[id], row), row.cipher.owner = row.user, Supported(id, row),
         accounts' = [accounts EXCEPT ![id] = row], Logs
  PROVE  Table' /\ Grows
<1> DEFINE n == Len(accounts)
<1>1. n \in Nat /\ accounts' \in Seq(Row) /\ Len(accounts') = n
  BY ExceptSeq DEF Table
<1>2. \A i \in 1..n : accounts'[i] = IF i = id THEN row ELSE accounts[i]
  BY DEF Table
<1>3. ASSUME NEW i \in 1..n PROVE Kept(accounts[i], accounts'[i])
  <2>1. CASE i = id BY <1>2, <2>1
  <2>2. CASE i # id BY <1>2, <2>2 DEF Kept
  <2> QED BY <2>1, <2>2
<1>4. LogGrows BY LogsGrow
<1>5. Grows BY <1>1, <1>3, <1>4 DEF Grows, Kept
<1>6. LogOK' BY <1>1 DEF Logs, LogOK
<1>7. ASSUME NEW i \in 1..n
      PROVE  Sound(i)'
  <2>1. PICK new : new = accounts'[i] OBVIOUS
  <2>2. Supported(i, new) /\ new.cipher.owner = new.user /\ new.fails \in Nat
    <3>1. CASE i = id BY <1>2, <2>1, <3>1 DEF Row
    <3>2. CASE i # id
      <4>1. new = accounts[i] /\ new \in Row BY <1>2, <2>1, <3>2 DEF Table
      <4> QED BY <4>1 DEF Table, Sound, Row
    <3> QED BY <3>1, <3>2
  <2>3. Supported(i, new)' BY <1>4, <2>2, StillSupported
  <2> QED BY <2>1, <2>2, <2>3 DEF Sound, Supported
<1> QED BY <1>1, <1>5, <1>6, <1>7 DEF Table

\* Leaving the rows alone.
LEMMA KeepStep ==
  ASSUME Table, accounts' = accounts, Logs
  PROVE  Table' /\ Grows
<1>1. Len(accounts) \in Nat BY DEF Table
<1>2. LogGrows BY LogsGrow
<1>3. Grows BY <1>1, <1>2 DEF Grows
<1>4. LogOK' BY DEF Logs, LogOK
<1>5. ASSUME NEW i \in 1..Len(accounts)
      PROVE  Sound(i)'
  <2>1. PICK row \in Row : row = accounts[i] BY DEF Table
  <2>2. Supported(i, row) /\ row.fails \in Nat BY <2>1 DEF Table, Sound, Row
  <2>3. Supported(i, row)' BY <1>2, <2>2, StillSupported
  <2> QED BY <2>1, <2>3 DEF Supported, Sound, Table
<1> QED BY <1>3, <1>4, <1>5 DEF Table

\* A step that does not touch the history.
LEMMA LogsKeep ==
  ASSUME Table, UNCHANGED <<answered, caught, maxAttempts>>
  PROVE  Logs
BY DEF Table, LogOK, Logs

\* A test of row `id` that ends in the catch block.
LEMMA LogsCaught ==
  ASSUME Table, NEW id \in 1..Len(accounts), caught' = [caught EXCEPT ![id] = @ + 1],
         UNCHANGED <<answered, maxAttempts>>
  PROVE  Logs /\ caught'[id] = caught[id] + 1
<1>1. caught[id] + 1 \in Nat /\ \A i \in 1..Len(accounts) : caught[i] \in Nat
  BY DEF Table, LogOK
<1>2. caught' \in Seq(Nat) /\ Len(caught') = Len(accounts)
  BY <1>1, ExceptSeq DEF Table, LogOK
<1>3. \A i \in 1..Len(accounts) : caught'[i] = IF i = id THEN caught[id] + 1 ELSE caught[i]
  BY DEF Table, LogOK
<1> QED BY <1>1, <1>2, <1>3 DEF Logs, Table, LogOK

-----------------------------------------------------------------------------
(* Steps of a handler *)

HandlersOK == Domains /\ \A q \in Handlers : HandlerInv(q)

\* The table has a length before and after a step.
Grown == Grows /\ Len(accounts) \in Nat /\ Len(accounts') \in Nat

\* A retry count is a natural number.
LEMMA Bounds == maxAttempts \in RetryCounts => maxAttempts \in Nat
BY ConstantsAssumption DEF ConstantsAssumption

\* What a handler holds stays good whatever happens to the table.
LEMMA HoldsOn ==
  ASSUME NEW q \in Handlers, Holds(q), Grown,
         req'[q] = req[q], target'[q] = target[q], held'[q] = held[q],
         \A c \in dirty'[q] : held[q][c] # Undefined
  PROVE  Holds(q)'
<1>1. PICK id \in 1..Len(accounts), entity \in Entity : id = target[q] /\ entity = held[q]
  BY DEF Holds
<1>2. id \in 1..Len(accounts') /\ accounts'[id].user = accounts[id].user
  BY DEF Grown, Grows
<1>3. Supported(id, entity) /\ entity.fails \in Nat BY <1>1 DEF Holds, Entity
<1>4. Supported(id, entity)' BY <1>3, StillSupported DEF Grown, Grows
<1>5. target'[q] = id /\ held'[q] = entity BY <1>1
<1>6. Supported(target[q], held[q])' BY <1>4, <1>5 DEF Supported
<1> QED BY <1>1, <1>2, <1>5, <1>6 DEF Holds

\* A handler that takes no step is none the worse for what happens to the table.
LEMMA OtherHandler ==
  ASSUME NEW q \in Handlers, HandlerInv(q), Grown,
         pc'[q] = pc[q], req'[q] = req[q], target'[q] = target[q],
         held'[q] = held[q], dirty'[q] = dirty[q], attempt'[q] = attempt[q]
  PROVE  HandlerInv(q)'
<1>1. ASSUME Holds(q) PROVE Holds(q)'
  <2>1. \A c \in dirty'[q] : held[q][c] # Undefined BY <1>1 DEF Holds
  <2> QED BY <1>1, <2>1, HoldsOn
<1>2. maxAttempts' = maxAttempts BY DEF Grown, Grows, LogGrows
<1> QED BY <1>1, <1>2 DEF HandlerInv

\* A handler that answers holds nothing.
LEMMA AnswerStep ==
  ASSUME HandlersOK, Counters, Grown,
         NEW p \in Handlers, NEW result \in Outcomes, Answer(p, result)
  PROVE  HandlersOK'
<1>1. Domains' BY DEF Answer, HandlersOK, Domains, Places
<1>2. maxAttempts' = maxAttempts /\ maxAttempts \in Nat
  BY Bounds DEF Grown, Grows, LogGrows, Counters
<1>3. HandlerInv(p)'
  BY <1>2 DEF Answer, HandlersOK, Domains, HandlerInv, Creating, Holding
<1>4. ASSUME NEW q \in Handlers, q # p PROVE HandlerInv(q)'
  BY <1>4, OtherHandler DEF Answer, HandlersOK, Domains
<1> QED BY <1>1, <1>3, <1>4 DEF HandlersOK

\* A handler that calls save() with an entity of its requester.
LEMMA SaveStep ==
  ASSUME HandlersOK, Counters, Grown,
         NEW p \in Handlers, NEW id \in 1..Len(accounts), NEW entity \in Entity,
         NEW result \in Outcomes, Save(p, id, entity, result),
         req[p] \in Requests, accounts[id].user = req[p].user,
         entity.user = req[p].user, entity.cipher.owner = req[p].user,
         Supported(id, entity)'
  PROVE  HandlersOK'
<1>1. Domains' BY DEF Save, HandlersOK, Domains, Places
<1>2. /\ pc'[p] = "load" /\ target'[p] = id /\ held'[p] = entity /\ dirty'[p] = {}
      /\ UNCHANGED <<req, attempt>>
  BY DEF Save, HandlersOK, Domains
<1>3. id \in 1..Len(accounts') /\ accounts'[id].user = accounts[id].user
      /\ maxAttempts' = maxAttempts
  BY DEF Grown, Grows, LogGrows
<1>4. Supported(target[p], held[p])' BY <1>2 DEF Supported
<1>5. Holds(p)' BY <1>2, <1>3, <1>4 DEF Holds
<1>6. HandlerInv(p)'
  BY <1>2, <1>3, <1>5 DEF HandlersOK, HandlerInv, Creating, Holding
<1>7. ASSUME NEW q \in Handlers, q # p PROVE HandlerInv(q)'
  BY <1>7, OtherHandler DEF Save, HandlersOK, Domains
<1> QED BY <1>1, <1>6, <1>7 DEF HandlersOK

\* The requests that begin with a lookup by id.
LEMMA FindRequest ==
  ASSUME NEW r \in UpdateRequests \cup IdRequests
  PROVE  /\ r \in Requests /\ r.id \in Nat
         /\ r.op = "update" => r.body \in UpdateBodies
BY ConstantsAssumption DEF ConstantsAssumption, Requests, UpdateRequests, IdRequests, Ids

\* The catch block of a connection test: the row's count of caught tests keeps up with
\* the entity's count of failures.
LEMMA CatchStep ==
  ASSUME HandlersOK, Counters, Table, Grown,
         NEW p \in Handlers, pc[p] \in Holding, Catch(p),
         UNCHANGED <<answered, maxAttempts>>
  PROVE  HandlersOK'
<1>1. Holds(p) BY DEF HandlersOK, HandlerInv
<1>2. PICK id \in 1..Len(accounts) : id = target[p] BY <1>1 DEF Holds
<1>3. Failed(held[p]) \in Entity BY <1>1, FailedOK DEF Holds
<1>4. PICK row \in Entity : row = Failed(held[p]) BY <1>3, Zenon
<1>5. /\ row.conn = "error" /\ row.fails = held[p].fails + 1
      /\ row.user = req[p].user /\ row.cipher.owner = req[p].user
  BY <1>1, <1>4, FailedOK DEF Holds, Kept
<1>6. caught' = [caught EXCEPT ![id] = @ + 1] BY <1>2 DEF Catch
<1>7. caught'[id] = caught[id] + 1 BY <1>6, LogsCaught
<1>8. held[p].fails <= caught[id] /\ caught[id] \in Nat /\ held[p].fails \in Nat
  BY <1>1, <1>2 DEF Holds, Supported, Table, LogOK, Entity
<1>9. Supported(id, row)' BY <1>5, <1>7, <1>8 DEF Supported
<1>10. Save(p, id, row, "failed") BY <1>2, <1>4 DEF Catch
<1> QED BY <1>1, <1>2, <1>5, <1>9, <1>10, SaveStep DEF Holds, Outcomes

\* A save() that throws.
LEMMA SaveThrowsStep ==
  ASSUME HandlersOK, Counters, Table, Grown,
         NEW p \in Handlers, pc[p] \in Holding, SaveThrows(p),
         UNCHANGED <<answered, maxAttempts>>
  PROVE  HandlersOK'
<1>1. CASE outcome[p] = "connected" BY <1>1, CatchStep DEF SaveThrows
<1>2. CASE outcome[p] # "connected" BY <1>2, AnswerStep DEF SaveThrows, Outcomes
<1> QED BY <1>1, <1>2

\* It leaves the history in order.
LEMMA SaveThrowsLogs ==
  ASSUME HandlersOK, Table, NEW p \in Handlers, pc[p] \in Holding,
         Catch(p) \/ SaveThrows(p), UNCHANGED <<answered, maxAttempts>>
  PROVE  Logs
<1>1. PICK id \in 1..Len(accounts) : id = target[p] BY DEF HandlersOK, HandlerInv, Holds
<1>2. CASE Catch(p)
  <2>1. caught' = [caught EXCEPT ![id] = @ + 1] BY <1>1, <1>2 DEF Catch
  <2> QED BY <2>1, LogsCaught
<1>3. CASE UNCHANGED caught BY <1>3, LogsKeep
<1> QED BY <1>2, <1>3 DEF SaveThrows

\* A request arrives.
LEMMA ReceiveStep ==
  ASSUME HandlersOK, Counters, Grown,
         NEW p \in Handlers, NEW r, NEW first, Receive(p, r, first),
         \/ first = "findLive" /\ r \in CreateRequest
         \/ first = "find" /\ r \in UpdateRequests \cup IdRequests
  PROVE  HandlersOK'
<1>1. r \in Requests BY FindRequest DEF Requests, CreateRequest
<1>2. Domains' BY <1>1 DEF Receive, HandlersOK, Domains, Places, Outcomes
<1>3. HandlerInv(p)'
  BY DEF Receive, HandlersOK, Domains, HandlerInv, Creating, Holding
<1>4. ASSUME NEW q \in Handlers, q # p PROVE HandlerInv(q)'
  BY <1>4, OtherHandler DEF Receive, HandlersOK, Domains
<1> QED BY <1>2, <1>3, <1>4 DEF HandlersOK

\* createCexAccount moves on.
LEMMA MoveStep ==
  ASSUME HandlersOK, Counters, Grown,
         NEW p \in Handlers, NEW place \in Creating,
         pc[p] \in Creating, pc' = [pc EXCEPT ![p] = place],
         UNCHANGED <<req, target, held, dirty, outcome, attempt>>
  PROVE  HandlersOK'
<1>1. Domains' BY DEF HandlersOK, Domains, Places, Creating
<1>2. maxAttempts' = maxAttempts BY DEF Grown, Grows, LogGrows
<1>3. HandlerInv(p)'
  BY <1>2 DEF HandlersOK, Domains, HandlerInv, Creating, Holding
<1>4. ASSUME NEW q \in Handlers, q # p PROVE HandlerInv(q)'
  BY <1>4, OtherHandler DEF HandlersOK, Domains
<1> QED BY <1>1, <1>3, <1>4 DEF HandlersOK

\* A handler goes on holding its entity.
LEMMA HoldStep ==
  ASSUME HandlersOK, Counters, Grown,
         NEW p \in Handlers, NEW place \in Holding, NEW count \in 1..(maxAttempts + 1),
         NEW cols \in SUBSET Columns,
         pc[p] \in Holding, pc' = [pc EXCEPT ![p] = place],
         attempt' = [attempt EXCEPT ![p] = count], maxAttempts > 0 => count <= maxAttempts,
         dirty' = [dirty EXCEPT ![p] = cols], \A c \in cols : held[p][c] # Undefined,
         UNCHANGED <<req, target, held, outcome>>
  PROVE  HandlersOK'
<1>1. maxAttempts' = maxAttempts /\ maxAttempts \in Nat
  BY Bounds DEF Grown, Grows, LogGrows, Counters
<1>2. Domains' BY <1>1 DEF HandlersOK, Domains, Places, Holding
<1>3. Holds(p)'
  <2>1. Holds(p) BY DEF HandlersOK, HandlerInv
  <2> QED BY <2>1, HoldsOn DEF HandlersOK, Domains
<1>4. pc'[p] = place /\ attempt'[p] = count BY DEF HandlersOK, Domains
<1>5. HandlerInv(p)'
  BY <1>1, <1>3, <1>4 DEF HandlerInv, Creating, Holding
<1>6. ASSUME NEW q \in Handlers, q # p PROVE HandlerInv(q)'
  BY <1>6, OtherHandler DEF HandlersOK, Domains
<1> QED BY <1>2, <1>5, <1>6 DEF HandlersOK

\* No handler moves.
LEMMA Stutter ==
  ASSUME HandlersOK, Grown, UNCHANGED handler
  PROVE  HandlersOK'
<1>1. \A q \in Handlers : HandlerInv(q)' BY OtherHandler DEF HandlersOK, handler
<1> QED BY <1>1 DEF HandlersOK, Domains, handler

\* The invariant holds at first.
LEMMA InvInit == Init => Inv
<1> SUFFICES ASSUME Init PROVE Inv OBVIOUS
<1>1. maxAttempts \in Nat BY Bounds DEF Init
<1>2. Domains BY DEF Init, Domains, Places, Outcomes
<1>3. Table BY DEF Init, Table, LogOK
<1>4. Counters BY ConstantsAssumption DEF Init, Counters, ConstantsAssumption
<1>5. ASSUME NEW p \in Handlers PROVE HandlerInv(p)
  BY <1>1 DEF Init, HandlerInv, Creating, Holding
<1> QED BY <1>2, <1>3, <1>4, <1>5 DEF Inv

\* What Write stores is a row of the same owner, and has its evidence.
LEMMA StoredOK ==
  ASSUME Table, HandlersOK, NEW p \in Handlers, pc[p] \in Holding
  PROVE  /\ Stored(p) \in Row
         /\ Kept(accounts[target[p]], Stored(p))
         /\ Stored(p).cipher.owner = Stored(p).user
         /\ Supported(target[p], Stored(p))
<1>1. Holds(p) BY DEF HandlersOK, HandlerInv
<1>2. accounts[target[p]] \in Row /\ Sound(target[p]) BY <1>1 DEF Table, Holds
<1>3. /\ Stored(p) \in Row
      /\ Kept(accounts[target[p]], Stored(p))
      /\ Stored(p).cipher \in {accounts[target[p]].cipher, held[p].cipher}
      /\ Stored(p).conn \in {accounts[target[p]].conn, held[p].conn}
      /\ Stored(p).fails \in {accounts[target[p]].fails, held[p].fails}
  BY <1>1, <1>2, MergeOK DEF Stored, Holds
<1>4. Stored(p).cipher.owner = Stored(p).user
  BY <1>1, <1>2, <1>3 DEF Sound, Holds, Kept
<1>5. Supported(target[p], Stored(p))
  BY <1>1, <1>2, <1>3 DEF Sound, Holds, Supported
<1> QED BY <1>3, <1>4, <1>5

\* Write stores it.
LEMMA StoreTarget ==
  ASSUME Table, HandlersOK, NEW p \in Handlers, pc[p] \in Holding,
         accounts' = [accounts EXCEPT ![target[p]] = Stored(p)], Logs
  PROVE  Table' /\ Grows
<1>1. PICK id \in 1..Len(accounts) : id = target[p]
  BY DEF HandlersOK, HandlerInv, Holds
<1>2. Stored(p) \in Row BY StoredOK
<1>3. PICK row \in Row : row = Stored(p) BY <1>2, Zenon
<1>4. /\ Kept(accounts[id], row) /\ row.cipher.owner = row.user /\ Supported(id, row)
  BY <1>1, <1>3, StoredOK
<1> QED BY <1>1, <1>3, <1>4, StoreStep

\* createCexAccount inserts.
LEMMA InsertRow ==
  ASSUME Table, HandlersOK, NEW p \in Handlers, pc[p] = "insert",
         Insertable(req[p]), accounts' = Append(accounts, NewAccount(req[p])),
         caught' = Append(caught, 0), UNCHANGED <<answered, maxAttempts>>
  PROVE  Table' /\ Grows
<1>1. req[p] \in CreateRequest BY DEF HandlersOK, HandlerInv, Creating
<1>2. NewAccount(req[p]) \in Row BY <1>1, NewOK
<1>3. PICK row \in Row : row = NewAccount(req[p]) BY <1>2, Zenon
<1>4. row.cipher.owner = row.user /\ row.conn = "disconnected" /\ row.fails = 0
  BY <1>1, <1>3, NewOK
<1> QED BY <1>3, <1>4, AppendStep

\* What another request stored can be no reason to forget who was overtaken.
LEMMA OvertakeOK ==
  ASSUME Counters, NEW p \in Handlers, Overtake(p)
  PROVE  overtaken' \in [Handlers -> BOOLEAN]
<1>1. \A q \in Handlers :
        (IF q = p THEN overtaken[q] /\ pc'[q] # "idle"
         ELSE overtaken[q] \/ (accounts' # accounts /\ target[q] = target[p] /\ Behind(q)))
          \in BOOLEAN
  BY Zenon
<1> QED BY <1>1, Zenon DEF Overtake

-----------------------------------------------------------------------------
(* Every step keeps the invariant *)

\* The invariant is about the table, the handlers and the counters.
LEMMA InvParts == Inv <=> Table /\ HandlersOK /\ Counters
BY DEF Inv, HandlersOK

\* The table has a length.
LEMMA TableLen == Table => Len(accounts) \in Nat
BY DEF Table

\* Tables before and after a step.
LEMMA GrownTable ==
  ASSUME Table, Table', Grows
  PROVE  Grown
BY DEF Table, Grown

\* The setting of a step that leaves the table alone.
LEMMA Quiet ==
  ASSUME Inv, accounts' = accounts, Logs
  PROVE  HandlersOK /\ Counters /\ Table /\ Table' /\ Grown
BY InvParts, GrownTable, KeepStep

\* The setting of a step that leaves the history alone as well.
LEMMA Silent ==
  ASSUME Inv, UNCHANGED <<db, maxAttempts>>
  PROVE  HandlersOK /\ Counters /\ Table /\ Table' /\ Grown
<1>1. Logs BY InvParts, LogsKeep DEF db
<1> QED BY <1>1, Quiet DEF db

\* The steps of createCexAccount.
LEMMA CreateStep ==
  ASSUME Inv, NEW p \in Handlers, FindLive(p) \/ FindDeleted(p) \/ Insert(p)
  PROVE  Inv'
<1>1. CASE FindLive(p)
  <2>1. HandlersOK /\ Counters /\ Table /\ Table' /\ Grown
    BY <1>1, Silent DEF FindLive, counters
  <2>2. ASSUME Answer(p, "conflict") PROVE HandlersOK'
    BY <2>1, <2>2, AnswerStep DEF Outcomes
  <2>3. ASSUME pc' = [pc EXCEPT ![p] = "findDeleted"],
               UNCHANGED <<req, target, held, dirty, outcome, attempt>>
        PROVE HandlersOK'
    BY <1>1, <2>1, <2>3, MoveStep DEF FindLive, Creating
  <2>4. HandlersOK' BY <1>1, <2>2, <2>3 DEF FindLive
  <2>5. Counters' BY <1>1, <2>1 DEF FindLive, Counters, counters, db
  <2> QED BY <2>1, <2>4, <2>5 DEF Inv, HandlersOK
<1>2. CASE FindDeleted(p)
  <2>1. HandlersOK /\ Counters /\ Table /\ Table' /\ Grown
    BY <1>2, Silent DEF FindDeleted, counters
  <2>2. req[p] \in CreateRequest
    BY <1>2, <2>1 DEF FindDeleted, HandlersOK, HandlerInv, Creating
  <2>3. ASSUME NEW id \in DeletedInSlot(req[p]),
               Save(p, id, Restored(accounts[id], req[p]), "restored")
        PROVE HandlersOK'
    <3>1. /\ id \in 1..Len(accounts) /\ accounts[id] \in Row
          /\ accounts[id].user = req[p].user /\ Supported(id, accounts[id])
      BY <2>1 DEF DeletedInSlot, SameSlot, Table, Sound
    <3>2. Restored(accounts[id], req[p]) \in Entity BY <2>2, <3>1, RestoredOK
    <3>3. PICK row \in Entity : row = Restored(accounts[id], req[p]) BY <3>2, Zenon
    <3>4. /\ row.user = req[p].user /\ row.cipher.owner = req[p].user
          /\ SameHealth(accounts[id], row)
      BY <2>2, <3>1, <3>3, RestoredOK DEF Kept
    <3>5. Supported(id, row) /\ row.fails \in Nat
      BY <3>1, <3>4 DEF SameHealth, Supported, Row
    <3>6. Supported(id, row)' BY <2>1, <3>1, <3>5, StillSupported DEF Grown, Grows
    <3>7. Save(p, id, row, "restored") BY <2>3, <3>3
    <3>8. req[p] \in Requests BY <2>2 DEF Requests, CreateRequest
    <3> QED BY <2>1, <3>1, <3>4, <3>6, <3>7, <3>8, SaveStep DEF Outcomes
  <2>4. ASSUME pc' = [pc EXCEPT ![p] = "insert"],
               UNCHANGED <<req, target, held, dirty, outcome, attempt>>
        PROVE HandlersOK'
    BY <1>2, <2>1, <2>4, MoveStep DEF FindDeleted, Creating
  <2>5. HandlersOK' BY <1>2, <2>3, <2>4 DEF FindDeleted
  <2>6. Counters' BY <1>2, <2>1 DEF FindDeleted, Counters, counters, db
  <2> QED BY <2>1, <2>5, <2>6 DEF Inv, HandlersOK
<1>3. CASE Insert(p)
  <2>1. Table /\ HandlersOK /\ Counters BY InvParts
  <2>2. CASE Insertable(req[p])
    <3>1. /\ accounts' = Append(accounts, NewAccount(req[p])) /\ caught' = Append(caught, 0)
          /\ Answer(p, "created") /\ pc[p] = "insert"
          /\ UNCHANGED <<overtaken, answered, counters>>
      BY <1>3, <2>2 DEF Insert
    <3>2. Table' /\ Grown BY <2>1, <2>2, <3>1, InsertRow, GrownTable DEF counters
    <3>3. HandlersOK' BY <2>1, <3>1, <3>2, AnswerStep DEF Outcomes
    <3>4. Counters' BY <2>1, <3>1 DEF Counters, counters
    <3> QED BY <3>2, <3>3, <3>4 DEF Inv, HandlersOK
  <2>3. CASE ~Insertable(req[p])
    <3>1. Answer(p, "dbError") /\ UNCHANGED <<db, counters>>
      BY <1>3, <2>3 DEF Insert, db
    <3>2. Table' /\ Grown BY <3>1, Silent DEF counters
    <3>3. HandlersOK' BY <2>1, <3>1, <3>2, AnswerStep DEF Outcomes
    <3>4. Counters' BY <2>1, <3>1 DEF Counters, counters, db
    <3> QED BY <3>2, <3>3, <3>4 DEF Inv, HandlersOK
  <2> QED BY <2>2, <2>3
<1> QED BY <1>1, <1>2, <1>3

\* The lookup of update, delete and test.
LEMMA FindStep ==
  ASSUME Inv, NEW p \in Handlers, Find(p)
  PROVE  Inv'
<1>1. HandlersOK /\ Counters /\ Table /\ Table' /\ Grown
  BY Silent DEF Find, counters
<1>2. Counters' BY <1>1 DEF Find, Counters, counters, db
<1>3. pc[p] = "find" /\ req[p] \in UpdateRequests \cup IdRequests
  BY <1>1 DEF Find, HandlersOK, HandlerInv
<1>4. PICK id \in Nat : id = req[p].id BY <1>3, FindRequest
<1>5. ASSUME ~Found(req[p]), Answer(p, "notFound") PROVE HandlersOK'
  BY <1>1, <1>5, AnswerStep DEF Outcomes
<1>6. ASSUME Found(req[p])
      PROVE  /\ id \in 1..Len(accounts) /\ accounts[id] \in Row
             /\ accounts[id].user = req[p].user /\ accounts[id].cipher.owner = req[p].user
             /\ Supported(id, accounts[id])
  BY <1>1, <1>4, <1>6 DEF Found, Table, Sound
<1>7. ASSUME Found(req[p]), NEW row \in Row, SameHealth(accounts[id], row)
      PROVE  row \in Entity /\ Supported(id, row)'
  <2>1. Supported(id, row) /\ row.fails \in Nat BY <1>6, <1>7 DEF SameHealth, Supported, Row
  <2> QED BY <1>1, <1>6, <1>7, <2>1, StillSupported, RowIsEntity DEF Grown, Grows
<1>8. ASSUME Found(req[p]), req[p].op = "update",
             Save(p, req[p].id, Updated(accounts[req[p].id], req[p].body), "updated")
      PROVE HandlersOK'
  <2>1. req[p].body \in UpdateBodies BY <1>3, <1>8, FindRequest
  <2>2. Updated(accounts[id], req[p].body) \in Row BY <1>6, <1>8, <2>1, UpdatedOK
  <2>3. PICK row \in Row : row = Updated(accounts[id], req[p].body) BY <2>2, Zenon
  <2>4. /\ row.user = req[p].user /\ row.cipher.owner = req[p].user
        /\ SameHealth(accounts[id], row)
    BY <1>6, <1>8, <2>1, <2>3, UpdatedOK DEF Kept
  <2>5. Save(p, id, row, "updated") BY <1>4, <1>8, <2>3
  <2> QED BY <1>1, <1>3, <1>6, <1>7, <1>8, <2>4, <2>5, FindRequest, SaveStep DEF Outcomes
<1>9. ASSUME Found(req[p]), Save(p, req[p].id, Deleted(accounts[req[p].id]), "deleted")
      PROVE HandlersOK'
  <2>1. Deleted(accounts[id]) \in Row BY <1>6, <1>9, DeletedOK
  <2>2. PICK row \in Row : row = Deleted(accounts[id]) BY <2>1, Zenon
  <2>3. /\ row.user = req[p].user /\ row.cipher.owner = req[p].user
        /\ SameHealth(accounts[id], row)
    BY <1>6, <1>9, <2>2, DeletedOK DEF Kept
  <2>4. Save(p, id, row, "deleted") BY <1>4, <1>9, <2>2
  <2> QED BY <1>1, <1>3, <1>6, <1>7, <1>9, <2>3, <2>4, FindRequest, SaveStep DEF Outcomes
<1>10. ASSUME Found(req[p]), pc' = [pc EXCEPT ![p] = "probe"],
             target' = [target EXCEPT ![p] = req[p].id],
             held' = [held EXCEPT ![p] = accounts[req[p].id]],
             UNCHANGED <<req, dirty, outcome, attempt>>
      PROVE HandlersOK'
  <2>1. PICK row \in Row : row = accounts[id] BY <1>6, <1>10
  <2>2. /\ pc'[p] = "probe" /\ target'[p] = id /\ held'[p] = row /\ dirty'[p] = {}
        /\ req'[p] = req[p]
    BY <1>1, <1>3, <1>4, <1>10, <2>1 DEF HandlersOK, Domains, HandlerInv, Holding
  <2>3. Domains'
    <3>1. row \in Entity BY RowIsEntity
    <3> QED BY <1>1, <1>4, <1>10, <2>1, <3>1 DEF HandlersOK, Domains, Places
  <2>4. row \in Entity /\ Supported(id, row)' BY <1>7, <1>10, <2>1 DEF SameHealth
  <2>5. Supported(target[p], held[p])' BY <2>2, <2>4 DEF Supported
  <2>6. id \in 1..Len(accounts') /\ accounts'[id].user = accounts[id].user
        /\ maxAttempts' = maxAttempts
    BY <1>1, <1>6, <1>10 DEF Grown, Grows, LogGrows
  <2>7. Holds(p)'
    BY <1>3, <1>6, <1>10, <2>1, <2>2, <2>4, <2>5, <2>6, FindRequest DEF Holds
  <2>8. HandlerInv(p)'
    BY <1>1, <1>10, <2>2, <2>6, <2>7 DEF HandlersOK, HandlerInv, Creating, Holding
  <2>9. ASSUME NEW q \in Handlers, q # p PROVE HandlerInv(q)'
    BY <1>1, <1>10, <2>9, OtherHandler DEF HandlersOK, Domains
  <2> QED BY <2>3, <2>8, <2>9 DEF HandlersOK
<1>11. HandlersOK' BY <1>5, <1>8, <1>9, <1>10 DEF Find
<1> QED BY <1>1, <1>2, <1>11 DEF Inv, HandlersOK

\* A connection test that calls save() in its success path.
LEMMA ConnectedStep ==
  ASSUME HandlersOK, Counters, Table, Grown,
         NEW p \in Handlers, pc[p] = "probe", Save(p, target[p], Connected(held[p]), "connected"),
         maxAttempts > 0 => target[p] \in answered'
  PROVE  HandlersOK'
<1>1. Holds(p) BY DEF HandlersOK, HandlerInv, Holding
<1>2. PICK id \in 1..Len(accounts) : id = target[p] BY <1>1 DEF Holds
<1>3. Connected(held[p]) \in Entity BY <1>1, ConnectedOK DEF Holds
<1>4. PICK row \in Entity : row = Connected(held[p]) BY <1>3, Zenon
<1>5. row.fails = 0 /\ row.user = req[p].user /\ row.cipher.owner = req[p].user
  BY <1>1, <1>4, ConnectedOK DEF Holds, Kept
<1>6. maxAttempts' = maxAttempts /\ caught'[id] \in Nat BY DEF Grown, Grows, LogGrows
<1>7. Supported(id, row)' BY <1>2, <1>5, <1>6 DEF Supported
<1>8. Save(p, id, row, "connected") BY <1>2, <1>4
<1> QED BY <1>1, <1>2, <1>5, <1>7, <1>8, SaveStep DEF Holds, Outcomes

\* The retry loop of testConnection.
LEMMA ProbeStep ==
  ASSUME Inv, NEW p \in Handlers,
         ProbeSucceeds(p) \/ ProbeSkipped(p) \/ ProbeFails(p) \/ ProbeImpossible(p)
  PROVE  Inv'
<1>1. accounts' = accounts /\ overtaken' = overtaken /\ pc[p] = "probe" /\ UNCHANGED counters
  BY DEF ProbeSucceeds, ProbeSkipped, ProbeFails, ProbeImpossible, db
<1>2. HandlersOK /\ Counters /\ Table BY InvParts
<1>3. Counters' BY <1>1, <1>2 DEF Counters, counters
<1>4. /\ maxAttempts \in Nat /\ attempt[p] \in 1..(maxAttempts + 1) /\ pc[p] \in Holding
      /\ (maxAttempts > 0 => attempt[p] <= maxAttempts)
  BY <1>1, <1>2, Bounds DEF HandlersOK, HandlerInv, Counters, Holding
<1>5. PICK id \in 1..Len(accounts) : id = target[p] BY <1>2, <1>4 DEF HandlersOK, HandlerInv, Holds
<1>6. CASE ProbeSucceeds(p)
  <2>1. /\ Save(p, target[p], Connected(held[p]), "connected")
        /\ answered' = answered \cup {id} /\ UNCHANGED <<caught, maxAttempts>>
    BY <1>5, <1>6 DEF ProbeSucceeds, counters
  <2>2. Logs
    <3>1. answered \subseteq answered' /\ answered' \subseteq 1..Len(accounts)
      BY <1>2, <2>1 DEF Table, LogOK
    <3>2. \A i \in 1..Len(accounts) : caught[i] <= caught'[i]
      BY <1>2, <2>1 DEF Table, LogOK
    <3> QED BY <1>2, <2>1, <3>1, <3>2 DEF Logs, Table, LogOK
  <2>3. Table' /\ Grown BY <1>1, <2>2, Quiet
  <2>4. target[p] \in answered' BY <1>5, <2>1
  <2>5. HandlersOK' BY <1>1, <1>2, <2>1, <2>3, <2>4, ConnectedStep
  <2> QED BY <1>3, <2>3, <2>5 DEF Inv, HandlersOK
<1>7. CASE ProbeSkipped(p)
  <2>1. ~(maxAttempts > 0) BY <1>4, <1>7 DEF ProbeSkipped
  <2>2. Save(p, target[p], Connected(held[p]), "connected") /\ UNCHANGED <<db, maxAttempts>>
    BY <1>7 DEF ProbeSkipped, counters
  <2>3. Table' /\ Grown BY <2>2, Silent
  <2>4. HandlersOK' BY <1>1, <1>2, <2>1, <2>2, <2>3, ConnectedStep
  <2> QED BY <1>3, <2>3, <2>4 DEF Inv, HandlersOK
<1>8. ASSUME Catch(p), UNCHANGED <<answered, maxAttempts>> PROVE Inv'
  <2>1. Logs BY <1>2, <1>4, <1>8, SaveThrowsLogs
  <2>2. Table' /\ Grown BY <1>1, <2>1, Quiet
  <2>3. HandlersOK' BY <1>2, <1>4, <1>8, <2>2, CatchStep
  <2> QED BY <1>3, <2>2, <2>3 DEF Inv, HandlersOK
<1>9. CASE ProbeFails(p)
  <2>1. CASE attempt[p] < maxAttempts
    <3>1. /\ attempt' = [attempt EXCEPT ![p] = @ + 1]
          /\ UNCHANGED <<pc, req, target, held, dirty, outcome, db, maxAttempts>>
      BY <1>9, <2>1 DEF ProbeFails, db, counters
    <3>2. Table' /\ Grown BY <3>1, Silent
    <3>3. PICK count \in 1..(maxAttempts + 1) : count = attempt[p] + 1 /\ count <= maxAttempts
      BY <1>4, <2>1
    <3>4. attempt' = [attempt EXCEPT ![p] = count] BY <3>1, <3>3
    <3>5. PICK cols \in SUBSET Columns : cols = dirty[p] BY <1>2 DEF HandlersOK, Domains
    <3>6. pc' = [pc EXCEPT ![p] = "probe"] /\ dirty' = [dirty EXCEPT ![p] = cols]
      BY <1>1, <1>2, <3>1, <3>5 DEF HandlersOK, Domains
    <3>7. \A c \in cols : held[p][c] # Undefined
      BY <1>2, <1>4, <3>5 DEF HandlersOK, HandlerInv, Holds
    <3>8. HandlersOK'
      <4>1. "probe" \in Holding /\ (maxAttempts > 0 => count <= maxAttempts)
        BY <3>3 DEF Holding
      <4>2. UNCHANGED <<req, target, held, outcome>> BY <3>1
      <4> QED BY <1>2, <1>4, <3>2, <3>4, <3>6, <3>7, <4>1, <4>2, HoldStep
    <3> QED BY <1>3, <3>2, <3>8 DEF Inv, HandlersOK
  <2>2. CASE ~(attempt[p] < maxAttempts)
    BY <1>8, <1>9, <2>2 DEF ProbeFails, counters
  <2> QED BY <2>1, <2>2
<1>10. CASE ProbeImpossible(p)
  BY <1>8, <1>10 DEF ProbeImpossible, counters
<1> QED BY <1>6, <1>7, <1>9, <1>10

\* The two statements of save().
LEMMA SavingStep ==
  ASSUME Inv, NEW p \in Handlers, Load(p) \/ Write(p)
  PROVE  Inv'
<1>1. Table /\ HandlersOK /\ Counters BY InvParts
<1>2. CASE Load(p)
  <2>1. Table' /\ Grown BY <1>2, Silent DEF Load, counters
  <2>2. /\ pc[p] \in Holding /\ pc' = [pc EXCEPT ![p] = "write"]
        /\ dirty' = [dirty EXCEPT ![p] = Differing(held[p], accounts[target[p]])]
        /\ UNCHANGED <<req, target, held, outcome, attempt>>
    BY <1>2 DEF Load, Holding
  <2>3. PICK cols \in SUBSET Columns : cols = Differing(held[p], accounts[target[p]])
    BY DEF Differing
  <2>4. \A c \in cols : held[p][c] # Undefined BY <2>3 DEF Differing
  <2>5. PICK count \in 1..(maxAttempts + 1) :
          count = attempt[p] /\ (maxAttempts > 0 => count <= maxAttempts)
    BY <1>1 DEF HandlersOK, HandlerInv
  <2>6. attempt' = [attempt EXCEPT ![p] = count] BY <1>1, <2>2, <2>5 DEF HandlersOK, Domains
  <2>7. HandlersOK'
    <3>1. "write" \in Holding BY DEF Holding
    <3>2. pc[p] \in Holding /\ pc' = [pc EXCEPT ![p] = "write"] BY <2>2
    <3>3. dirty' = [dirty EXCEPT ![p] = cols] BY <2>2, <2>3
    <3>4. UNCHANGED <<req, target, held, outcome>> BY <2>2
    <3> QED BY <1>1, <2>1, <2>4, <2>5, <2>6, <3>1, <3>2, <3>3, <3>4, HoldStep
  <2>8. Counters' BY <1>1, <1>2 DEF Load, Counters, counters, db
  <2> QED BY <2>1, <2>7, <2>8 DEF Inv, HandlersOK
<1>3. CASE Write(p)
  <2>1. pc[p] \in Holding /\ UNCHANGED <<answered, creates, tests, faults, maxAttempts>>
    BY <1>3 DEF Write, Holding, counters
  <2>2. Counters' BY <1>1, <1>3, <2>1, OvertakeOK DEF Write, Counters
  <2>3. CASE Clashes(Stored(p), target[p])
    <3>1. SaveThrows(p) /\ accounts' = accounts BY <1>3, <2>3 DEF Write
    <3>2. Logs BY <1>1, <2>1, <3>1, SaveThrowsLogs
    <3>3. Table' /\ Grown BY <3>1, <3>2, Quiet
    <3>4. HandlersOK' BY <1>1, <2>1, <3>1, <3>3, SaveThrowsStep
    <3> QED BY <2>2, <3>3, <3>4 DEF Inv, HandlersOK
  <2>4. CASE ~Clashes(Stored(p), target[p])
    <3>1. /\ accounts' = [accounts EXCEPT ![target[p]] = Stored(p)]
          /\ Answer(p, outcome[p]) /\ caught' = caught
      BY <1>3, <2>4 DEF Write
    <3>2. Logs BY <1>1, <2>1, <3>1, LogsKeep
    <3>3. Table' /\ Grown BY <1>1, <2>1, <3>1, <3>2, StoreTarget, GrownTable
    <3>4. PICK result \in Outcomes : result = outcome[p] BY <1>1 DEF HandlersOK, Domains
    <3>5. HandlersOK' BY <1>1, <3>1, <3>3, <3>4, AnswerStep
    <3> QED BY <2>2, <3>3, <3>5 DEF Inv, HandlersOK
  <2> QED BY <2>3, <2>4
<1> QED BY <1>2, <1>3

\* Faults of the database.
LEMMA FaultStep ==
  ASSUME Inv, NEW p \in Handlers, DbFault(p)
  PROVE  Inv'
<1>1. Table /\ HandlersOK /\ Counters BY InvParts
<1>2. UNCHANGED <<answered, maxAttempts>> BY DEF DbFault
<1>3. Counters'
  BY <1>1, OvertakeOK, ConstantsAssumption DEF DbFault, Counters, ConstantsAssumption
<1>4. ASSUME Answer(p, "dbError"), accounts' = accounts, caught' = caught PROVE Inv'
  <2>1. Logs BY <1>1, <1>2, <1>4, LogsKeep
  <2>2. Table' /\ Grown BY <1>4, <2>1, Quiet
  <2>3. HandlersOK' BY <1>1, <1>4, <2>2, AnswerStep DEF Outcomes
  <2> QED BY <1>3, <2>2, <2>3 DEF Inv, HandlersOK
<1>5. ASSUME pc[p] \in Holding, SaveThrows(p), accounts' = accounts PROVE Inv'
  <2>1. Logs BY <1>1, <1>2, <1>5, SaveThrowsLogs
  <2>2. Table' /\ Grown BY <1>5, <2>1, Quiet
  <2>3. HandlersOK' BY <1>1, <1>2, <1>5, <2>2, SaveThrowsStep
  <2> QED BY <1>3, <2>2, <2>3 DEF Inv, HandlersOK
<1>6. ASSUME pc[p] \in Holding, SaveThrows(p),
             accounts' = [accounts EXCEPT ![target[p]] = Stored(p)]
      PROVE Inv'
  <2>1. Logs BY <1>1, <1>2, <1>6, SaveThrowsLogs
  <2>2. Table' /\ Grown BY <1>1, <1>6, <2>1, StoreTarget, GrownTable
  <2>3. HandlersOK' BY <1>1, <1>2, <1>6, <2>2, SaveThrowsStep
  <2> QED BY <1>3, <2>2, <2>3 DEF Inv, HandlersOK
<1>7. ASSUME pc[p] = "insert", Insertable(req[p]), Answer(p, "dbError"),
             accounts' = Append(accounts, NewAccount(req[p])), caught' = Append(caught, 0)
      PROVE Inv'
  <2>1. Table' /\ Grown BY <1>1, <1>2, <1>7, InsertRow, GrownTable
  <2>2. HandlersOK' BY <1>1, <1>7, <2>1, AnswerStep DEF Outcomes
  <2> QED BY <1>3, <2>1, <2>2 DEF Inv, HandlersOK
<1> QED BY <1>4, <1>5, <1>6, <1>7 DEF DbFault, Holding

\* A restart of the process.
LEMMA RestartStep ==
  ASSUME Inv, Restart
  PROVE  Inv'
<1>1. HandlersOK /\ Counters /\ Table BY InvParts
<1>2. accounts' = accounts /\ UNCHANGED <<answered, caught, maxAttempts>>
  BY DEF Restart, counters
<1>3. Logs BY <1>1, <1>2, LogsKeep
<1>4. Table' BY <1>2, <1>3, Quiet
<1>5. Counters' BY <1>1 DEF Restart, Counters, counters
<1>6. maxAttempts \in Nat BY <1>1, Bounds DEF Counters
<1>7. Domains' BY DEF Restart, Domains, Places, Outcomes
<1>8. ASSUME NEW p \in Handlers PROVE HandlerInv(p)'
  BY <1>2, <1>6 DEF Restart, HandlerInv, Creating, Holding
<1> QED BY <1>4, <1>5, <1>7, <1>8 DEF Inv

\* Arrivals.
LEMMA ReceivingStep ==
  ASSUME Inv, NEW p \in Handlers,
         ReceiveCreate(p) \/ ReceiveUpdate(p) \/ ReceiveDelete(p) \/ ReceiveTest(p)
  PROVE  Inv'
<1>1. PICK r, first :
        /\ Receive(p, r, first)
        /\ \/ first = "findLive" /\ r \in CreateRequests({creates + 1}) /\ creates < MaxCreates
           \/ first = "find" /\ r \in UpdateRequests \cup IdRequests
  BY DEF ReceiveCreate, ReceiveUpdate, ReceiveDelete, ReceiveTest
<1>2. UNCHANGED <<db, faults, maxAttempts>> BY <1>1 DEF Receive
<1>3. HandlersOK /\ Counters /\ Table' /\ Grown BY <1>2, Silent
<1>4. first = "findLive" => r \in CreateRequest
  <2>1. creates + 1 \in 1..MaxCreates \/ ~(creates < MaxCreates)
    BY <1>3, ConstantsAssumption DEF Counters, ConstantsAssumption
  <2> QED BY <1>1, <2>1 DEF CreateRequest, CreateRequests
<1>5. HandlersOK' BY <1>1, <1>3, <1>4, ReceiveStep
<1>6. Counters'
  BY <1>2, <1>3, ConstantsAssumption
  DEF ReceiveCreate, ReceiveUpdate, ReceiveDelete, ReceiveTest, Counters, db,
      ConstantsAssumption
<1> QED BY <1>3, <1>5, <1>6 DEF Inv, HandlersOK

\* Every step keeps the invariant.
LEMMA InvNext == Inv /\ [Next]_vars => Inv'
<1> SUFFICES ASSUME Inv, [Next]_vars PROVE Inv' OBVIOUS
<1>1. ASSUME NEW p \in Handlers,
             ReceiveCreate(p) \/ ReceiveUpdate(p) \/ ReceiveDelete(p) \/ ReceiveTest(p)
      PROVE Inv'
  BY <1>1, ReceivingStep
<1>2. ASSUME NEW p \in Handlers, Proceed(p) PROVE Inv'
  BY <1>2, CreateStep, FindStep, ProbeStep, SavingStep DEF Proceed
<1>3. ASSUME NEW p \in Handlers, DbFault(p) PROVE Inv'
  BY <1>3, FaultStep
<1>4. CASE Restart BY <1>4, RestartStep
<1>5. CASE UNCHANGED vars
  <2>1. HandlersOK /\ Counters /\ Table' /\ Grown BY <1>5, Silent DEF vars, db
  <2>2. HandlersOK' BY <1>5, <2>1, Stutter DEF vars, handler
  <2>3. Counters' BY <1>5, <2>1 DEF vars, Counters
  <2> QED BY <2>1, <2>2, <2>3 DEF Inv, HandlersOK
<1> QED BY <1>1, <1>2, <1>3, <1>4, <1>5 DEF Next

\* The inductive invariant holds in every state.
THEOREM Invariance == Spec => []Inv
BY InvInit, InvNext, PTL DEF Spec

-----------------------------------------------------------------------------
(* Who disturbs whom: the argument for OnlyOvertakenDisturb *)

\* x and y agree on every column outside `cols`.
Alike(x, y, cols) == \A c \in Columns \ cols : x[c] = y[c]

Health == {"conn", "fails"}

\* Each operation changes its own columns of an entity.
LEMMA OperationColumns ==
  ASSUME NEW row \in Row
  PROVE  /\ \A r : Alike(Restored(row, r), row, OwnColumns("restored"))
         /\ \A body : Alike(Updated(row, body), row, OwnColumns("updated"))
         /\ Alike(Deleted(row), row, OwnColumns("deleted"))
<1>1. ASSUME NEW r, NEW c \in Columns \ OwnColumns("restored") PROVE Restored(row, r)[c] = row[c]
  <2>1. c \in {"conn", "fails"} BY <1>1 DEF OwnColumns, Columns
  <2> QED BY <2>1 DEF Restored, Row
<1>2. ASSUME NEW body, NEW c \in Columns \ OwnColumns("updated")
      PROVE  Updated(row, body)[c] = row[c]
  <2>1. c \in {"hash", "cipher", "deletedAt", "conn", "fails"} BY <1>2 DEF OwnColumns, Columns
  <2> QED BY <2>1 DEF Updated, Row
<1>3. ASSUME NEW c \in Columns \ OwnColumns("deleted") PROVE Deleted(row)[c] = row[c]
  <2>1. c \in {"hash", "cipher", "label", "rights", "enabled", "conn", "fails"}
    BY <1>3 DEF OwnColumns, Columns
  <2> QED BY <2>1 DEF Deleted, Row
<1> QED BY <1>1, <1>2, <1>3, Zenon DEF Alike

\* So do the results of a test.
LEMMA TestColumns ==
  ASSUME NEW entity \in Entity
  PROVE  /\ Alike(Connected(entity), entity, Health)
         /\ Alike(Failed(entity), entity, Health)
<1>1. ASSUME NEW c \in Columns \ Health
      PROVE  Connected(entity)[c] = entity[c] /\ Failed(entity)[c] = entity[c]
  <2>1. c \in {"hash", "cipher", "label", "rights", "enabled", "deletedAt"}
    BY <1>1 DEF Health, Columns
  <2> QED BY <2>1 DEF Connected, Failed, Entity
<1> QED BY <1>1 DEF Alike

\* The columns of the row an UPDATE leaves.
LEMMA MergeColumn ==
  ASSUME NEW row, NEW entity, NEW cols, NEW c \in Columns
  PROVE  Merge(row, entity, cols)[c] = IF c \in cols THEN entity[c] ELSE row[c]
<1>1. CASE c = "hash" BY <1>1 DEF Merge
<1>2. CASE c = "cipher" BY <1>2 DEF Merge
<1>3. CASE c = "label" BY <1>3 DEF Merge
<1>4. CASE c = "rights" BY <1>4 DEF Merge
<1>5. CASE c = "enabled" BY <1>5 DEF Merge
<1>6. CASE c = "deletedAt" BY <1>6 DEF Merge
<1>7. CASE c = "conn" BY <1>7 DEF Merge
<1>8. CASE c = "fails" BY <1>8 DEF Merge
<1> QED BY <1>1, <1>2, <1>3, <1>4, <1>5, <1>6, <1>7, <1>8 DEF Columns

\* An entity that differs from its row in no other columns than its operation's.
Fresh(p) == Behind(p) => Differing(held[p], accounts[target[p]]) \subseteq OwnColumns(outcome[p])

\* What is true of a handler nobody has overtaken.
Turn(p) ==
  /\ pc[p] \in {"find", "probe"} => outcome[p] = "none"
  /\ ~overtaken[p] => Fresh(p) /\ (pc[p] = "write" => dirty[p] \subseteq OwnColumns(outcome[p]))

Turns == \A p \in Handlers : Turn(p)

\* The step of another handler leaves q where it is.
Frame(q) ==
  /\ pc'[q] = pc[q] /\ target'[q] = target[q] /\ held'[q] = held[q]
  /\ dirty'[q] = dirty[q] /\ outcome'[q] = outcome[q]

\* A handler takes no step: whoever changes its row overtakes it.
LEMMA TurnKept ==
  ASSUME NEW q \in Handlers, Turn(q), Frame(q),
         ~overtaken'[q] =>
           ~overtaken[q] /\ (Behind(q) => accounts'[target[q]] = accounts[target[q]])
  PROVE  Turn(q)'
<1>1. Behind(q)' <=> Behind(q) BY DEF Frame, Behind
<1>2. ASSUME ~overtaken'[q] PROVE Fresh(q)'
  BY <1>1, <1>2 DEF Turn, Fresh, Frame
<1> QED BY <1>2 DEF Turn, Frame

\* A handler that answers has nothing left to disturb with.
LEMMA AnswerTurn ==
  ASSUME HandlersOK, NEW p \in Handlers, NEW result, Answer(p, result)
  PROVE  Turn(p)' /\ \A q \in Handlers : q # p => Frame(q)
BY DEF HandlersOK, Domains, Answer, Turn, Fresh, Behind, Frame

\* A handler that calls save() brings an entity that is fresh, unless it was overtaken.
LEMMA SaveTurn ==
  ASSUME HandlersOK, NEW p \in Handlers, NEW id, NEW entity, NEW result,
         Save(p, id, entity, result),
         ~overtaken'[p] => Differing(entity, accounts'[id]) \subseteq OwnColumns(result)
  PROVE  Turn(p)' /\ \A q \in Handlers : q # p => Frame(q)
<1>1. pc'[p] = "load" /\ target'[p] = id /\ held'[p] = entity /\ outcome'[p] = result
  BY DEF HandlersOK, Domains, Save
<1>2. Turn(p)' BY <1>1 DEF Turn, Fresh
<1>3. \A q \in Handlers : q # p => Frame(q) BY DEF HandlersOK, Domains, Save, Frame
<1> QED BY <1>2, <1>3

\* An entity made from a row just read differs in its operation's columns.
LEMMA AlikeDiffers ==
  ASSUME NEW x, NEW y, NEW cols, Alike(x, y, cols)
  PROVE  Differing(x, y) \subseteq cols
BY DEF Alike, Differing

\* One made from an entity, in those of the entity too.
LEMMA AlikeDiffersStill ==
  ASSUME NEW x, NEW y, NEW z, NEW cols, Alike(x, y, cols), Differing(y, z) \subseteq cols
  PROVE  Differing(x, z) \subseteq cols
BY DEF Alike, Differing

\* Storing columns of an entity in a row leaves it no more different.
LEMMA MergeDiffers ==
  ASSUME NEW row, NEW entity, NEW cols
  PROVE  Differing(entity, Merge(row, entity, cols)) \subseteq Differing(entity, row)
BY MergeColumn DEF Differing

\* The catch block keeps an entity fresh.
LEMMA CatchTurn ==
  ASSUME HandlersOK, NEW p \in Handlers, Turn(p), Behind(p),
         outcome[p] \in {"none", "connected"}, Catch(p), overtaken'[p] = overtaken[p],
         accounts'[target[p]] \in {accounts[target[p]], Stored(p)}
  PROVE  Turn(p)' /\ \A q \in Handlers : q # p => Frame(q)
<1>1. held[p] \in Entity
  BY DEF HandlersOK, HandlerInv, Holds, Behind, Holding
<1>2. ASSUME ~overtaken'[p]
      PROVE  Differing(Failed(held[p]), accounts'[target[p]]) \subseteq OwnColumns("failed")
  <2>1. Differing(held[p], accounts[target[p]]) \subseteq OwnColumns(outcome[p])
    BY <1>2 DEF Turn, Fresh
  <2>2. OwnColumns(outcome[p]) \subseteq Health /\ OwnColumns("failed") = Health
    BY DEF OwnColumns, Health
  <2>3. Differing(held[p], Stored(p)) \subseteq Differing(held[p], accounts[target[p]])
    BY MergeDiffers DEF Stored
  <2>4. Differing(held[p], accounts'[target[p]]) \subseteq Health BY <2>1, <2>2, <2>3
  <2>5. Alike(Failed(held[p]), held[p], Health) BY <1>1, TestColumns
  <2> QED BY <2>2, <2>4, <2>5, AlikeDiffersStill
<1> QED BY <1>2, SaveTurn DEF Catch

\* A step of p changes no row but p's.
LEMMA RowsKept ==
  ASSUME Inv, NEW p \in Handlers, NEW id \in 1..Len(accounts), id # target[p],
         \/ accounts' = accounts
         \/ accounts' = [accounts EXCEPT ![target[p]] = Stored(p)]
         \/ accounts' = Append(accounts, NewAccount(req[p]))
  PROVE  accounts'[id] = accounts[id]
BY DEF Inv, Table

\* A handler that has yet to compare holds a row.
LEMMA BehindHolds ==
  ASSUME Inv, NEW q \in Handlers, Behind(q)
  PROVE  target[q] \in 1..Len(accounts)
BY DEF Inv, HandlerInv, Holds, Holding, Behind

\* A step that may change p's row spares everyone it does not overtake.
LEMMA Spared ==
  ASSUME Inv, Turns, NEW p \in Handlers, Overtake(p),
         \/ accounts' = accounts
         \/ accounts' = [accounts EXCEPT ![target[p]] = Stored(p)]
         \/ pc[p] = "insert" /\ accounts' = Append(accounts, NewAccount(req[p])),
         NEW q \in Handlers, q # p, Frame(q)
  PROVE  Turn(q)'
<1>1. overtaken'[q] = (overtaken[q] \/ (accounts' # accounts /\ target[q] = target[p] /\ Behind(q)))
  BY DEF Overtake
<1>2. overtaken[q] \in BOOLEAN BY DEF Inv, Counters
<1>3. ASSUME ~overtaken'[q], Behind(q) PROVE accounts'[target[q]] = accounts[target[q]]
  <2>1. PICK id \in 1..Len(accounts) : id = target[q] BY <1>3, BehindHolds
  <2>2. accounts' = accounts \/ id # target[p] BY <1>1, <1>3, <2>1
  <2>3. CASE accounts' = accounts BY <2>3
  <2>4. CASE id # target[p]
    <3>1. accounts'[id] = accounts[id] BY <2>4, RowsKept
    <3> QED BY <2>1, <3>1
  <2> QED BY <2>2, <2>3, <2>4
<1>4. ~overtaken'[q] => ~overtaken[q] BY <1>1, <1>2
<1>5. Turn(q) BY DEF Turns
<1> QED BY <1>3, <1>4, <1>5, TurnKept

\* So does any other step of p.
LEMMA SparedQuietly ==
  ASSUME Inv, Turns, NEW p \in Handlers, overtaken' = overtaken,
         accounts' = accounts \/ accounts' = Append(accounts, NewAccount(req[p])),
         NEW q \in Handlers, q # p, Frame(q)
  PROVE  Turn(q)'
<1>1. ASSUME Behind(q) PROVE accounts'[target[q]] = accounts[target[q]]
  <2>1. PICK id \in 1..Len(accounts) : id = target[q] BY <1>1, BehindHolds
  <2>2. accounts'[id] = accounts[id] BY DEF Inv, Table
  <2> QED BY <2>1, <2>2
<1>2. Turn(q) BY DEF Turns
<1> QED BY <1>1, <1>2, TurnKept

\* A step of p that leaves the rows and who is overtaken alone.
LEMMA QuietTurns ==
  ASSUME Inv, Turns, NEW p \in Handlers, overtaken' = overtaken,
         accounts' = accounts \/ accounts' = Append(accounts, NewAccount(req[p])),
         Turn(p)' /\ \A q \in Handlers : q # p => Frame(q)
  PROVE  Turns'
<1>1. ASSUME NEW q \in Handlers, q # p PROVE Turn(q)' BY <1>1, SparedQuietly
<1> QED BY <1>1 DEF Turns

\* createCexAccount.
LEMMA CreateTurns ==
  ASSUME Inv, Turns, NEW p \in Handlers, FindLive(p) \/ FindDeleted(p) \/ Insert(p)
  PROVE  Turns'
<1>1. HandlersOK /\ Table BY InvParts
<1>2. overtaken' = overtaken
      /\ (accounts' = accounts \/ accounts' = Append(accounts, NewAccount(req[p])))
  BY DEF FindLive, FindDeleted, Insert, db
<1>3. ASSUME NEW result, Answer(p, result) PROVE Turns'
  BY <1>1, <1>2, <1>3, AnswerTurn, QuietTurns
<1>4. ASSUME NEW place \in Creating, pc' = [pc EXCEPT ![p] = place],
             UNCHANGED <<req, target, held, dirty, outcome, attempt>>
      PROVE  Turns'
  <2>1. Turn(p)' BY <1>1, <1>4 DEF HandlersOK, Domains, Turn, Fresh, Behind, Creating
  <2>2. \A q \in Handlers : q # p => Frame(q) BY <1>1, <1>4 DEF HandlersOK, Domains, Frame
  <2> QED BY <1>2, <2>1, <2>2, QuietTurns
<1>5. ASSUME NEW id \in DeletedInSlot(req[p]), accounts' = accounts,
             Save(p, id, Restored(accounts[id], req[p]), "restored")
      PROVE  Turns'
  <2>1. accounts[id] \in Row BY <1>1 DEF DeletedInSlot, Table
  <2>2. Differing(Restored(accounts[id], req[p]), accounts'[id]) \subseteq OwnColumns("restored")
    BY <1>5, <2>1, OperationColumns, AlikeDiffers
  <2> QED BY <1>1, <1>2, <1>5, <2>2, SaveTurn, QuietTurns
<1>6. CASE FindLive(p) BY <1>3, <1>4, <1>6 DEF FindLive, Creating
<1>7. CASE FindDeleted(p) BY <1>4, <1>5, <1>7 DEF FindDeleted, Creating, db
<1>8. CASE Insert(p) BY <1>3, <1>8 DEF Insert
<1> QED BY <1>6, <1>7, <1>8

\* The lookup of update, delete and test: what it reads is what it holds.
LEMMA FindTurns ==
  ASSUME Inv, Turns, NEW p \in Handlers, Find(p)
  PROVE  Turns'
<1>1. HandlersOK /\ Table BY InvParts
<1>2. overtaken' = overtaken /\ accounts' = accounts /\ pc[p] = "find" BY DEF Find, db
<1>3. ASSUME Found(req[p])
      PROVE  accounts[req[p].id] \in Row /\ accounts'[req[p].id] = accounts[req[p].id]
  BY <1>1, <1>2, <1>3 DEF Found, Table
<1>4. ASSUME Answer(p, "notFound") PROVE Turns'
  BY <1>1, <1>2, <1>4, AnswerTurn, QuietTurns
<1>5. ASSUME Found(req[p]),
             Save(p, req[p].id, Updated(accounts[req[p].id], req[p].body), "updated")
      PROVE  Turns'
  <2>1. Differing(Updated(accounts[req[p].id], req[p].body), accounts'[req[p].id])
          \subseteq OwnColumns("updated")
    BY <1>3, <1>5, OperationColumns, AlikeDiffers
  <2> QED BY <1>1, <1>2, <1>5, <2>1, SaveTurn, QuietTurns
<1>6. ASSUME Found(req[p]), Save(p, req[p].id, Deleted(accounts[req[p].id]), "deleted")
      PROVE  Turns'
  <2>1. Differing(Deleted(accounts[req[p].id]), accounts'[req[p].id])
          \subseteq OwnColumns("deleted")
    BY <1>3, <1>6, OperationColumns, AlikeDiffers
  <2> QED BY <1>1, <1>2, <1>6, <2>1, SaveTurn, QuietTurns
<1>7. ASSUME Found(req[p]), pc' = [pc EXCEPT ![p] = "probe"],
             target' = [target EXCEPT ![p] = req[p].id],
             held' = [held EXCEPT ![p] = accounts[req[p].id]],
             UNCHANGED <<req, dirty, outcome, attempt>>
      PROVE  Turns'
  <2>1. /\ pc'[p] = "probe" /\ target'[p] = req[p].id /\ held'[p] = accounts'[req[p].id]
        /\ outcome'[p] = outcome[p]
    BY <1>1, <1>3, <1>7 DEF HandlersOK, Domains
  <2>2. outcome[p] = "none" BY <1>2 DEF Turns, Turn
  <2>3. Fresh(p)' BY <2>1 DEF Fresh, Differing
  <2>4. Turn(p)' BY <2>1, <2>2, <2>3 DEF Turn
  <2>5. \A q \in Handlers : q # p => Frame(q) BY <1>1, <1>7 DEF HandlersOK, Domains, Frame
  <2> QED BY <1>2, <2>4, <2>5, QuietTurns
<1> QED BY <1>4, <1>5, <1>6, <1>7 DEF Find

\* The calls of the exchange.
LEMMA ProbeTurns ==
  ASSUME Inv, Turns, NEW p \in Handlers,
         ProbeSucceeds(p) \/ ProbeSkipped(p) \/ ProbeFails(p) \/ ProbeImpossible(p)
  PROVE  Turns'
<1>1. HandlersOK /\ Table BY InvParts
<1>2. overtaken' = overtaken /\ accounts' = accounts /\ pc[p] = "probe"
  BY DEF ProbeSucceeds, ProbeSkipped, ProbeFails, ProbeImpossible, db
<1>3. outcome[p] = "none" /\ Turn(p) /\ Behind(p) BY <1>2 DEF Turns, Turn, Behind
<1>4. ASSUME Save(p, target[p], Connected(held[p]), "connected") PROVE Turns'
  <2>1. held[p] \in Entity BY <1>1, <1>2 DEF HandlersOK, HandlerInv, Holds, Holding
  <2>2. ASSUME ~overtaken'[p]
        PROVE  Differing(Connected(held[p]), accounts'[target[p]]) \subseteq OwnColumns("connected")
    <3>1. Differing(held[p], accounts[target[p]]) \subseteq OwnColumns(outcome[p])
      BY <1>2, <1>3, <2>2 DEF Turn, Fresh
    <3>2. OwnColumns(outcome[p]) = {} /\ OwnColumns("connected") = Health
      BY <1>3 DEF OwnColumns, Health
    <3>3. Differing(held[p], accounts'[target[p]]) \subseteq Health BY <1>2, <3>1, <3>2
    <3>4. Alike(Connected(held[p]), held[p], Health) BY <2>1, TestColumns
    <3> QED BY <3>2, <3>3, <3>4, AlikeDiffersStill
  <2> QED BY <1>1, <1>2, <1>4, <2>2, SaveTurn, QuietTurns
<1>5. ASSUME Catch(p) PROVE Turns'
  <2>1. accounts'[target[p]] \in {accounts[target[p]], Stored(p)} BY <1>2
  <2> QED BY <1>1, <1>2, <1>3, <1>5, <2>1, CatchTurn, QuietTurns
<1>6. ASSUME UNCHANGED <<pc, req, target, held, dirty, outcome>> PROVE Turns'
  <2>1. \A q \in Handlers : Frame(q) BY <1>6 DEF Frame
  <2>2. Turn(p)' BY <1>2, <1>3, <2>1, TurnKept
  <2> QED BY <1>2, <2>1, <2>2, QuietTurns
<1> QED BY <1>4, <1>5, <1>6 DEF ProbeSucceeds, ProbeSkipped, ProbeFails, ProbeImpossible

\* save() selects the row and compares.
LEMMA LoadTurns ==
  ASSUME Inv, Turns, NEW p \in Handlers, Load(p)
  PROVE  Turns'
<1>1. HandlersOK /\ Table BY InvParts
<1>2. overtaken' = overtaken /\ accounts' = accounts BY DEF Load, db
<1>3. /\ pc[p] = "load" /\ pc'[p] = "write" /\ target'[p] = target[p] /\ held'[p] = held[p]
      /\ outcome'[p] = outcome[p] /\ dirty'[p] = Differing(held[p], accounts[target[p]])
  BY <1>1 DEF Load, HandlersOK, Domains
<1>4. Behind(p) BY <1>3 DEF Behind
<1>5. ASSUME ~overtaken'[p]
      PROVE  Differing(held[p], accounts[target[p]]) \subseteq OwnColumns(outcome[p])
  BY <1>2, <1>4, <1>5 DEF Turns, Turn, Fresh
<1>6. Turn(p)' BY <1>2, <1>3, <1>5 DEF Turn, Fresh
<1>7. \A q \in Handlers : q # p => Frame(q) BY <1>1 DEF Load, HandlersOK, Domains, Frame
<1> QED BY <1>2, <1>6, <1>7, QuietTurns

\* A save() that throws, in the UPDATE or before.
LEMMA ThrownTurn ==
  ASSUME Inv, Turns, NEW p \in Handlers, pc[p] \in {"load", "write"}, SaveThrows(p), Overtake(p),
         accounts'[target[p]] \in {accounts[target[p]], Stored(p)}
  PROVE  Turn(p)' /\ \A q \in Handlers : q # p => Frame(q)
<1>1. HandlersOK BY InvParts
<1>2. CASE outcome[p] = "connected"
  <2>1. Catch(p) BY <1>2 DEF SaveThrows
  <2>2. pc'[p] = "load" BY <1>1, <2>1 DEF Catch, Save, HandlersOK, Domains
  <2>3. overtaken[p] \in BOOLEAN BY DEF Inv, Counters
  <2>4. overtaken'[p] = overtaken[p] BY <2>2, <2>3 DEF Overtake
  <2>5. Turn(p) /\ Behind(p) BY <1>2 DEF Turns, Behind
  <2> QED BY <1>1, <1>2, <2>1, <2>4, <2>5, CatchTurn
<1>3. CASE outcome[p] # "connected" BY <1>1, <1>3, AnswerTurn DEF SaveThrows
<1> QED BY <1>2, <1>3

\* The UPDATE, and every fault.
LEMMA WriteTurns ==
  ASSUME Inv, Turns, NEW p \in Handlers, Write(p) \/ DbFault(p)
  PROVE  Turns'
<1>1. HandlersOK /\ Table BY InvParts
<1>2. Overtake(p) BY DEF Write, DbFault
<1>3. /\ \/ accounts' = accounts
         \/ accounts' = [accounts EXCEPT ![target[p]] = Stored(p)]
         \/ pc[p] = "insert" /\ accounts' = Append(accounts, NewAccount(req[p]))
      /\ \/ \E result \in {"dbError", outcome[p]} : Answer(p, result)
         \/ pc[p] \in {"load", "write"} /\ SaveThrows(p)
      /\ pc[p] \in {"load", "write"} =>
           \/ accounts' = accounts
           \/ accounts' = [accounts EXCEPT ![target[p]] = Stored(p)]
  BY DEF Write, DbFault
<1>4. Turn(p)' /\ \A q \in Handlers : q # p => Frame(q)
  <2>1. ASSUME NEW result, Answer(p, result)
        PROVE  Turn(p)' /\ \A q \in Handlers : q # p => Frame(q)
    BY <1>1, <2>1, AnswerTurn
  <2>2. ASSUME pc[p] \in {"load", "write"}, SaveThrows(p)
        PROVE  Turn(p)' /\ \A q \in Handlers : q # p => Frame(q)
    <3>1. PICK id \in 1..Len(accounts) : id = target[p]
      BY <1>1, <2>2 DEF HandlersOK, HandlerInv, Holds, Holding
    <3>2. accounts'[id] \in {accounts[id], Stored(p)} BY <1>1, <1>3, <2>2, <3>1 DEF Table
    <3> QED BY <1>2, <2>2, <3>1, <3>2, ThrownTurn
  <2> QED BY <1>3, <2>1, <2>2
<1>5. ASSUME NEW q \in Handlers, q # p PROVE Turn(q)'
  BY <1>2, <1>3, <1>4, <1>5, Spared
<1> QED BY <1>4, <1>5 DEF Turns

\* Every step keeps it so.
LEMMA TurnsNext == Inv /\ Turns /\ [Next]_vars => Turns'
<1> SUFFICES ASSUME Inv, Turns, [Next]_vars PROVE Turns' OBVIOUS
<1>1. ASSUME NEW p \in Handlers,
             ReceiveCreate(p) \/ ReceiveUpdate(p) \/ ReceiveDelete(p) \/ ReceiveTest(p)
      PROVE Turns'
  <2>1. PICK r, first : Receive(p, r, first) /\ first \in {"findLive", "find"}
    BY <1>1 DEF ReceiveCreate, ReceiveUpdate, ReceiveDelete, ReceiveTest
  <2>2. HandlersOK BY InvParts
  <2>3. Turn(p)'
    BY <2>1, <2>2 DEF Receive, HandlersOK, Domains, Turn, Fresh, Behind
  <2>4. \A q \in Handlers : q # p => Frame(q)
    BY <2>1, <2>2 DEF Receive, HandlersOK, Domains, Frame
  <2>5. overtaken' = overtaken /\ accounts' = accounts BY <2>1 DEF Receive, db
  <2> QED BY <2>3, <2>4, <2>5, QuietTurns
<1>2. ASSUME NEW p \in Handlers, Proceed(p) PROVE Turns'
  BY <1>2, CreateTurns, FindTurns, ProbeTurns, LoadTurns, WriteTurns DEF Proceed
<1>3. ASSUME NEW p \in Handlers, DbFault(p) PROVE Turns'
  BY <1>3, WriteTurns
<1>4. CASE Restart
  BY <1>4 DEF Restart, Turns, Turn, Fresh, Behind
<1>5. CASE UNCHANGED vars
  BY <1>5 DEF vars, Turns, Turn, Fresh, Behind
<1> QED BY <1>1, <1>2, <1>3, <1>4, <1>5 DEF Next

\* And it is so from the start.
THEOREM TurnsAlways == Spec => []Turns
<1>1. Init => Turns BY DEF Init, Turns, Turn, Fresh, Behind
<1> QED BY <1>1, TurnsNext, Invariance, PTL DEF Spec

-----------------------------------------------------------------------------
(* Theorems *)

\* Every state is well typed.
THEOREM TypeCorrect == Spec => []TypeOK
<1>1. Inv => TypeOK
  <2> SUFFICES ASSUME Inv PROVE TypeOK OBVIOUS
  <2>1. ASSUME NEW p \in Handlers PROVE target[p] \in 0..Len(accounts)
    BY DEF Inv, Domains, HandlerInv, Holds, Table
  <2>2. target \in [Handlers -> 0..Len(accounts)] BY <2>1 DEF Inv, Domains
  <2>3. attempt \in [Handlers -> 1..(maxAttempts + 1)] BY DEF Inv, Domains, HandlerInv
  <2>4. answered \subseteq DOMAIN accounts BY DEF Inv, Table, LogOK
  <2> QED BY <2>2, <2>3, <2>4 DEF Inv, Domains, Table, LogOK, Counters, TypeOK
<1> QED BY <1>1, Invariance, PTL

\* A handler holds and stores only entities of the user it serves, sealed for that
\* user: no stale save, retry, fault or restart mixes two users' rows.
THEOREM OwnersKeptApart == Spec => []OwnersApart
<1>1. Inv => OwnersApart
  BY DEF Inv, Table, Sound, HandlerInv, Holds, OwnersApart
<1> QED BY <1>1, Invariance, PTL

\* With one attempt or more configured a stored "connected" goes back to an answer of the
\* exchange, and a stored count to as many tests that ended in the catch block.
THEOREM StatusSupported == Spec => []StatusHasEvidence
<1>1. Inv => StatusHasEvidence
  BY DEF Inv, Table, Sound, Supported, StatusHasEvidence
<1> QED BY <1>1, Invariance, PTL

\* A save() changes a column its operation is not about only if its handler was overtaken
\* between its lookup and the comparison.
THEOREM DisturbersOvertaken == Spec => OnlyOvertakenDisturb
<1>1. ASSUME Inv, Turns, [Next]_vars, NEW p \in Handlers,
             pc[p] = "write", pc'[p] # "write", ~overtaken[p],
             NEW c \in Columns \ OwnColumns(outcome[p])
      PROVE  accounts'[target[p]][c] = accounts[target[p]][c]
  <2>1. PICK id \in 1..Len(accounts) : id = target[p]
    BY <1>1 DEF Inv, HandlerInv, Holds, Holding
  <2>2. Stored(p)[c] = accounts[id][c]
    <3>1. c \notin dirty[p] BY <1>1 DEF Turns, Turn
    <3> QED BY <2>1, <3>1, MergeColumn DEF Stored
  <2>3. \/ accounts' = accounts
        \/ accounts' = [accounts EXCEPT ![id] = Stored(p)]
    <3>1. ASSUME NEW q \in Handlers, q # p PROVE ~Proceed(q) /\ ~DbFault(q)
      <4>1. ASSUME Proceed(q) \/ DbFault(q) PROVE pc'[p] = pc[p]
        BY <1>1, <3>1, <4>1
        DEF Proceed, FindLive, FindDeleted, Insert, Find, ProbeSucceeds, ProbeSkipped, ProbeFails,
            ProbeImpossible, Load, Write, DbFault, SaveThrows, Catch, Answer, Save, Inv, Domains
      <4> QED BY <1>1, <4>1
    <3>2. CASE \E q \in Handlers :
                 ReceiveCreate(q) \/ ReceiveUpdate(q) \/ ReceiveDelete(q) \/ ReceiveTest(q)
      BY <3>2 DEF ReceiveCreate, ReceiveUpdate, ReceiveDelete, ReceiveTest, Receive, db
    <3>3. CASE Proceed(p) \/ DbFault(p)
      BY <1>1, <2>1, <3>3
      DEF Proceed, FindLive, FindDeleted, Insert, Find, ProbeSucceeds, ProbeSkipped, ProbeFails,
          ProbeImpossible, Load, Write, DbFault, db
    <3>4. CASE Restart \/ UNCHANGED vars BY <3>4 DEF Restart, vars
    <3> QED BY <1>1, <3>1, <3>2, <3>3, <3>4 DEF Next
  <2>4. accounts'[id] \in {accounts[id], Stored(p)} BY <1>1, <2>3 DEF Inv, Table
  <2> QED BY <2>1, <2>2, <2>4
<1>2. Inv /\ Turns /\ [Next]_vars =>
        [\A p \in Handlers :
           pc[p] = "write" /\ pc'[p] # "write" /\ ~overtaken[p] =>
             \A c \in Columns \ OwnColumns(outcome[p]) :
               accounts'[target[p]][c] = accounts[target[p]][c]]_vars
  BY <1>1
<1> QED BY <1>2, Invariance, TurnsAlways, PTL DEF Spec, OnlyOvertakenDisturb
=============================================================================
