------------------------------ MODULE CexAccounts ------------------------------
(***************************************************************************)
(* CexAccountsService and the table it keeps: the accounts users hold on   *)
(* centralised exchanges.  Requests run concurrently in one server         *)
(* process; a handler gives way at every await, so each database round     *)
(* trip and each call of the exchange is a step of its own.                *)
(*                                                                         *)
(* A handler works on an ENTITY: the copy of a row it read.  TypeORM's     *)
(* save(entity) selects the row again, compares, and updates the columns   *)
(* in which the entity differs from what it selected (Load, then Write).   *)
(* Data is abstracted: one exchange; `label` stands for the account's      *)
(* name, `rights` for the three allow flags, `enabled` for the switch,     *)
(* `conn` for connectionStatus together with healthStatus.  Status goes    *)
(* with the switch.  The JSON settings go with the rights, but have no     *)
(* default; permissions too, but a creation without them means ["read"].   *)
(***************************************************************************)
EXTENDS Integers, Sequences, FiniteSets

CONSTANTS
  Handlers,       \* requests the server can have in flight
  Users, Envs, Keys, Labels, Rights,
  DefaultRights,  \* the columns' defaults, and the creation DTO's initial values
  Undefined,      \* JavaScript's undefined
  TransformsDto,  \* does the bootstrap build DTO instances from request bodies?
  RetryCounts,    \* the settings of CEX_API_RETRY_COUNT; 0 also stands for NaN
  CreateBodies, UpdateBodies,   \* request bodies: a field left out is Undefined
  Kinds,          \* the kinds of request that arrive
  MaxCreates, MaxTests, MaxFaults   \* bounds on requests and on database faults

\* A fresh salt and IV for every encryption: two ciphertexts of a key differ.
\* The owner is the user whose request was encrypted.
Ciphers == [key : Keys, owner : Users, salt : Nat]

ASSUME ConstantsAssumption ==
  /\ TransformsDto \in BOOLEAN
  /\ RetryCounts \subseteq Nat /\ RetryCounts # {}
  /\ MaxCreates \in Nat /\ MaxTests \in Nat /\ MaxFaults \in Nat
  /\ DefaultRights \in Rights /\ "live" \in Envs
  /\ CreateBodies \subseteq [type : {"spot", "future", "futures", Undefined},
                              env : Envs \cup {Undefined}, key : Keys,
                              label : Labels \cup {Undefined}, rights : Rights \cup {Undefined}]
  /\ UpdateBodies \subseteq [label : Labels \cup {Undefined}, rights : Rights \cup {Undefined},
                              enabled : {"yes", "no", Undefined}]
  /\ Undefined \notin Keys \cup Envs \cup Labels \cup Rights
  /\ Undefined \notin {"spot", "futures", "yes", "no", "null", "set",
                       "disconnected", "connected", "error"}
  /\ Undefined \notin Nat /\ Undefined \notin Ciphers
  /\ Kinds \subseteq {"create", "update", "delete", "test"}

VARIABLES
  accounts,   \* the table, by id: deleted accounts keep their row
  pc,         \* where each handler is
  req,        \* the request it serves
  target,     \* the id of the row it read (0: none)
  held,       \* its entity
  dirty,      \* the columns save() found to differ
  outcome,    \* the answer it is about to give, or gave last
  attempt,    \* the attempt of testConnection's loop
  maxAttempts,   \* the retry count the process was started with
  creates, tests, faults,    \* what the bounds count
  overtaken,  \* history: was the row stored since the handler read it, before save() compared?
  answered,   \* history: the rows for which the exchange has answered
  caught      \* history: how many tests of each row have ended in the catch block

db == <<accounts, overtaken, answered, caught>>
handler == <<pc, req, target, held, dirty, outcome, attempt>>
counters == <<creates, tests, faults, maxAttempts>>
vars == <<accounts, pc, req, target, held, dirty, outcome, attempt,
          maxAttempts, creates, tests, faults, overtaken, answered, caught>>

-----------------------------------------------------------------------------
(* Rows and requests *)

NormalizedTypes == {"spot", "futures"}
Normalize(type) == IF type = "future" THEN "futures" ELSE type

Row == [user : Users, type : NormalizedTypes, env : Envs,
        hash : Keys, cipher : Ciphers, label : Labels, rights : Rights,
        enabled : {"yes", "no"}, deletedAt : {"null", "set"},
        conn : {"disconnected", "connected", "error"}, fails : Nat]

\* The entity save() is given: an undefined property leaves its column alone.
Entity == [user : Users, type : NormalizedTypes, env : Envs,
           hash : Keys, cipher : Ciphers,
           label : Labels \cup {Undefined}, rights : Rights \cup {Undefined},
           enabled : {"yes", "no"}, deletedAt : {"null", "set"},
           conn : {"disconnected", "connected", "error"}, fails : Nat]

Columns == {"hash", "cipher", "label", "rights", "enabled", "deletedAt", "conn", "fails"}

Ids == 1..MaxCreates

CreateRequests(salts) ==
  [op : {"create"}, user : Users, body : CreateBodies, salt : salts]

UpdateRequests == [op : {"update"}, user : Users, id : Ids, body : UpdateBodies]

IdRequests == [op : {"delete", "test"}, user : Users, id : Ids]

Live(row) == row.deletedAt = "null"

Given(value, old) == IF value = Undefined THEN old ELSE value

\* Slip: the defaults are filled in for every update.
RightsOfDefaulted(body) ==
  IF body.rights = Undefined THEN DefaultRights ELSE body.rights

\* A DTO instance has the creation DTO's initial values where the body gave none; so
\* has an update's, as PartialType copies them.
RightsOf(body) ==
  IF body.rights = Undefined /\ TransformsDto THEN DefaultRights ELSE body.rights

EnvOf(body) == IF body.env = Undefined /\ TransformsDto THEN "live" ELSE body.env

\* findOne drops a condition whose value is undefined.
Selects(asked, column) == asked \in {Undefined, column}

\* Slip: the requested type is compared before it is normalised.
SameSlotAsTyped(row, r) ==
  row.user = r.user /\ Selects(r.body.type, row.type) /\ Selects(EnvOf(r.body), row.env)

SameSlot(row, r) ==
  /\ row.user = r.user
  /\ Selects(Normalize(r.body.type), row.type)
  /\ Selects(EnvOf(r.body), row.env)

IndexKey(row) == <<row.user, row.type, row.hash>>

\* Would storing `row` under `id` break the unique index?  Deleted rows count.
Clashes(row, id) ==
  \E other \in DOMAIN accounts \ {id} : IndexKey(accounts[other]) = IndexKey(row)

Seal(r) == [key |-> r.body.key, owner |-> r.user, salt |-> r.salt]

\* Slip: the type is stored as it was asked for.
NewAccountAsTyped(r) ==
  [user |-> r.user, type |-> r.body.type, env |-> EnvOf(r.body),
   hash |-> r.body.key, cipher |-> Seal(r), label |-> r.body.label,
   rights |-> Given(RightsOf(r.body), DefaultRights), enabled |-> "yes", deletedAt |-> "null",
   conn |-> "disconnected", fails |-> 0]

\* A column that is left out of an INSERT gets its default.
NewAccount(r) ==
  [user |-> r.user, type |-> Normalize(r.body.type), env |-> EnvOf(r.body),
   hash |-> r.body.key, cipher |-> Seal(r), label |-> r.body.label,
   rights |-> Given(RightsOf(r.body), DefaultRights), enabled |-> "yes", deletedAt |-> "null",
   conn |-> "disconnected", fails |-> 0]

\* Would the database take it?  Type, environment and name have no default.
Insertable(r) ==
  /\ Undefined \notin {r.body.type, EnvOf(r.body), r.body.label}
  /\ ~Clashes(NewAccount(r), 0)

-----------------------------------------------------------------------------
(* What a handler does to its entity *)

\* Slip: the restore path forgets the hash.
RestoredKeepingHash(row, r) ==
  [row EXCEPT !.label = r.body.label, !.cipher = Seal(r), !.rights = RightsOf(r.body),
              !.deletedAt = "null", !.enabled = "yes"]

\* Slip: the restore path leaves the switch as it was.
RestoredAsLeft(row, r) ==
  [row EXCEPT !.label = r.body.label, !.hash = r.body.key, !.cipher = Seal(r),
              !.rights = RightsOf(r.body), !.deletedAt = "null"]

\* The restore path assigns what the body leaves out as well: save() skips it, and the
\* deleted account's value stays, like its connection status and failure count.
Restored(row, r) ==
  [row EXCEPT !.label = r.body.label, !.hash = r.body.key, !.cipher = Seal(r),
              !.rights = RightsOf(r.body), !.deletedAt = "null", !.enabled = "yes"]

\* Slip: `enabled` defaults to true, as in the entity.
UpdatedEnabling(row, body) ==
  [row EXCEPT !.label = Given(body.label, @), !.rights = Given(RightsOf(body), @),
              !.enabled = Given(body.enabled, "yes")]

Updated(row, body) ==
  [row EXCEPT !.label = Given(body.label, @), !.rights = Given(RightsOf(body), @),
              !.enabled = Given(body.enabled, @)]

Deleted(row) == [row EXCEPT !.deletedAt = "set"]

\* Slip: success does not reset the count.
ConnectedKeepingCount(row) == [row EXCEPT !.conn = "connected"]

Connected(row) == [row EXCEPT !.conn = "connected", !.fails = 0]

\* Slip: the count is set, not incremented.
FailedOnce(row) == [row EXCEPT !.conn = "error", !.fails = 1]

Failed(row) == [row EXCEPT !.conn = "error", !.fails = @ + 1]

\* The columns save() finds to differ.
Differing(entity, row) ==
  {c \in Columns : entity[c] # Undefined /\ entity[c] # row[c]}

\* The row after UPDATE ... SET of the columns in `cols`.
Merge(row, entity, cols) ==
  [user |-> row.user, type |-> row.type, env |-> row.env,
   hash      |-> IF "hash" \in cols THEN entity.hash ELSE row.hash,
   cipher    |-> IF "cipher" \in cols THEN entity.cipher ELSE row.cipher,
   label     |-> IF "label" \in cols THEN entity.label ELSE row.label,
   rights    |-> IF "rights" \in cols THEN entity.rights ELSE row.rights,
   enabled   |-> IF "enabled" \in cols THEN entity.enabled ELSE row.enabled,
   deletedAt |-> IF "deletedAt" \in cols THEN entity.deletedAt ELSE row.deletedAt,
   conn      |-> IF "conn" \in cols THEN entity.conn ELSE row.conn,
   fails     |-> IF "fails" \in cols THEN entity.fails ELSE row.fails]

-----------------------------------------------------------------------------
(* Handlers *)

Init ==
  /\ accounts = << >>
  /\ pc = [p \in Handlers |-> "idle"]
  /\ req = [p \in Handlers |-> Undefined]
  /\ target = [p \in Handlers |-> 0]
  /\ held = [p \in Handlers |-> Undefined]
  /\ dirty = [p \in Handlers |-> {}]
  /\ outcome = [p \in Handlers |-> "none"]
  /\ attempt = [p \in Handlers |-> 1]
  /\ creates = 0 /\ tests = 0 /\ faults = 0
  /\ overtaken = [p \in Handlers |-> FALSE]
  /\ answered = {} /\ caught = << >>
  /\ maxAttempts \in RetryCounts

\* The handler answers: its entity and the rest of its memory are gone.
Answer(p, result) ==
  /\ pc' = [pc EXCEPT ![p] = "idle"]
  /\ req' = [req EXCEPT ![p] = Undefined]
  /\ target' = [target EXCEPT ![p] = 0]
  /\ held' = [held EXCEPT ![p] = Undefined]
  /\ dirty' = [dirty EXCEPT ![p] = {}]
  /\ outcome' = [outcome EXCEPT ![p] = result]
  /\ attempt' = [attempt EXCEPT ![p] = 1]

\* The handler calls save(entity) for row `id`; `result` is its answer if that works.
Save(p, id, entity, result) ==
  /\ pc' = [pc EXCEPT ![p] = "load"]
  /\ target' = [target EXCEPT ![p] = id]
  /\ held' = [held EXCEPT ![p] = entity]
  /\ dirty' = [dirty EXCEPT ![p] = {}]
  /\ outcome' = [outcome EXCEPT ![p] = result]
  /\ UNCHANGED <<req, attempt>>

Receive(p, r, first) ==
  /\ pc[p] = "idle"
  /\ r.op \in Kinds
  /\ pc' = [pc EXCEPT ![p] = first]
  /\ req' = [req EXCEPT ![p] = r]
  /\ outcome' = [outcome EXCEPT ![p] = "none"]
  /\ UNCHANGED <<db, target, held, dirty, attempt, faults, maxAttempts>>

ReceiveCreate(p) ==
  /\ creates < MaxCreates
  /\ creates' = creates + 1
  /\ \E r \in CreateRequests({creates + 1}) : Receive(p, r, "findLive")
  /\ UNCHANGED tests

ReceiveUpdate(p) ==
  /\ \E r \in UpdateRequests : Receive(p, r, "find")
  /\ UNCHANGED <<creates, tests>>

ReceiveDelete(p) ==
  /\ \E r \in IdRequests : r.op = "delete" /\ Receive(p, r, "find")
  /\ UNCHANGED <<creates, tests>>

ReceiveTest(p) ==
  /\ tests < MaxTests
  /\ tests' = tests + 1
  /\ \E r \in IdRequests : r.op = "test" /\ Receive(p, r, "find")
  /\ UNCHANGED creates

(* createCexAccount *)

\* Slip: the lookup also asks for the same API key, as the entity's @Unique does.
FindLiveOfKey(p) ==
  /\ pc[p] = "findLive"
  /\ IF \E id \in DOMAIN accounts :
          /\ Live(accounts[id]) /\ SameSlot(accounts[id], req[p])
          /\ accounts[id].hash = req[p].body.key
     THEN Answer(p, "conflict")
     ELSE /\ pc' = [pc EXCEPT ![p] = "findDeleted"]
          /\ UNCHANGED <<req, target, held, dirty, outcome, attempt>>
  /\ UNCHANGED <<db, counters>>

FindLive(p) ==
  /\ pc[p] = "findLive"
  /\ IF \E id \in DOMAIN accounts : Live(accounts[id]) /\ SameSlot(accounts[id], req[p])
     THEN Answer(p, "conflict")
     ELSE /\ pc' = [pc EXCEPT ![p] = "findDeleted"]
          /\ UNCHANGED <<req, target, held, dirty, outcome, attempt>>
  /\ UNCHANGED <<db, counters>>

DeletedInSlot(r) ==
  {id \in DOMAIN accounts : ~Live(accounts[id]) /\ SameSlot(accounts[id], r)}

FindDeleted(p) ==
  /\ pc[p] = "findDeleted"
  /\ \/ \E id \in DeletedInSlot(req[p]) :
          Save(p, id, Restored(accounts[id], req[p]), "restored")
     \/ /\ DeletedInSlot(req[p]) = {}
        /\ pc' = [pc EXCEPT ![p] = "insert"]
        /\ UNCHANGED <<req, target, held, dirty, outcome, attempt>>
  /\ UNCHANGED <<db, counters>>

Insert(p) ==
  /\ pc[p] = "insert"
  /\ IF Insertable(req[p])
     THEN /\ accounts' = Append(accounts, NewAccount(req[p]))
          /\ caught' = Append(caught, 0)
          /\ Answer(p, "created")
     ELSE /\ Answer(p, "dbError")
          /\ UNCHANGED <<accounts, caught>>
  /\ UNCHANGED <<overtaken, answered, counters>>

(* updateCexAccount, deleteAccountSoft and testConnection start alike *)

\* Slip: userId is missing from the where clause.
FoundOfAnyone(r) == r.id \in DOMAIN accounts /\ Live(accounts[r.id])

Found(r) ==
  /\ r.id \in DOMAIN accounts
  /\ Live(accounts[r.id])
  /\ accounts[r.id].user = r.user

Find(p) ==
  LET r == req[p] IN
  /\ pc[p] = "find"
  /\ \/ /\ ~Found(r)
        /\ Answer(p, "notFound")
     \/ /\ Found(r) /\ r.op = "update"
        /\ Save(p, r.id, Updated(accounts[r.id], r.body), "updated")
     \/ /\ Found(r) /\ r.op = "delete"
        /\ Save(p, r.id, Deleted(accounts[r.id]), "deleted")
     \/ /\ Found(r) /\ r.op = "test"
        /\ pc' = [pc EXCEPT ![p] = "probe"]
        /\ target' = [target EXCEPT ![p] = r.id]
        /\ held' = [held EXCEPT ![p] = accounts[r.id]]
        /\ UNCHANGED <<req, dirty, outcome, attempt>>
  /\ UNCHANGED <<db, counters>>

(* testConnection: the calls of the exchange *)

\* Slip: a failed test starts over.
CatchRetries(p) ==
  /\ pc' = [pc EXCEPT ![p] = "probe"]
  /\ attempt' = [attempt EXCEPT ![p] = 1]
  /\ UNCHANGED <<req, target, held, dirty, outcome, caught>>

\* The catch block: count the failure, save the entity.
Catch(p) ==
  /\ Save(p, target[p], Failed(held[p]), "failed")
  /\ caught' = [caught EXCEPT ![target[p]] = @ + 1]

ProbeSucceeds(p) ==
  /\ pc[p] = "probe"
  /\ attempt[p] <= maxAttempts
  /\ Save(p, target[p], Connected(held[p]), "connected")
  /\ answered' = answered \cup {target[p]}
  /\ UNCHANGED <<accounts, overtaken, caught, counters>>

\* The loop ends without a call when CEX_API_RETRY_COUNT is 0 or not a number.
ProbeSkipped(p) ==
  /\ pc[p] = "probe"
  /\ attempt[p] > maxAttempts
  /\ Save(p, target[p], Connected(held[p]), "connected")
  /\ UNCHANGED <<db, counters>>

\* Slip: attempt <= maxAttempts, so the loop runs out without a throw.
ProbeFailsQuietly(p) ==
  /\ pc[p] = "probe"
  /\ attempt[p] <= maxAttempts
  /\ attempt' = [attempt EXCEPT ![p] = @ + 1]
  /\ UNCHANGED <<pc, req, target, held, dirty, outcome, db, counters>>

ProbeFails(p) ==
  /\ pc[p] = "probe"
  /\ attempt[p] <= maxAttempts
  /\ IF attempt[p] < maxAttempts
     THEN /\ attempt' = [attempt EXCEPT ![p] = @ + 1]
          /\ UNCHANGED <<pc, req, target, held, dirty, outcome, caught>>
     ELSE Catch(p)
  /\ UNCHANGED <<accounts, overtaken, answered, counters>>

\* Before the loop: a ciphertext that does not decrypt under the master key in
\* force, or an exchange name ccxt does not know.
ProbeImpossible(p) ==
  /\ pc[p] = "probe"
  /\ attempt[p] = 1
  /\ Catch(p)
  /\ UNCHANGED <<accounts, overtaken, answered, counters>>

(* save(entity), and what happens when it throws *)

\* Slip: save() stores the whole entity.
LoadAll(p) ==
  /\ pc[p] = "load"
  /\ pc' = [pc EXCEPT ![p] = "write"]
  /\ dirty' = [dirty EXCEPT ![p] = {c \in Columns : held[p][c] # Undefined}]
  /\ UNCHANGED <<db, counters, req, target, held, outcome, attempt>>

Load(p) ==
  /\ pc[p] = "load"
  /\ pc' = [pc EXCEPT ![p] = "write"]
  /\ dirty' = [dirty EXCEPT ![p] = Differing(held[p], accounts[target[p]])]
  /\ UNCHANGED <<db, counters, req, target, held, outcome, attempt>>

\* Only testConnection's success path has a catch around save().
SaveThrows(p) ==
  IF outcome[p] = "connected"
  THEN Catch(p)
  ELSE Answer(p, "dbError") /\ UNCHANGED caught

Stored(p) == Merge(accounts[target[p]], held[p], dirty[p])

\* Will q compare its entity with the row, now or again in its catch block?
Behind(q) == pc[q] \in {"probe", "load"} \/ (pc[q] = "write" /\ outcome[q] = "connected")

\* History: a step of p that changes its row overtakes whoever has yet to compare.
Overtake(p) ==
  overtaken' = [q \in Handlers |->
    IF q = p THEN overtaken[q] /\ pc'[q] # "idle"
             ELSE overtaken[q] \/ (accounts' # accounts /\ target[q] = target[p] /\ Behind(q))]

Write(p) ==
  /\ pc[p] = "write"
  /\ IF Clashes(Stored(p), target[p])
     THEN SaveThrows(p) /\ UNCHANGED accounts
     ELSE /\ accounts' = [accounts EXCEPT ![target[p]] = Stored(p)]
          /\ Answer(p, outcome[p])
          /\ UNCHANGED caught
  /\ Overtake(p)
  /\ UNCHANGED <<answered, counters>>

(* Faults *)

\* A statement fails, or it commits and its acknowledgement is lost.
DbFault(p) ==
  /\ faults < MaxFaults
  /\ faults' = faults + 1
  /\ \/ /\ pc[p] \in {"findLive", "findDeleted", "find", "insert"}
        /\ Answer(p, "dbError")
        /\ UNCHANGED <<accounts, caught>>
     \/ /\ pc[p] \in {"load", "write"}
        /\ SaveThrows(p)
        /\ UNCHANGED accounts
     \/ /\ pc[p] = "write"
        /\ ~Clashes(Stored(p), target[p])
        /\ accounts' = [accounts EXCEPT ![target[p]] = Stored(p)]
        /\ SaveThrows(p)
     \/ /\ pc[p] = "insert"
        /\ Insertable(req[p])
        /\ accounts' = Append(accounts, NewAccount(req[p]))
        /\ caught' = Append(caught, 0)
        /\ Answer(p, "dbError")
  /\ Overtake(p)
  /\ UNCHANGED <<answered, creates, tests, maxAttempts>>

\* The process restarts: every request in flight is lost, the table stays.
Restart ==
  /\ \E p \in Handlers : pc[p] # "idle"
  /\ pc' = [p \in Handlers |-> "idle"]
  /\ req' = [p \in Handlers |-> Undefined]
  /\ target' = [p \in Handlers |-> 0]
  /\ held' = [p \in Handlers |-> Undefined]
  /\ dirty' = [p \in Handlers |-> {}]
  /\ outcome' = [p \in Handlers |-> "none"]
  /\ attempt' = [p \in Handlers |-> 1]
  /\ overtaken' = [p \in Handlers |-> FALSE]
  /\ UNCHANGED <<accounts, answered, caught, counters>>

\* A step the process takes by itself once it has the request.
Proceed(p) ==
  \/ FindLive(p) \/ FindDeleted(p) \/ Insert(p) \/ Find(p)
  \/ ProbeSucceeds(p) \/ ProbeSkipped(p) \/ ProbeFails(p) \/ ProbeImpossible(p)
  \/ Load(p) \/ Write(p)

Next ==
  \/ \E p \in Handlers :
       \/ ReceiveCreate(p) \/ ReceiveUpdate(p) \/ ReceiveDelete(p) \/ ReceiveTest(p)
       \/ Proceed(p)
       \/ DbFault(p)
  \/ Restart

Spec == Init /\ [][Next]_vars

\* Node's event loop, the driver's and ccxt's timeouts bring every handler on.
FairSpec == Spec /\ \A p \in Handlers : WF_vars(Proceed(p))

-----------------------------------------------------------------------------
(* Properties *)

Requests == CreateRequests(1..MaxCreates) \cup UpdateRequests \cup IdRequests

Places == {"idle", "findLive", "findDeleted", "insert", "find", "probe", "load", "write"}

Outcomes == {"none", "conflict", "notFound", "dbError", "created", "restored", "updated",
             "deleted", "connected", "failed"}

TypeOK ==
  /\ accounts \in Seq(Row)
  /\ pc \in [Handlers -> Places]
  /\ req \in [Handlers -> Requests \cup {Undefined}]
  /\ target \in [Handlers -> 0..Len(accounts)]
  /\ held \in [Handlers -> Entity \cup {Undefined}]
  /\ dirty \in [Handlers -> SUBSET Columns]
  /\ outcome \in [Handlers -> Outcomes]
  /\ attempt \in [Handlers -> 1..(maxAttempts + 1)]
  /\ maxAttempts \in RetryCounts
  /\ creates \in 0..MaxCreates /\ tests \in 0..MaxTests /\ faults \in 0..MaxFaults
  /\ overtaken \in [Handlers -> BOOLEAN]
  /\ answered \subseteq DOMAIN accounts
  /\ caught \in Seq(Nat) /\ Len(caught) = Len(accounts)

\* Saving(p, id): p's next step can update row `id`.
Saving(p, id) == pc[p] = "write" /\ target[p] = id

\* A user has at most one live account per exchange, type and environment: what the
\* ConflictException of createCexAccount promises.
OneLiveRowPerSlot ==
  \A i, j \in DOMAIN accounts :
    (/\ Live(accounts[i]) /\ Live(accounts[j])
     /\ accounts[i].user = accounts[j].user /\ accounts[i].type = accounts[j].type
     /\ accounts[i].env = accounts[j].env) => i = j

\* A row changes only by a handler that serves its owner, and what it stores was
\* sealed for that owner: the where clauses keep users apart, through every
\* stale entity and retry.
OwnersApart ==
  /\ \A id \in DOMAIN accounts : accounts[id].cipher.owner = accounts[id].user
  /\ \A p \in Handlers : target[p] # 0 =>
       /\ accounts[target[p]].user = req[p].user
       /\ held[p].user = req[p].user
       /\ held[p].cipher.owner = req[p].user

\* With at least one attempt configured, a row says "connected" only if the exchange
\* has answered for it; and however the saves of tests are interleaved, fail or run into
\* a fault, it counts no more failures than tests of it have ended in the catch block.
\* (What they caught need not be the exchange's failure: see the README.)
StatusHasEvidence ==
  \A id \in DOMAIN accounts :
    /\ maxAttempts > 0 /\ accounts[id].conn = "connected" => id \in answered
    /\ accounts[id].fails <= caught[id]

\* The hash kept for lookup is the hash of the key that is encrypted beside it.
HashMatchesCipher ==
  \A id \in DOMAIN accounts : accounts[id].hash = accounts[id].cipher.key

\* Error status and failure count tell the same story.
HealthMatchesCount ==
  \A id \in DOMAIN accounts : accounts[id].conn = "error" <=> accounts[id].fails > 0

\* A deleted account comes back only by createCexAccount's restore path.
DeletedStaysDeleted ==
  [][\A id \in DOMAIN accounts :
       ~Live(accounts[id]) /\ Live(accounts'[id]) =>
         \E p \in Handlers : Saving(p, id) /\ outcome[p] = "restored"]_vars

\* A disabled account is enabled again only by an update that asks for it or by
\* the restore path.
DisabledStaysDisabled ==
  [][\A id \in DOMAIN accounts :
       accounts[id].enabled = "no" /\ accounts'[id].enabled = "yes" =>
         \E p \in Handlers :
           /\ Saving(p, id)
           /\ \/ outcome[p] = "restored"
              \/ outcome[p] = "updated" /\ req[p].body.enabled = "yes"]_vars

\* The columns each operation is about.
OwnColumns(result) ==
  CASE result = "restored" -> {"hash", "cipher", "label", "rights", "enabled", "deletedAt"}
    [] result = "updated" -> {"label", "rights", "enabled"}
    [] result = "deleted" -> {"deletedAt"}
    [] result \in {"connected", "failed"} -> {"conn", "fails"}
    [] OTHER -> {}

\* A save() disturbs what another request stored only if that request overtook it between
\* its lookup and the comparison: otherwise it changes no column but those its operation is
\* about, whatever is stored between the comparison and the UPDATE.
OnlyOvertakenDisturb ==
  [][\A p \in Handlers :
       pc[p] = "write" /\ pc'[p] # "write" /\ ~overtaken[p] =>
         \A c \in Columns \ OwnColumns(outcome[p]) :
           accounts'[target[p]][c] = accounts[target[p]][c]]_vars

\* Only the restore path, which takes a new API key, changes stored credentials.
OnlyRestoreChangesKeys ==
  [][\A id \in DOMAIN accounts :
       accounts[id].cipher # accounts'[id].cipher =>
         \E p \in Handlers : Saving(p, id) /\ outcome[p] = "restored"]_vars

\* An update leaves alone what its body leaves out.  (Request bodies reach the
\* service as sent: with TransformsDto they carry PartialType's defaults.)
OmittedFieldsKeep ==
  [][\A p \in Handlers :
       pc[p] = "write" /\ pc'[p] = "idle" /\ outcome[p] = "updated" =>
         /\ req[p].body.label = Undefined =>
              accounts'[target[p]].label = accounts[target[p]].label
         /\ req[p].body.rights = Undefined =>
              accounts'[target[p]].rights = accounts[target[p]].rights]_vars

\* A connection test that reports failure, and stores that report, adds one to
\* the count of failures in a row.
FailuresAreCounted ==
  [][\A p \in Handlers :
       pc[p] = "write" /\ outcome[p] = "failed" /\ outcome'[p] = "failed"
         /\ pc'[p] = "idle" =>
           accounts'[target[p]].fails = accounts[target[p]].fails + 1]_vars

\* createCexAccount answers with an account only if the slot had no live account
\* until this very step.
CreateNeedsFreeSlot ==
  [][\A p \in Handlers :
       pc[p] # "idle" /\ outcome'[p] \in {"created", "restored"} /\ pc'[p] = "idle" =>
         ~\E id \in DOMAIN accounts : Live(accounts[id]) /\ SameSlot(accounts[id], req[p])]_vars

\* Every request is answered, or lost in a restart: the retry loop and the save
\* in the catch block end.
EveryRequestEnds == \A p \in Handlers : pc[p] # "idle" ~> pc[p] = "idle"

(* What clients see *)

Shown(row) ==
  [user |-> row.user, type |-> row.type, env |-> row.env, key |-> row.cipher.key,
   label |-> row.label, rights |-> row.rights, enabled |-> row.enabled,
   state |-> IF Live(row) THEN "open" ELSE "closed"]

Book == [id \in DOMAIN accounts |-> Shown(accounts[id])]

\* What a request asks for, once its body has become a DTO.
Meaning(r) ==
  CASE r.op = "create" ->
         [op |-> r.op, user |-> r.user, type |-> Normalize(r.body.type), env |-> EnvOf(r.body),
          key |-> r.body.key, label |-> r.body.label, rights |-> RightsOf(r.body)]
    [] r.op = "update" ->
         [op |-> r.op, user |-> r.user, id |-> r.id, label |-> r.body.label,
          rights |-> RightsOf(r.body), enabled |-> r.body.enabled]
    [] OTHER -> r

Asked == {Meaning(req[p]) : p \in {q \in Handlers : pc[q] # "idle"}}

Told == {outcome[p] : p \in {q \in Handlers : pc[q] = "idle"}}

Registry == INSTANCE AccountRegistry WITH
  Types <- NormalizedTypes, None <- Undefined, book <- Book, asked <- Asked, told <- Told

\* One request at a time, the service is the registry to its clients: each request takes
\* effect at one step, and is told what it did.
ImplementsRegistry == Registry!Spec

=============================================================================
