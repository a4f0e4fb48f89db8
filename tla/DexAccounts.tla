------------------------------ MODULE DexAccounts ------------------------------
(***************************************************************************)
(* DexAccountsService and its table of wallets.  Requests interleave at    *)
(* every await, and save(entity) selects the row again, compares and       *)
(* updates, as in CexAccounts.  There is no restore path here; a deletion  *)
(* is one UPDATE by id.  `label` stands for the columns an update may set, *)
(* `settings` for configuration and dexConfiguration, `conn` for           *)
(* connectionStatus together with healthStatus.                            *)
(***************************************************************************)
EXTENDS Integers, Sequences, FiniteSets

CONSTANTS
  Handlers,      \* requests the server can have in flight
  Users, Chains, Wallets, Labels,
  RpcChains,     \* the chains of RPC_ENDPOINTS
  Settings, Null, Undefined,
  UpdateBodies,  \* bodies of update requests: a field left out is Undefined
  MaxCreates, MaxTests, MaxFaults   \* bounds on requests and on database faults

ASSUME DexAssumption ==
  /\ RpcChains \subseteq Chains
  /\ Null \notin Settings /\ Undefined \notin Settings
  /\ UpdateBodies \subseteq
       [wallet : Wallets \cup {Undefined}, label : Labels \cup {Undefined},
        settings : Settings \cup {Undefined}]
  /\ MaxCreates \in Nat /\ MaxTests \in Nat /\ MaxFaults \in Nat

VARIABLES
  accounts,   \* the table, by id: deleted accounts keep their row
  pc, req, target, held, dirty,  \* a request: where it is, its body, row id, entity, changes
  outcome,    \* the answer it is about to give, or gave last
  creates, tests, faults,   \* what the bounds count
  evidence,   \* history: how the connection tests of each account ended
  overtaken   \* history: the handlers whose row was deleted after they read it, before
              \* their save() selected it again

handler == <<pc, req, target, held, dirty, outcome>>
counters == <<creates, tests, faults>>
vars == <<accounts, pc, req, target, held, dirty, outcome, creates, tests, faults, evidence,
          overtaken>>

-----------------------------------------------------------------------------
(* Rows and requests *)

Row == [user : Users, chain : Chains, wallet : Wallets, label : Labels,
        settings : Settings \cup {Null}, deletedAt : {"null", "set"},
        conn : {"disconnected", "connected", "error"}]

Columns == {"wallet", "label", "settings", "deletedAt", "conn"}

CreateRequests ==
  [op : {"create"}, user : Users, chain : Chains, wallet : Wallets, label : Labels,
   settings : Settings]

IdRequests == [op : {"update"}, user : Users, id : 1..MaxCreates, body : UpdateBodies]
  \cup [op : {"delete", "test"}, user : Users, id : 1..MaxCreates, body : {Undefined}]

Live(row) == row.deletedAt = "null"

SameWallet(a, b) == a.user = b.user /\ a.chain = b.chain /\ a.wallet = b.wallet

\* Would storing `row` under `id` break the unique index?  Deleted rows count.
Clashes(row, id) == \E other \in DOMAIN accounts \ {id} : SameWallet(accounts[other], row)

\* create() drops accountConfiguration and additionalDexConfiguration, which are
\* not columns of the entity: the settings asked for are not stored.
NewAccount(r) ==
  [user |-> r.user, chain |-> r.chain, wallet |-> r.wallet, label |-> r.label,
   settings |-> Null, deletedAt |-> "null", conn |-> "disconnected"]

\* Slip: a field is assigned without looking whether the body has it.
Assigned(value, old) == value

Given(value, old) == IF value = Undefined THEN old ELSE value

\* Slip: the fields inherited from the creation DTO are assigned as well.
UpdatedAll(row, body) ==
  [row EXCEPT !.wallet = Given(body.wallet, @), !.label = Given(body.label, @),
              !.settings = Given(body.settings, @)]

\* The body may carry a wallet address; it is not looked at.
Updated(row, body) ==
  [row EXCEPT !.label = Given(body.label, @), !.settings = Given(body.settings, @)]

Marked(row, status) == [row EXCEPT !.conn = status]

\* The row after UPDATE ... SET of the columns in `cols`.
Merge(row, entity, cols) == [c \in DOMAIN row |-> IF c \in cols THEN entity[c] ELSE row[c]]

-----------------------------------------------------------------------------
(* Handlers *)

Init ==
  /\ accounts = << >>
  /\ pc = [p \in Handlers |-> "idle"]
  /\ req = [p \in Handlers |-> Undefined]
  /\ target = [p \in Handlers |-> 0]
  /\ held = [p \in Handlers |-> Undefined]
  /\ dirty = [p \in Handlers |-> {}]
  /\ outcome = [p \in Handlers |-> "none"]
  /\ creates = 0 /\ tests = 0 /\ faults = 0
  /\ evidence = {} /\ overtaken = {}

\* The handler answers: its memory is gone.
Answer(p, result) ==
  /\ pc' = [pc EXCEPT ![p] = "idle"]
  /\ req' = [req EXCEPT ![p] = Undefined]
  /\ target' = [target EXCEPT ![p] = 0]
  /\ held' = [held EXCEPT ![p] = Undefined]
  /\ dirty' = [dirty EXCEPT ![p] = {}]
  /\ outcome' = [outcome EXCEPT ![p] = result]

\* The handler holds `entity`, read from or made for row `id`, and goes on.
Hold(p, id, entity, place, result) ==
  /\ pc' = [pc EXCEPT ![p] = place]
  /\ target' = [target EXCEPT ![p] = id]
  /\ held' = [held EXCEPT ![p] = entity]
  /\ dirty' = [dirty EXCEPT ![p] = {}]
  /\ outcome' = [outcome EXCEPT ![p] = result]
  /\ UNCHANGED req

Save(p, id, entity, result) == Hold(p, id, entity, "load", result)

Receive(p, r, place) ==
  /\ pc[p] = "idle"
  /\ pc' = [pc EXCEPT ![p] = place]
  /\ req' = [req EXCEPT ![p] = r]
  /\ outcome' = [outcome EXCEPT ![p] = "none"]
  /\ UNCHANGED <<accounts, target, held, dirty, faults, evidence, overtaken>>

ReceiveCreate(p) ==
  /\ creates < MaxCreates
  /\ creates' = creates + 1
  /\ \E r \in CreateRequests : Receive(p, r, "findWallet")
  /\ UNCHANGED tests

ReceiveById(p) ==
  /\ \E r \in IdRequests :
       /\ Receive(p, r, "find")
       /\ tests' = IF r.op = "test" THEN tests + 1 ELSE tests
       /\ tests' <= MaxTests
  /\ UNCHANGED creates

(* createDexAccount *)

\* findOne leaves deleted rows out, the unique index does not.
FindWallet(p) ==
  /\ pc[p] = "findWallet"
  /\ IF \E id \in DOMAIN accounts : Live(accounts[id]) /\ SameWallet(accounts[id], req[p])
     THEN Answer(p, "conflict")
     ELSE pc' = [pc EXCEPT ![p] = "insert"] /\ UNCHANGED <<req, target, held, dirty, outcome>>
  /\ UNCHANGED <<accounts, evidence, overtaken, counters>>

Insert(p) ==
  /\ pc[p] = "insert"
  /\ \/ /\ Clashes(NewAccount(req[p]), 0)
        /\ Answer(p, "dbError")
        /\ UNCHANGED accounts
     \/ /\ ~Clashes(NewAccount(req[p]), 0)
        /\ accounts' = Append(accounts, NewAccount(req[p]))
        /\ Answer(p, "created")
  /\ UNCHANGED <<evidence, overtaken, counters>>

(* updateDexAccount, deleteAccountSoft and connectionTest start alike *)

\* Slip: userId is missing from the where clause.
FoundOfAnyone(r) == r.id \in DOMAIN accounts /\ Live(accounts[r.id])

Found(r) ==
  /\ r.id \in DOMAIN accounts
  /\ Live(accounts[r.id])
  /\ accounts[r.id].user = r.user

Find(p) ==
  LET r == req[p] IN
  /\ pc[p] = "find"
  /\ \/ ~Found(r) /\ Answer(p, "notFound")
     \/ /\ Found(r) /\ r.op = "update"
        /\ Save(p, r.id, Updated(accounts[r.id], r.body), "updated")
     \/ /\ Found(r) /\ r.op = "delete"
        /\ Hold(p, r.id, accounts[r.id], "softDelete", "none")
     \/ /\ Found(r) /\ r.op = "test"
        /\ Hold(p, r.id, accounts[r.id], "probe", "none")
  /\ overtaken' = overtaken \ {p}
  /\ UNCHANGED <<accounts, evidence, counters>>

\* Will q compare its entity with the row, now or again in its catch block?
Behind(q) == pc[q] \in {"probe", "load"} \/ (pc[q] = "write" /\ outcome[q] = "connected")

\* UPDATE ... SET deletedAt WHERE id: no other column, and no second look at the owner.
MarkDeleted(p) ==
  /\ accounts' = [accounts EXCEPT ![target[p]].deletedAt = "set"]
  /\ overtaken' = overtaken \cup {q \in Handlers : target[q] = target[p] /\ Behind(q)}

SoftDelete(p) ==
  /\ pc[p] = "softDelete"
  /\ MarkDeleted(p)
  /\ Answer(p, "deleted")
  /\ UNCHANGED <<evidence, counters>>

(* connectionTest *)

Observe(p, ok) == evidence' = evidence \cup {[id |-> target[p], ok |-> ok]}

\* The catch block marks the entity and saves it.
Catch(p) == Save(p, target[p], Marked(held[p], "error"), "failed") /\ Observe(p, FALSE)

\* The balance arrives.
ProbeSucceeds(p) ==
  /\ pc[p] = "probe" /\ held[p].chain \in RpcChains
  /\ Save(p, target[p], Marked(held[p], "connected"), "connected")
  /\ Observe(p, TRUE)
  /\ UNCHANGED <<accounts, overtaken, counters>>

ProbeFails(p) ==
  /\ pc[p] = "probe" /\ held[p].chain \in RpcChains
  /\ Catch(p)
  /\ UNCHANGED <<accounts, overtaken, counters>>

\* Slip: a chain is not looked up, an address is accepted without a call.
ProbeSkippedAlways(p) ==
  /\ pc[p] = "probe"
  /\ Save(p, target[p], Marked(held[p], "connected"), "connected")
  /\ UNCHANGED <<accounts, evidence, overtaken, counters>>

\* No RPC endpoint for the chain: the address is accepted without a call.
ProbeSkipped(p) ==
  /\ pc[p] = "probe" /\ held[p].chain \notin RpcChains
  /\ Save(p, target[p], Marked(held[p], "connected"), "connected")
  /\ UNCHANGED <<accounts, evidence, overtaken, counters>>

(* save(entity) *)

\* Slip: save() stores the whole entity.
LoadAll(p) ==
  /\ pc[p] = "load"
  /\ pc' = [pc EXCEPT ![p] = "write"]
  /\ dirty' = [dirty EXCEPT ![p] = Columns]
  /\ UNCHANGED <<accounts, req, target, held, outcome, evidence, overtaken, counters>>

Load(p) ==
  /\ pc[p] = "load"
  /\ pc' = [pc EXCEPT ![p] = "write"]
  /\ dirty' = [dirty EXCEPT ![p] = {c \in Columns : held[p][c] # accounts[target[p]][c]}]
  /\ UNCHANGED <<accounts, req, target, held, outcome, evidence, overtaken, counters>>

\* Only the saves in connectionTest's try block have a catch.
SaveThrows(p) ==
  IF outcome[p] = "connected" THEN Catch(p)
                              ELSE Answer(p, "dbError") /\ UNCHANGED evidence

Stored(p) == Merge(accounts[target[p]], held[p], dirty[p])

Write(p) ==
  /\ pc[p] = "write"
  /\ IF Clashes(Stored(p), target[p])
     THEN SaveThrows(p) /\ UNCHANGED <<accounts, overtaken>>
     ELSE /\ accounts' = [accounts EXCEPT ![target[p]] = Stored(p)]
          /\ Answer(p, outcome[p])
          /\ overtaken' = overtaken \ {p}
          /\ UNCHANGED evidence
  /\ UNCHANGED counters

(* Faults *)

\* A statement fails, or it commits and its acknowledgement is lost.
DbFault(p) ==
  /\ faults < MaxFaults
  /\ faults' = faults + 1
  /\ \/ /\ pc[p] \in {"findWallet", "find", "insert", "softDelete"}
        /\ Answer(p, "dbError")
        /\ UNCHANGED <<accounts, evidence, overtaken>>
     \/ /\ pc[p] \in {"load", "write"}
        /\ SaveThrows(p)
        /\ UNCHANGED <<accounts, overtaken>>
     \/ /\ pc[p] = "write" /\ ~Clashes(Stored(p), target[p])
        /\ accounts' = [accounts EXCEPT ![target[p]] = Stored(p)]
        /\ SaveThrows(p)
        /\ UNCHANGED overtaken
     \/ /\ pc[p] = "softDelete"
        /\ MarkDeleted(p)
        /\ Answer(p, "dbError")
        /\ UNCHANGED evidence
     \/ /\ pc[p] = "insert" /\ ~Clashes(NewAccount(req[p]), 0)
        /\ accounts' = Append(accounts, NewAccount(req[p]))
        /\ Answer(p, "dbError")
        /\ UNCHANGED <<evidence, overtaken>>
  /\ UNCHANGED <<creates, tests>>

\* The process restarts: requests in flight are lost, the table stays.
Restart ==
  /\ \E p \in Handlers : pc[p] # "idle"
  /\ pc' = [p \in Handlers |-> "idle"]
  /\ req' = [p \in Handlers |-> Undefined]
  /\ target' = [p \in Handlers |-> 0]
  /\ held' = [p \in Handlers |-> Undefined]
  /\ dirty' = [p \in Handlers |-> {}]
  /\ outcome' = [p \in Handlers |-> "none"]
  /\ overtaken' = {}
  /\ UNCHANGED <<accounts, evidence, counters>>

Next ==
  \/ \E p \in Handlers :
       \/ ReceiveCreate(p) \/ ReceiveById(p)
       \/ FindWallet(p) \/ Insert(p)
       \/ Find(p) \/ SoftDelete(p)
       \/ ProbeSucceeds(p) \/ ProbeFails(p) \/ ProbeSkipped(p)
       \/ Load(p) \/ Write(p)
       \/ DbFault(p)
  \/ Restart

Spec == Init /\ [][Next]_vars

-----------------------------------------------------------------------------
(* Properties *)

TypeOK ==
  /\ accounts \in Seq(Row)
  /\ pc \in [Handlers -> {"idle", "findWallet", "insert", "find", "softDelete", "probe",
                          "load", "write"}]
  /\ req \in [Handlers -> CreateRequests \cup IdRequests \cup {Undefined}]
  /\ target \in [Handlers -> 0..Len(accounts)]
  /\ held \in [Handlers -> Row \cup {Undefined}]
  /\ dirty \in [Handlers -> SUBSET Columns]
  /\ outcome \in [Handlers -> {"none", "conflict", "notFound", "dbError", "created", "updated",
                               "deleted", "connected", "failed"}]
  /\ creates \in 0..MaxCreates /\ tests \in 0..MaxTests /\ faults \in 0..MaxFaults
  /\ overtaken \subseteq Handlers

\* What an account says of its connection rests on a test of it: "connected", on a
\* chain with an RPC endpoint, on a balance that was fetched; "error" on a test that
\* failed, or whose result could not be stored.
StatusHasEvidence ==
  \A id \in DOMAIN accounts :
    LET row == accounts[id] IN
    /\ row.conn = "connected" /\ row.chain \in RpcChains =>
         \E e \in evidence : e.id = id /\ e.ok
    /\ row.conn = "error" => \E e \in evidence : e.id = id /\ ~e.ok

\* A live account is deleted only while its owner's delete request is served:
\* softDelete(accountId) does not name the owner, the lookup before it did.
DeletedByOwner ==
  [][\A id \in DOMAIN accounts :
       Live(accounts[id]) /\ ~Live(accounts'[id]) =>
         \E p \in Handlers :
           /\ target[p] = id
           /\ req[p].op = "delete" /\ req[p].user = accounts[id].user]_vars

\* There is no restore path: a deleted account comes back only with a save() of a handler
\* that read it before the deletion and selects it after; a deletion between the
\* comparison and the UPDATE of a save() stands.
RevivedOnlyIfOvertaken ==
  [][\A id \in DOMAIN accounts :
       ~Live(accounts[id]) /\ Live(accounts'[id]) =>
         \E p \in overtaken : pc[p] = "write" /\ target[p] = id]_vars

\* No request moves an account to another wallet, chain or user, though the update
\* DTO inherits the fields ("can not be changed through DTO update").
WalletsFixed ==
  [][\A id \in DOMAIN accounts :
       id \in DOMAIN accounts' /\ SameWallet(accounts'[id], accounts[id])]_vars

=============================================================================
