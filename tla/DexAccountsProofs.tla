--------------------------- MODULE DexAccountsProofs ---------------------------
(***************************************************************************)
(* Theorems about DexAccounts, for every set of users, chains, wallets and *)
(* handlers and every bound.  Inv is inductive: a request that holds an    *)
(* entity holds a live one of its own user, for the wallet the row is for, *)
(* and with a status that has its evidence, because a later Write may      *)
(* store any column of it.                                                 *)
(***************************************************************************)
EXTENDS DexAccounts, SequenceTheorems, TLAPS

-----------------------------------------------------------------------------
(* What the operators on rows return *)

Statuses == {"disconnected", "connected", "error"}

\* The parts of the two kinds of request.
LEMMA RequestFields ==
  /\ \A r \in CreateRequests :
       /\ r.user \in Users /\ r.chain \in Chains /\ r.wallet \in Wallets
       /\ r.label \in Labels
  /\ \A r \in IdRequests :
       /\ r.op \in {"update", "delete", "test"} /\ r.user \in Users /\ r.id \in 1..MaxCreates
       /\ r.op = "update" => r.body \in UpdateBodies
BY DEF CreateRequests, IdRequests

\* One column of a row may be given any value of its type.
LEMMA SetColumn ==
  ASSUME NEW x \in Row
  PROVE  /\ \A v \in Labels : [x EXCEPT !.label = v] \in Row
         /\ \A v \in Settings \cup {Null} : [x EXCEPT !.settings = v] \in Row
         /\ \A v \in {"null", "set"} : [x EXCEPT !.deletedAt = v] \in Row
         /\ \A v \in Statuses : [x EXCEPT !.conn = v] \in Row
BY SMT DEF Row, Statuses

\* A new account is a live row for the wallet asked for, never tested.
LEMMA NewOK ==
  ASSUME NEW r \in CreateRequests
  PROVE  /\ NewAccount(r) \in Row
         /\ SameWallet(NewAccount(r), r)
         /\ NewAccount(r).conn = "disconnected"
BY RequestFields DEF NewAccount, Row, SameWallet

\* An update leaves wallet, status and deletion alone.
LEMMA UpdatedOK ==
  ASSUME NEW row \in Row, NEW body \in UpdateBodies
  PROVE  /\ Updated(row, body) \in Row
         /\ SameWallet(Updated(row, body), row)
         /\ Updated(row, body).conn = row.conn
         /\ Updated(row, body).deletedAt = row.deletedAt
<1>1. /\ body.label \in Labels \cup {Undefined}
      /\ body.settings \in Settings \cup {Undefined}
  BY DexAssumption DEF DexAssumption
<1>2. row.label \in Labels /\ row.settings \in Settings \cup {Null}
  BY DEF Row
<1>3. /\ Given(body.label, row.label) \in Labels
      /\ Given(body.settings, row.settings) \in Settings \cup {Null}
  BY <1>1, <1>2 DEF Given
<1>4. [row EXCEPT !.label = Given(body.label, @)] \in Row
  BY <1>3, SetColumn, Zenon
<1>5. [row EXCEPT !.label = Given(body.label, @)].settings = row.settings
  BY DEF Row
<1>6. Updated(row, body) \in Row
  BY <1>3, <1>4, <1>5, SetColumn, Zenon DEF Updated
<1> QED BY <1>6 DEF Updated, SameWallet, Row

\* A test changes the status and nothing else.
LEMMA MarkedOK ==
  ASSUME NEW row \in Row, NEW status \in Statuses
  PROVE  /\ Marked(row, status) \in Row
         /\ SameWallet(Marked(row, status), row)
         /\ Marked(row, status).conn = status
         /\ Marked(row, status).deletedAt = row.deletedAt
<1>1. Marked(row, status) \in Row BY SetColumn, Zenon DEF Marked
<1> QED BY <1>1 DEF Marked, SameWallet, Row

\* Each column save() stores is the entity's or the row's.
LEMMA MergeOK ==
  ASSUME NEW row \in Row, NEW entity \in Row, NEW cols, SameWallet(entity, row)
  PROVE  /\ Merge(row, entity, cols) \in Row
         /\ SameWallet(Merge(row, entity, cols), row)
         /\ Merge(row, entity, cols).conn \in {row.conn, entity.conn}
         /\ Merge(row, entity, cols).deletedAt \in {row.deletedAt, entity.deletedAt}
<1> DEFINE m == Merge(row, entity, cols)
<1>1. /\ m.user \in Users /\ m.chain \in Chains /\ m.wallet \in Wallets
      /\ m.label \in Labels /\ m.settings \in Settings \cup {Null}
      /\ m.deletedAt \in {"null", "set"} /\ m.conn \in Statuses
  BY DEF Merge, Row, Statuses
<1>2. m = [user |-> m.user, chain |-> m.chain, wallet |-> m.wallet, label |-> m.label,
           settings |-> m.settings, deletedAt |-> m.deletedAt, conn |-> m.conn]
  BY DEF Merge, Row
<1>3. m \in Row
  <2> HIDE DEF m
  <2> QED BY <1>1, <1>2 DEF Row, Statuses
<1> QED BY <1>3 DEF Merge, SameWallet, Row

-----------------------------------------------------------------------------
(* The inductive invariant *)

Creating == {"findWallet", "insert"}
Holding == {"softDelete", "probe", "load", "write"}
Places == {"idle", "find"} \cup Creating \cup Holding
Outcomes == {"none", "conflict", "notFound", "dbError", "created", "updated", "deleted",
             "connected", "failed"}

\* The variables of the requests are functions.
Domains ==
  /\ pc \in [Handlers -> Places]
  /\ req \in [Handlers -> CreateRequests \cup IdRequests \cup {Undefined}]
  /\ target \in [Handlers -> Nat]
  /\ held \in [Handlers -> Row \cup {Undefined}]
  /\ dirty \in [Handlers -> SUBSET Columns]
  /\ outcome \in [Handlers -> Outcomes]

\* What `row` says of its connection, if stored under `id`, has evidence in `log`.
Supported(id, row, log) ==
  /\ row.conn = "connected" /\ row.chain \in RpcChains => \E e \in log : e.id = id /\ e.ok
  /\ row.conn = "error" => \E e \in log : e.id = id /\ ~e.ok

TableOK ==
  /\ accounts \in Seq(Row)
  /\ \A id \in 1..Len(accounts) : Supported(id, accounts[id], evidence)

\* The entity p holds: live when it was read, its user's, for the wallet of its row.
Holds(p) ==
  /\ req[p] \in IdRequests
  /\ target[p] \in 1..Len(accounts)
  /\ held[p] \in Row
  /\ SameWallet(held[p], accounts[target[p]])
  /\ held[p].user = req[p].user
  /\ Live(held[p])
  /\ Supported(target[p], held[p], evidence)

HandlerInv(p) ==
  /\ pc[p] \in Creating => req[p] \in CreateRequests
  /\ pc[p] = "find" => req[p] \in IdRequests
  /\ pc[p] = "softDelete" => req[p].op = "delete"
  /\ pc[p] \notin Holding => target[p] = 0
  /\ pc[p] \in Holding => Holds(p)

HandlersOK == Domains /\ \A q \in Handlers : HandlerInv(q)

Counters ==
  /\ creates \in 0..MaxCreates /\ tests \in 0..MaxTests /\ faults \in 0..MaxFaults
  /\ overtaken \subseteq Handlers

Inv == TableOK /\ HandlersOK /\ Counters

\* Rows stay where they are, for the wallet they are for; evidence is never lost.
Grows ==
  /\ Len(accounts) \in Nat /\ Len(accounts') \in Nat /\ Len(accounts) <= Len(accounts')
  /\ \A id \in 1..Len(accounts) : SameWallet(accounts'[id], accounts[id])
  /\ evidence \subseteq evidence'

-----------------------------------------------------------------------------
(* Steps of the table *)

\* Inserting a row that was never tested.
LEMMA AppendStep ==
  ASSUME TableOK, NEW row \in Row, row.conn = "disconnected",
         accounts' = Append(accounts, row), evidence' = evidence
  PROVE  TableOK' /\ Grows
<1> DEFINE n == Len(accounts)
<1>1. n \in Nat /\ accounts' \in Seq(Row) /\ Len(accounts') = n + 1
  BY DEF TableOK
<1>2. \A id \in 1..n : accounts'[id] = accounts[id] /\ accounts[id] \in Row
  BY DEF TableOK
<1>3. accounts'[n + 1] = row
  BY DEF TableOK
<1>4. Grows BY <1>1, <1>2 DEF Grows, SameWallet
<1>5. ASSUME NEW id \in 1..Len(accounts') PROVE Supported(id, accounts'[id], evidence')
  <2>1. CASE id \in 1..n BY <1>2, <2>1 DEF TableOK, Supported
  <2>2. CASE id = n + 1 BY <1>3, <2>2 DEF Supported
  <2> QED BY <1>1, <2>1, <2>2
<1> QED BY <1>1, <1>4, <1>5 DEF TableOK

\* Storing a row over one for the same wallet.
LEMMA StoreStep ==
  ASSUME TableOK, NEW id \in 1..Len(accounts), NEW row \in Row,
         SameWallet(row, accounts[id]), Supported(id, row, evidence),
         accounts' = [accounts EXCEPT ![id] = row], evidence \subseteq evidence'
  PROVE  TableOK' /\ Grows
<1> DEFINE n == Len(accounts)
<1>1. n \in Nat /\ accounts' \in Seq(Row) /\ Len(accounts') = n
  BY ExceptSeq DEF TableOK
<1>2. \A i \in 1..n : accounts'[i] = IF i = id THEN row ELSE accounts[i]
  BY DEF TableOK
<1>3. \A i \in 1..n : SameWallet(accounts'[i], accounts[i])
  BY <1>2 DEF SameWallet
<1>4. Grows BY <1>1, <1>3 DEF Grows
<1>5. \A i \in 1..n : Supported(i, accounts'[i], evidence')
  BY <1>2 DEF TableOK, Supported
<1> QED BY <1>1, <1>4, <1>5 DEF TableOK

\* Leaving the rows alone.
LEMMA KeepStep ==
  ASSUME TableOK, accounts' = accounts, evidence \subseteq evidence'
  PROVE  TableOK' /\ Grows
<1>1. Len(accounts) \in Nat BY DEF TableOK
<1> QED BY <1>1 DEF TableOK, Grows, Supported, SameWallet

-----------------------------------------------------------------------------
(* Steps of a request *)

\* What a request holds is none the worse for what happens to the table.
LEMMA StillHolds ==
  ASSUME NEW q \in Handlers, Holds(q), Grows,
         req'[q] = req[q], target'[q] = target[q], held'[q] = held[q]
  PROVE  Holds(q)'
<1>1. PICK id \in 1..Len(accounts) : id = target[q] BY DEF Holds
<1>2. id \in 1..Len(accounts') BY DEF Grows
<1>3. SameWallet(held[q], accounts'[id]) BY <1>1 DEF Holds, Grows, SameWallet
<1>4. Supported(id, held[q], evidence') BY <1>1 DEF Holds, Supported, Grows
<1>5. target'[q] = id BY <1>1
<1> QED BY <1>2, <1>3, <1>4, <1>5 DEF Holds

\* So is the request.
LEMMA OtherHandler ==
  ASSUME NEW q \in Handlers, HandlerInv(q), Grows,
         pc'[q] = pc[q], req'[q] = req[q], target'[q] = target[q], held'[q] = held[q]
  PROVE  HandlerInv(q)'
BY StillHolds DEF HandlerInv

\* A request that is answered holds nothing.
LEMMA AnswerStep ==
  ASSUME HandlersOK, Grows, NEW p \in Handlers, NEW result \in Outcomes, Answer(p, result)
  PROVE  HandlersOK'
<1>1. Domains' BY DEF Answer, HandlersOK, Domains, Places
<1>2. HandlerInv(p)'
  BY DEF Answer, HandlersOK, Domains, HandlerInv, Creating, Holding
<1>3. ASSUME NEW q \in Handlers, q # p PROVE HandlerInv(q)'
  BY <1>3, OtherHandler DEF Answer, HandlersOK, Domains
<1> QED BY <1>1, <1>2, <1>3 DEF HandlersOK

\* A request that goes on with an entity of its user.
LEMMA HoldStep ==
  ASSUME HandlersOK, Grows, NEW p \in Handlers, NEW id \in 1..Len(accounts),
         NEW entity \in Row, NEW place \in Holding, NEW result \in Outcomes,
         Hold(p, id, entity, place, result),
         place = "softDelete" => req[p].op = "delete",
         req[p] \in IdRequests, entity.user = req[p].user, Live(entity),
         SameWallet(entity, accounts[id]), Supported(id, entity, evidence')
  PROVE  HandlersOK'
<1>1. Domains' BY DEF Hold, HandlersOK, Domains, Places, Grows
<1>2. /\ pc'[p] = place /\ target'[p] = id /\ held'[p] = entity /\ req' = req
  BY DEF Hold, HandlersOK, Domains
<1>3. id \in 1..Len(accounts') /\ SameWallet(entity, accounts'[id])
  BY DEF Grows, SameWallet
<1>4. Holds(p)'
  <2>1. /\ req'[p] \in IdRequests' /\ target'[p] \in 1..Len(accounts') /\ held'[p] \in Row
        /\ held'[p].user = req'[p].user /\ Live(held'[p])
    BY <1>2, <1>3 DEF Live, IdRequests
  <2>2. SameWallet(held'[p], accounts'[target'[p]]) BY <1>2, <1>3
  <2>3. Supported(target'[p], held'[p], evidence') BY <1>2 DEF Supported
  <2> QED BY <2>1, <2>2, <2>3 DEF Holds
<1>5. HandlerInv(p)'
  BY <1>2, <1>4 DEF HandlerInv, Creating, Holding
<1>6. ASSUME NEW q \in Handlers, q # p PROVE HandlerInv(q)'
  BY <1>6, OtherHandler DEF Hold, HandlersOK, Domains
<1> QED BY <1>1, <1>5, <1>6 DEF HandlersOK

\* The entity p holds, with another status, is as good if the status has evidence.
LEMMA MarkStep ==
  ASSUME HandlersOK, Grows, NEW p \in Handlers, pc[p] \in Holding,
         NEW status \in Statuses, NEW result \in Outcomes,
         Save(p, target[p], Marked(held[p], status), result),
         \A id \in Nat : id = target[p] =>
           /\ status = "connected" /\ held[p].chain \in RpcChains =>
                \E e \in evidence' : e.id = id /\ e.ok
           /\ status = "error" => \E e \in evidence' : e.id = id /\ ~e.ok
  PROVE  HandlersOK'
<1>1. Holds(p) BY DEF HandlersOK, HandlerInv
<1>2. PICK id \in 1..Len(accounts) : id = target[p] BY <1>1 DEF Holds
<1>3. Marked(held[p], status) \in Row BY <1>1, MarkedOK DEF Holds
<1>4. PICK row \in Row : row = Marked(held[p], status) BY <1>3, Zenon
<1>5. /\ row.conn = status /\ SameWallet(row, held[p]) /\ Live(row)
      /\ row.user = req[p].user /\ row.chain = held[p].chain
  BY <1>1, <1>4, MarkedOK DEF Holds, SameWallet, Live
<1>6. SameWallet(row, accounts[id]) BY <1>1, <1>2, <1>5 DEF Holds, SameWallet
<1>7. Supported(id, row, evidence') BY <1>2, <1>5 DEF Supported
<1>8. Hold(p, id, row, "load", result) BY <1>2, <1>4 DEF Save
<1> QED BY <1>1, <1>5, <1>6, <1>7, <1>8, HoldStep DEF Holds, Holding

\* A note of how p's test ended.
LEMMA ObserveStep ==
  ASSUME NEW p, NEW ok \in BOOLEAN, Observe(p, ok), NEW id \in Nat, id = target[p]
  PROVE  \E e \in evidence' : e.id = id /\ e.ok = ok
<1> DEFINE note == [id |-> id, ok |-> ok]
<1>1. note \in evidence' BY DEF Observe
<1>2. note.id = id /\ note.ok = ok OBVIOUS
<1> HIDE DEF note
<1> QED BY <1>1, <1>2

\* The catch block of a connection test.
LEMMA CatchStep ==
  ASSUME HandlersOK, Grows, NEW p \in Handlers, pc[p] \in Holding, Catch(p)
  PROVE  HandlersOK'
<1>1. Save(p, target[p], Marked(held[p], "error"), "failed") /\ Observe(p, FALSE)
  BY DEF Catch
<1>2. \A id \in Nat : id = target[p] => \E e \in evidence' : e.id = id /\ ~e.ok
  BY <1>1, ObserveStep
<1> QED BY <1>1, <1>2, MarkStep DEF Statuses, Outcomes

\* A save() that throws.
LEMMA SaveThrowsStep ==
  ASSUME HandlersOK, Grows, NEW p \in Handlers, pc[p] \in Holding, SaveThrows(p)
  PROVE  HandlersOK'
<1>1. CASE outcome[p] = "connected" BY <1>1, CatchStep DEF SaveThrows
<1>2. CASE outcome[p] # "connected" BY <1>2, AnswerStep DEF SaveThrows, Outcomes
<1> QED BY <1>1, <1>2

\* The next statement of createDexAccount, or of save().
LEMMA MoveStep ==
  ASSUME HandlersOK, Grows, NEW p \in Handlers, NEW place,
         pc' = [pc EXCEPT ![p] = place],
         \/ pc[p] \in Creating /\ place \in Creating
         \/ pc[p] \in Holding /\ place = "write",
         dirty' \in [Handlers -> SUBSET Columns],
         UNCHANGED <<req, target, held, outcome>>
  PROVE  HandlersOK'
<1>1. Domains' BY DEF HandlersOK, Domains, Places, Creating, Holding
<1>2. ASSUME Holds(p) PROVE Holds(p)'
  BY <1>2, StillHolds
<1>3. HandlerInv(p)'
  BY <1>2 DEF HandlersOK, Domains, HandlerInv, Creating, Holding
<1>4. ASSUME NEW q \in Handlers, q # p PROVE HandlerInv(q)'
  BY <1>4, OtherHandler DEF HandlersOK, Domains
<1> QED BY <1>1, <1>3, <1>4 DEF HandlersOK

\* A request arrives.
LEMMA ReceiveStep ==
  ASSUME HandlersOK, Grows, NEW p \in Handlers, NEW r, NEW place, Receive(p, r, place),
         \/ place = "findWallet" /\ r \in CreateRequests
         \/ place = "find" /\ r \in IdRequests
  PROVE  HandlersOK'
<1>1. Domains' BY DEF Receive, HandlersOK, Domains, Places, Creating, Outcomes
<1>2. HandlerInv(p)'
  BY DEF Receive, HandlersOK, Domains, HandlerInv, Creating, Holding
<1>3. ASSUME NEW q \in Handlers, q # p PROVE HandlerInv(q)'
  BY <1>3, OtherHandler DEF Receive, HandlersOK, Domains
<1> QED BY <1>1, <1>2, <1>3 DEF HandlersOK

\* No request moves.
LEMMA Stutter ==
  ASSUME HandlersOK, Grows, UNCHANGED handler
  PROVE  HandlersOK'
<1>1. \A q \in Handlers : HandlerInv(q)' BY OtherHandler DEF HandlersOK, handler
<1> QED BY <1>1 DEF HandlersOK, Domains, handler

-----------------------------------------------------------------------------
(* Every step keeps the invariant *)

\* The invariant holds at first.
LEMMA InvInit == Init => Inv
<1> SUFFICES ASSUME Init PROVE Inv OBVIOUS
<1>1. TableOK BY DEF Init, TableOK
<1>2. Domains BY DEF Init, Domains, Places, Outcomes
<1>3. ASSUME NEW p \in Handlers PROVE HandlerInv(p)
  BY DEF Init, HandlerInv, Creating, Holding
<1>4. Counters BY DexAssumption DEF Init, Counters, DexAssumption
<1> QED BY <1>1, <1>2, <1>3, <1>4 DEF Inv, HandlersOK

\* What Write stores is a row for the same wallet, and has its evidence.
LEMMA StoredOK ==
  ASSUME TableOK, HandlersOK, NEW p \in Handlers, pc[p] \in Holding
  PROVE  /\ Stored(p) \in Row
         /\ SameWallet(Stored(p), accounts[target[p]])
         /\ Supported(target[p], Stored(p), evidence)
         /\ Live(accounts[target[p]]) => Live(Stored(p))
<1>1. Holds(p) BY DEF HandlersOK, HandlerInv
<1>2. PICK id \in 1..Len(accounts) : id = target[p] BY <1>1 DEF Holds
<1>3. PICK row \in Row : row = accounts[id] BY <1>2 DEF TableOK
<1>4. PICK entity \in Row : entity = held[p] BY <1>1 DEF Holds
<1>5. Stored(p) = Merge(row, entity, dirty[p]) BY <1>2, <1>3, <1>4 DEF Stored
<1>6. SameWallet(entity, row) BY <1>1, <1>2, <1>3, <1>4 DEF Holds
<1>7. /\ Stored(p) \in Row /\ SameWallet(Stored(p), row)
      /\ Stored(p).conn \in {row.conn, entity.conn}
      /\ Stored(p).deletedAt \in {row.deletedAt, entity.deletedAt}
  BY <1>5, <1>6, MergeOK
<1>8. Supported(id, row, evidence) /\ Supported(id, entity, evidence) /\ Live(entity)
  BY <1>1, <1>2, <1>3, <1>4 DEF TableOK, Holds
<1>9. Supported(id, Stored(p), evidence)
  BY <1>6, <1>7, <1>8 DEF Supported, SameWallet
<1> QED BY <1>2, <1>3, <1>7, <1>8, <1>9 DEF Live

\* Write stores it.
LEMMA StoreTarget ==
  ASSUME TableOK, HandlersOK, NEW p \in Handlers, pc[p] \in Holding,
         accounts' = [accounts EXCEPT ![target[p]] = Stored(p)], evidence \subseteq evidence'
  PROVE  TableOK' /\ Grows
<1>1. PICK id \in 1..Len(accounts) : id = target[p]
  BY DEF HandlersOK, HandlerInv, Holds
<1>2. PICK row \in Row : row = Stored(p) BY StoredOK
<1>3. SameWallet(row, accounts[id]) /\ Supported(id, row, evidence)
  BY <1>1, <1>2, StoredOK
<1> QED BY <1>1, <1>2, <1>3, StoreStep

\* softDelete marks the row.
LEMMA DeleteTarget ==
  ASSUME TableOK, HandlersOK, NEW p \in Handlers, pc[p] \in Holding,
         accounts' = [accounts EXCEPT ![target[p]].deletedAt = "set"], evidence' = evidence
  PROVE  TableOK' /\ Grows
<1>1. PICK id \in 1..Len(accounts) : id = target[p]
  BY DEF HandlersOK, HandlerInv, Holds
<1>2. accounts[id] \in Row /\ Supported(id, accounts[id], evidence) BY <1>1 DEF TableOK
<1>3. [accounts[id] EXCEPT !.deletedAt = "set"] \in Row BY <1>2, SetColumn
<1>4. PICK row \in Row : row = [accounts[id] EXCEPT !.deletedAt = "set"] BY <1>3, Zenon
<1>5. row.conn = accounts[id].conn /\ SameWallet(row, accounts[id])
  BY <1>2, <1>4 DEF Row, SameWallet
<1>6. Supported(id, row, evidence) BY <1>2, <1>5 DEF Supported, SameWallet
<1>7. accounts' = [accounts EXCEPT ![id] = row] BY <1>1, <1>4
<1> QED BY <1>5, <1>6, <1>7, StoreStep

\* createDexAccount inserts.
LEMMA InsertRow ==
  ASSUME TableOK, HandlersOK, NEW p \in Handlers, pc[p] = "insert",
         accounts' = Append(accounts, NewAccount(req[p])), evidence' = evidence
  PROVE  TableOK' /\ Grows
<1>1. req[p] \in CreateRequests BY DEF HandlersOK, HandlerInv, Creating
<1>2. NewAccount(req[p]) \in Row BY <1>1, NewOK
<1>3. PICK row \in Row : row = NewAccount(req[p]) BY <1>2, Zenon
<1>4. row.conn = "disconnected" BY <1>1, <1>3, NewOK
<1> QED BY <1>3, <1>4, AppendStep

\* The statements of createDexAccount.
LEMMA CreateStep ==
  ASSUME Inv, NEW p \in Handlers, FindWallet(p) \/ Insert(p)
  PROVE  TableOK' /\ HandlersOK' /\ Grows
<1>1. TableOK /\ HandlersOK BY DEF Inv
<1>2. CASE FindWallet(p)
  <2>1. TableOK' /\ Grows BY <1>1, <1>2, KeepStep DEF FindWallet
  <2>2. ASSUME Answer(p, "conflict") PROVE HandlersOK'
    BY <1>1, <2>1, <2>2, AnswerStep DEF Outcomes
  <2>3. ASSUME pc' = [pc EXCEPT ![p] = "insert"],
               UNCHANGED <<req, target, held, dirty, outcome>>
        PROVE  HandlersOK'
    <3>1. dirty' \in [Handlers -> SUBSET Columns] BY <1>1, <2>3 DEF HandlersOK, Domains
    <3> QED BY <1>1, <1>2, <2>1, <2>3, <3>1, MoveStep DEF FindWallet, Creating
  <2> QED BY <1>2, <2>1, <2>2, <2>3 DEF FindWallet
<1>3. CASE Insert(p)
  <2>1. ASSUME Answer(p, "dbError"), UNCHANGED <<accounts, evidence>>
        PROVE  TableOK' /\ HandlersOK' /\ Grows
    <3>1. TableOK' /\ Grows BY <1>1, <2>1, KeepStep
    <3> QED BY <1>1, <2>1, <3>1, AnswerStep DEF Outcomes
  <2>2. ASSUME ~Clashes(NewAccount(req[p]), 0), Answer(p, "created"),
               accounts' = Append(accounts, NewAccount(req[p])), evidence' = evidence
        PROVE  TableOK' /\ HandlersOK' /\ Grows
    <3>1. TableOK' /\ Grows BY <1>1, <1>3, <2>2, InsertRow DEF Insert
    <3> QED BY <1>1, <2>2, <3>1, AnswerStep DEF Outcomes
  <2> QED BY <1>3, <2>1, <2>2 DEF Insert
<1> QED BY <1>2, <1>3

\* The lookup of update, delete and test.
LEMMA FindStep ==
  ASSUME Inv, NEW p \in Handlers, Find(p)
  PROVE  TableOK' /\ HandlersOK' /\ Grows
<1>1. TableOK /\ HandlersOK BY DEF Inv
<1>2. TableOK' /\ Grows BY <1>1, KeepStep DEF Find
<1>3. req[p] \in IdRequests BY <1>1 DEF Find, HandlersOK, HandlerInv
<1>4. ASSUME ~Found(req[p]), Answer(p, "notFound") PROVE HandlersOK'
  BY <1>1, <1>2, <1>4, AnswerStep DEF Outcomes
<1>5. ASSUME Found(req[p])
      PROVE  /\ req[p].id \in 1..Len(accounts) /\ accounts[req[p].id] \in Row
             /\ accounts[req[p].id].user = req[p].user /\ Live(accounts[req[p].id])
             /\ Supported(req[p].id, accounts[req[p].id], evidence')
  BY <1>1, <1>5 DEF Found, TableOK, Find
<1>6. ASSUME Found(req[p]), req[p].op = "update",
             Save(p, req[p].id, Updated(accounts[req[p].id], req[p].body), "updated")
      PROVE  HandlersOK'
  <2>1. PICK id \in 1..Len(accounts) : id = req[p].id BY <1>5, <1>6
  <2>2. PICK old \in Row : old = accounts[id] BY <1>5, <1>6, <2>1
  <2>3. PICK body \in UpdateBodies : body = req[p].body BY <1>3, <1>6, RequestFields
  <2>4. PICK row \in Row : row = Updated(old, body) BY UpdatedOK
  <2>5. /\ row.user = req[p].user /\ Live(row) /\ SameWallet(row, accounts[id])
        /\ Supported(id, row, evidence')
    BY <1>5, <1>6, <2>1, <2>2, <2>4, UpdatedOK DEF SameWallet, Supported, Live
  <2>6. Hold(p, id, row, "load", "updated") BY <1>6, <2>1, <2>2, <2>3, <2>4 DEF Save
  <2> QED BY <1>1, <1>2, <1>3, <2>5, <2>6, HoldStep DEF Holding, Outcomes
<1>7. ASSUME Found(req[p]), NEW place \in {"softDelete", "probe"},
             place = "softDelete" => req[p].op = "delete",
             Hold(p, req[p].id, accounts[req[p].id], place, "none")
      PROVE  HandlersOK'
  <2>1. PICK id \in 1..Len(accounts) : id = req[p].id BY <1>5, <1>7
  <2>2. PICK row \in Row : row = accounts[id] BY <1>5, <1>7, <2>1
  <2>3. Hold(p, id, row, place, "none") BY <1>7, <2>1, <2>2
  <2>4. /\ row.user = req[p].user /\ Live(row) /\ SameWallet(row, accounts[id])
        /\ Supported(id, row, evidence')
    BY <1>5, <1>7, <2>1, <2>2 DEF SameWallet
  <2> QED BY <1>1, <1>2, <1>3, <1>7, <2>3, <2>4, HoldStep DEF Holding, Outcomes
<1>8. HandlersOK' BY <1>4, <1>6, <1>7 DEF Find
<1> QED BY <1>2, <1>8

\* softDelete answers.
LEMMA SoftDeleteStep ==
  ASSUME Inv, NEW p \in Handlers, SoftDelete(p)
  PROVE  TableOK' /\ HandlersOK' /\ Grows
<1>1. TableOK /\ HandlersOK BY DEF Inv
<1>2. TableOK' /\ Grows BY <1>1, DeleteTarget DEF SoftDelete, MarkDeleted, Holding
<1>3. HandlersOK' BY <1>1, <1>2, AnswerStep DEF SoftDelete, Outcomes
<1> QED BY <1>2, <1>3

\* The call of a connection test returns, throws, or is not made.
LEMMA ProbeStep ==
  ASSUME Inv, NEW p \in Handlers, ProbeSucceeds(p) \/ ProbeFails(p) \/ ProbeSkipped(p)
  PROVE  TableOK' /\ HandlersOK' /\ Grows
<1>1. TableOK /\ HandlersOK /\ pc[p] \in Holding
  BY DEF Inv, ProbeSucceeds, ProbeFails, ProbeSkipped, Holding
<1>2. TableOK' /\ Grows
  BY <1>1, KeepStep DEF ProbeSucceeds, ProbeFails, ProbeSkipped, Catch, Observe
<1>3. CASE ProbeSucceeds(p)
  <2>1. \A id \in Nat : id = target[p] => \E e \in evidence' : e.id = id /\ e.ok
    BY <1>3, ObserveStep DEF ProbeSucceeds
  <2>2. Save(p, target[p], Marked(held[p], "connected"), "connected")
    BY <1>3 DEF ProbeSucceeds
  <2> QED BY <1>1, <1>2, <2>1, <2>2, MarkStep DEF Statuses, Outcomes
<1>4. CASE ProbeFails(p) BY <1>1, <1>2, <1>4, CatchStep DEF ProbeFails
<1>5. CASE ProbeSkipped(p)
  <2>1. Save(p, target[p], Marked(held[p], "connected"), "connected")
    BY <1>5 DEF ProbeSkipped
  <2> QED BY <1>1, <1>2, <1>5, <2>1, MarkStep DEF ProbeSkipped, Statuses, Outcomes
<1> QED BY <1>3, <1>4, <1>5

\* The two statements of save().
LEMMA SavingStep ==
  ASSUME Inv, NEW p \in Handlers, Load(p) \/ Write(p)
  PROVE  TableOK' /\ HandlersOK' /\ Grows
<1>1. TableOK /\ HandlersOK /\ pc[p] \in Holding BY DEF Inv, Load, Write, Holding
<1>2. CASE Load(p)
  <2>1. TableOK' /\ Grows BY <1>1, <1>2, KeepStep DEF Load
  <2>2. dirty' \in [Handlers -> SUBSET Columns] BY <1>1, <1>2 DEF Load, HandlersOK, Domains
  <2> QED BY <1>1, <1>2, <2>1, <2>2, MoveStep DEF Load
<1>3. ASSUME SaveThrows(p), accounts' = accounts PROVE TableOK' /\ HandlersOK' /\ Grows
  <2>1. TableOK' /\ Grows BY <1>1, <1>3, KeepStep DEF SaveThrows, Catch, Observe
  <2> QED BY <1>1, <1>3, <2>1, SaveThrowsStep
<1>4. ASSUME accounts' = [accounts EXCEPT ![target[p]] = Stored(p)],
             Answer(p, outcome[p]), evidence' = evidence
      PROVE  TableOK' /\ HandlersOK' /\ Grows
  <2>1. TableOK' /\ Grows BY <1>1, <1>4, StoreTarget
  <2>2. outcome[p] \in Outcomes BY <1>1 DEF HandlersOK, Domains
  <2> QED BY <1>1, <1>4, <2>1, <2>2, AnswerStep
<1> QED BY <1>2, <1>3, <1>4 DEF Write

\* Faults of the database.
LEMMA FaultStep ==
  ASSUME Inv, NEW p \in Handlers, DbFault(p)
  PROVE  TableOK' /\ HandlersOK' /\ Grows
<1>1. TableOK /\ HandlersOK BY DEF Inv
<1>2. ASSUME Answer(p, "dbError"), TableOK', Grows PROVE HandlersOK'
  BY <1>1, <1>2, AnswerStep DEF Outcomes
<1>3. ASSUME Answer(p, "dbError"), UNCHANGED <<accounts, evidence>>
      PROVE  TableOK' /\ HandlersOK' /\ Grows
  BY <1>1, <1>2, <1>3, KeepStep
<1>4. ASSUME pc[p] \in {"load", "write"}, SaveThrows(p), accounts' = accounts
      PROVE  TableOK' /\ HandlersOK' /\ Grows
  <2>1. TableOK' /\ Grows BY <1>1, <1>4, KeepStep DEF SaveThrows, Catch, Observe
  <2> QED BY <1>1, <1>4, <2>1, SaveThrowsStep DEF Holding
<1>5. ASSUME pc[p] = "write", accounts' = [accounts EXCEPT ![target[p]] = Stored(p)],
             SaveThrows(p)
      PROVE  TableOK' /\ HandlersOK' /\ Grows
  <2>1. evidence \subseteq evidence' BY <1>5 DEF SaveThrows, Catch, Observe
  <2>2. TableOK' /\ Grows BY <1>1, <1>5, <2>1, StoreTarget DEF Holding
  <2> QED BY <1>1, <1>5, <2>2, SaveThrowsStep DEF Holding
<1>6. ASSUME pc[p] = "softDelete", accounts' = [accounts EXCEPT ![target[p]].deletedAt = "set"],
             Answer(p, "dbError"), evidence' = evidence
      PROVE  TableOK' /\ HandlersOK' /\ Grows
  BY <1>1, <1>2, <1>6, DeleteTarget DEF Holding
<1>7. ASSUME pc[p] = "insert", ~Clashes(NewAccount(req[p]), 0), Answer(p, "dbError"),
             accounts' = Append(accounts, NewAccount(req[p])), evidence' = evidence
      PROVE  TableOK' /\ HandlersOK' /\ Grows
  BY <1>1, <1>2, <1>7, InsertRow
<1> QED BY <1>3, <1>4, <1>5, <1>6, <1>7 DEF DbFault, MarkDeleted

\* A request arrives.
LEMMA ArrivalStep ==
  ASSUME Inv, NEW p \in Handlers, ReceiveCreate(p) \/ ReceiveById(p)
  PROVE  TableOK' /\ HandlersOK' /\ Grows
<1>1. TableOK /\ HandlersOK BY DEF Inv
<1>2. PICK r, place : /\ Receive(p, r, place)
                      /\ \/ place = "findWallet" /\ r \in CreateRequests
                         \/ place = "find" /\ r \in IdRequests
  BY DEF ReceiveCreate, ReceiveById
<1>3. TableOK' /\ Grows BY <1>1, <1>2, KeepStep DEF Receive
<1> QED BY <1>1, <1>2, <1>3, ReceiveStep

\* A restart of the process.
LEMMA RestartStep ==
  ASSUME Inv, Restart
  PROVE  TableOK' /\ HandlersOK' /\ Grows
<1>1. TableOK' /\ Grows BY KeepStep DEF Inv, Restart
<1>2. Domains' BY DEF Restart, Domains, Places, Outcomes
<1>3. ASSUME NEW p \in Handlers PROVE HandlerInv(p)'
  BY DEF Restart, HandlerInv, Creating, Holding
<1> QED BY <1>1, <1>2, <1>3 DEF HandlersOK

\* No step exceeds the bounds, or notes anything but handlers.
LEMMA CountersStep ==
  ASSUME Counters, Next
  PROVE  Counters'
<1>1. MaxCreates \in Nat /\ MaxTests \in Nat /\ MaxFaults \in Nat
  BY DexAssumption DEF DexAssumption
<1>2. overtaken' \subseteq Handlers
  <2>1. ASSUME NEW p \in Handlers, MarkDeleted(p) PROVE overtaken' \subseteq Handlers
    BY <2>1 DEF MarkDeleted, Counters
  <2>2. ASSUME NEW p \in Handlers, overtaken' = overtaken \ {p}
        PROVE  overtaken' \subseteq Handlers
    BY <2>2 DEF Counters
  <2>3. ASSUME overtaken' = overtaken \/ overtaken' = {} PROVE overtaken' \subseteq Handlers
    BY <2>3 DEF Counters
  <2> QED
    BY <2>1, <2>2, <2>3
    DEF Next, ReceiveCreate, ReceiveById, Receive, FindWallet, Insert, Find, SoftDelete,
        ProbeSucceeds, ProbeFails, ProbeSkipped, Load, Write, DbFault, Restart
<1>3. ASSUME NEW p \in Handlers, ReceiveCreate(p) PROVE Counters'
  BY <1>1, <1>2, <1>3 DEF ReceiveCreate, Receive, Counters
<1>4. ASSUME NEW p \in Handlers, ReceiveById(p) PROVE Counters'
  BY <1>1, <1>2, <1>4 DEF ReceiveById, Receive, Counters
<1>5. ASSUME NEW p \in Handlers, DbFault(p) PROVE Counters'
  BY <1>1, <1>2, <1>5 DEF DbFault, Counters
<1>6. ASSUME UNCHANGED counters PROVE Counters' BY <1>2, <1>6 DEF counters, Counters
<1> QED
  BY <1>3, <1>4, <1>5, <1>6
  DEF Next, FindWallet, Insert, Find, SoftDelete, ProbeSucceeds, ProbeFails, ProbeSkipped,
      Load, Write, Restart

\* Every step keeps the table and the requests as they should be, and no row is
\* removed, renumbered or moved to another wallet by it.
LEMMA StepGrows ==
  ASSUME Inv, [Next]_vars
  PROVE  TableOK' /\ HandlersOK' /\ Grows
<1>1. CASE UNCHANGED vars
  <2>1. TableOK' /\ Grows BY <1>1, KeepStep DEF Inv, vars
  <2> QED BY <1>1, <2>1, Stutter DEF Inv, vars, handler
<1> QED
  BY <1>1, ArrivalStep, CreateStep, FindStep, SoftDeleteStep, ProbeStep, SavingStep, FaultStep,
     RestartStep
  DEF Next

\* Every step keeps the invariant.
LEMMA InvNext == Inv /\ [Next]_vars => Inv'
<1> SUFFICES ASSUME Inv, [Next]_vars PROVE Inv' OBVIOUS
<1>1. Counters' BY CountersStep DEF Inv, Counters, vars, counters
<1> QED BY <1>1, StepGrows DEF Inv

\* The inductive invariant holds in every state.
THEOREM Invariance == Spec => []Inv
BY InvInit, InvNext, PTL DEF Spec

-----------------------------------------------------------------------------
(* Theorems *)

\* Every state is well typed.
THEOREM TypeCorrect == Spec => []TypeOK
<1>1. ASSUME Inv, NEW p \in Handlers PROVE target[p] \in 0..Len(accounts)
  BY <1>1 DEF Inv, HandlersOK, HandlerInv, Holds, TableOK
<1>2. Inv => TypeOK
  BY <1>1 DEF Inv, HandlersOK, Domains, TableOK, Counters, Places, Creating, Holding, Outcomes,
              TypeOK
<1> QED BY <1>2, Invariance, PTL

\* The status of an account goes back to a test of it that ended so, though it may be
\* stored by a later save of an older entity.
THEOREM StatusSupported == Spec => []StatusHasEvidence
<1>1. Inv => StatusHasEvidence
  BY DEF Inv, TableOK, Supported, StatusHasEvidence
<1> QED BY <1>1, Invariance, PTL

\* A step that deletes a live account serves a delete request of its owner: every
\* entity held is live, so no stale save brings a deletion with it.
LEMMA DeletionStep ==
  ASSUME Inv, [Next]_vars, NEW id \in DOMAIN accounts,
         Live(accounts[id]), ~Live(accounts'[id])
  PROVE  \E p \in Handlers :
           /\ target[p] = id
           /\ req[p].op = "delete" /\ req[p].user = accounts[id].user
<1>1. TableOK /\ HandlersOK /\ id \in 1..Len(accounts) BY DEF Inv, TableOK
<1>2. ASSUME accounts' = accounts PROVE FALSE BY <1>2
<1>3. ASSUME NEW row, accounts' = Append(accounts, row) PROVE FALSE
  BY <1>1, <1>3 DEF TableOK
<1>4. ASSUME NEW p \in Handlers, pc[p] = "write",
             accounts' = [accounts EXCEPT ![target[p]] = Stored(p)]
      PROVE  FALSE
  BY <1>1, <1>4, StoredOK DEF Holding, TableOK
<1>5. ASSUME NEW p \in Handlers, pc[p] = "softDelete",
             accounts' = [accounts EXCEPT ![target[p]].deletedAt = "set"]
      PROVE  target[p] = id /\ req[p].op = "delete" /\ req[p].user = accounts[id].user
  <2>1. target[p] = id BY <1>1, <1>5 DEF TableOK
  <2>2. Holds(p) /\ req[p].op = "delete" BY <1>1, <1>5 DEF HandlersOK, HandlerInv, Holding
  <2> QED BY <2>1, <2>2 DEF Holds, SameWallet
<1> QED
  BY <1>2, <1>3, <1>4, <1>5
  DEF Next, vars, ReceiveCreate, ReceiveById, Receive, FindWallet, Insert, Find, SoftDelete,
      MarkDeleted, ProbeSucceeds, ProbeFails, ProbeSkipped, Load, Write, DbFault, Restart

\* softDelete(accountId) does not name the owner, and still nobody else's request
\* deletes an account: the entity was found for the owner, and rows keep theirs.
THEOREM DeletionsByOwner == Spec => DeletedByOwner
<1>1. Inv /\ [Next]_vars =>
        [\A id \in DOMAIN accounts :
           Live(accounts[id]) /\ ~Live(accounts'[id]) =>
             \E p \in Handlers :
               /\ target[p] = id
               /\ req[p].op = "delete" /\ req[p].user = accounts[id].user]_vars
  BY DeletionStep
<1> QED BY <1>1, Invariance, PTL DEF Spec, DeletedByOwner

\* No step moves an account to another wallet, chain or user.
THEOREM WalletsStay == Spec => WalletsFixed
<1>1. Inv /\ [Next]_vars =>
        [\A id \in DOMAIN accounts :
           id \in DOMAIN accounts' /\ SameWallet(accounts'[id], accounts[id])]_vars
  <2> SUFFICES ASSUME Inv, [Next]_vars, NEW id \in DOMAIN accounts
               PROVE  id \in DOMAIN accounts' /\ SameWallet(accounts'[id], accounts[id])
    OBVIOUS
  <2>1. TableOK /\ TableOK' /\ Grows BY StepGrows DEF Inv
  <2> QED BY <2>1 DEF TableOK, Grows
<1> QED BY <1>1, Invariance, PTL DEF Spec, WalletsFixed

-----------------------------------------------------------------------------
(* Revivals *)

\* A handler nobody has overtaken: the row it is yet to compare with is live, and what
\* the comparison found to differ is not the deletion.
Fresh(p) ==
  p \notin overtaken =>
    /\ Behind(p) => Live(accounts[target[p]])
    /\ pc[p] = "write" => "deletedAt" \notin dirty[p]

\* A handler that does not move stays fresh if its row stays live or it is noted.
LEMMA BystanderFresh ==
  ASSUME NEW q, Fresh(q), q \in overtaken => q \in overtaken',
         Behind(q) /\ Live(accounts[target[q]]) /\ q \notin overtaken' =>
           Live(accounts'[target[q]]),
         pc'[q] = pc[q], target'[q] = target[q], dirty'[q] = dirty[q], outcome'[q] = outcome[q]
  PROVE  Fresh(q)'
<1>1. Behind(q)' <=> Behind(q) BY DEF Behind
<1>2. Live(accounts'[target'[q]]) <=> Live(accounts[target[q]])' BY DEF Live
<1> QED BY <1>1, <1>2 DEF Fresh, Live

\* The row a handler holds is in the table.
LEMMA BehindTarget ==
  ASSUME Inv, NEW q \in Handlers, Behind(q)
  PROVE  target[q] \in 1..Len(accounts) /\ Live(held[q]) /\ Len(accounts) \in Nat
BY DEF Inv, TableOK, HandlersOK, HandlerInv, Holds, Behind, Holding

\* What a step does to the liveness of rows that others hold.
Spares(p) ==
  \A q \in Handlers : q # p =>
    /\ q \in overtaken => q \in overtaken'
    /\ Behind(q) /\ Live(accounts[target[q]]) /\ q \notin overtaken' =>
         Live(accounts'[target[q]])

\* A step that leaves the table alone spares everyone.
LEMMA SparesKeep ==
  ASSUME NEW p, accounts' = accounts, overtaken \ {p} \subseteq overtaken'
  PROVE  Spares(p)
BY DEF Spares, Live

\* So does an insertion.
LEMMA SparesAppend ==
  ASSUME Inv, NEW p, NEW row, accounts' = Append(accounts, row), overtaken' = overtaken
  PROVE  Spares(p)
<1> SUFFICES ASSUME NEW q \in Handlers, Behind(q), Live(accounts[target[q]])
             PROVE  Live(accounts'[target[q]])
  BY DEF Spares
<1>1. accounts'[target[q]] = accounts[target[q]]
  BY BehindTarget DEF Inv, TableOK
<1> QED BY <1>1 DEF Live

\* So does a save(): the entity is live.
LEMMA SparesStore ==
  ASSUME Inv, NEW p \in Handlers, pc[p] \in Holding,
         accounts' = [accounts EXCEPT ![target[p]] = Stored(p)],
         overtaken \ {p} \subseteq overtaken'
  PROVE  Spares(p)
<1> SUFFICES ASSUME NEW q \in Handlers, Behind(q), Live(accounts[target[q]])
             PROVE  Live(accounts'[target[q]])
  BY DEF Spares
<1>1. target[q] \in DOMAIN accounts BY BehindTarget DEF Inv, TableOK
<1>2. CASE target[q] = target[p]
  <2>1. accounts'[target[q]] = Stored(p) BY <1>1, <1>2
  <2> QED BY <1>2, <2>1, StoredOK DEF Inv
<1>3. CASE target[q] # target[p]
  <2>1. accounts'[target[q]] = accounts[target[q]] BY <1>1, <1>3
  <2> QED BY <2>1 DEF Live
<1> QED BY <1>2, <1>3

\* A deletion spares everyone else's rows, and notes those it overtakes.
LEMMA SparesDelete ==
  ASSUME Inv, NEW p \in Handlers, MarkDeleted(p)
  PROVE  Spares(p)
<1> SUFFICES ASSUME NEW q \in Handlers, Behind(q), Live(accounts[target[q]]),
                    q \notin overtaken'
             PROVE  Live(accounts'[target[q]])
  BY DEF Spares, MarkDeleted
<1>1. target[q] # target[p] BY DEF MarkDeleted
<1>2. target[q] \in DOMAIN accounts BY BehindTarget DEF Inv, TableOK
<1>3. accounts'[target[q]] = accounts[target[q]] BY <1>1, <1>2 DEF MarkDeleted
<1> QED BY <1>3 DEF Live

\* What a step of p does to p.
Turns(p) ==
  /\ pc' = [pc EXCEPT ![p] = pc'[p]] /\ target' = [target EXCEPT ![p] = target'[p]]
  /\ dirty' = [dirty EXCEPT ![p] = dirty'[p]] /\ outcome' = [outcome EXCEPT ![p] = outcome'[p]]

\* If p stays fresh and spares the others, all stay fresh.
LEMMA AllFresh ==
  ASSUME Inv, \A q \in Handlers : Fresh(q), NEW p \in Handlers, Turns(p), Spares(p), Fresh(p)'
  PROVE  \A q \in Handlers : Fresh(q)'
<1> SUFFICES ASSUME NEW q \in Handlers, q # p PROVE Fresh(q)' OBVIOUS
<1>1. /\ pc'[q] = pc[q] /\ target'[q] = target[q] /\ dirty'[q] = dirty[q]
      /\ outcome'[q] = outcome[q]
  BY DEF Turns, Inv, HandlersOK, Domains
<1> QED BY <1>1, BystanderFresh DEF Spares

\* A handler that is neither behind nor about to write is fresh.
LEMMA IdleFresh ==
  ASSUME NEW p, pc'[p] \notin {"probe", "load", "write"}
  PROVE  Fresh(p)'
BY DEF Fresh, Behind

\* A handler on its way to save() is fresh if its row is live.
LEMMA LoadFresh ==
  ASSUME NEW p, pc'[p] # "write", p \notin overtaken' => Live(accounts'[target'[p]])
  PROVE  Fresh(p)'
BY DEF Fresh, Live

\* What the answer of a request leaves.
LEMMA AnswerTurns ==
  ASSUME Inv, NEW p \in Handlers, NEW result, Answer(p, result)
  PROVE  Turns(p) /\ Fresh(p)'
<1>1. Turns(p) /\ pc'[p] = "idle" BY DEF Answer, Turns, Inv, HandlersOK, Domains
<1> QED BY <1>1, IdleFresh

\* A handler goes on with an entity whose row is live.
LEMMA HoldTurns ==
  ASSUME Inv, NEW p \in Handlers, NEW id, NEW entity, NEW place, NEW result,
         Hold(p, id, entity, place, result), place # "write",
         p \notin overtaken' => Live(accounts'[id])
  PROVE  Turns(p) /\ Fresh(p)'
<1>1. Turns(p) /\ pc'[p] = place /\ target'[p] = id
  BY DEF Hold, Turns, Inv, HandlersOK, Domains
<1>2. p \notin overtaken' => Live(accounts'[target'[p]]) BY <1>1
<1> QED BY <1>1, <1>2, LoadFresh

\* The catch block, and save() throwing.
LEMMA ThrowTurns ==
  ASSUME Inv, NEW p \in Handlers, Fresh(p), SaveThrows(p), pc[p] \in {"load", "write"},
         overtaken' = overtaken,
         Live(accounts[target[p]]) => Live(accounts'[target[p]])
  PROVE  Turns(p) /\ Fresh(p)'
<1>1. CASE outcome[p] = "connected"
  <2>1. Hold(p, target[p], Marked(held[p], "error"), "load", "failed")
    BY <1>1 DEF SaveThrows, Catch, Save
  <2>2. p \notin overtaken' => Live(accounts'[target[p]]) BY <1>1 DEF Fresh, Behind
  <2> QED BY <2>1, <2>2, HoldTurns
<1>2. CASE outcome[p] # "connected" BY <1>2, AnswerTurns DEF SaveThrows
<1> QED BY <1>1, <1>2

\* No step makes a handler overtaken without its being noted.
LEMMA FreshNext ==
  ASSUME Inv, [Next]_vars, \A q \in Handlers : Fresh(q)
  PROVE  \A q \in Handlers : Fresh(q)'
<1>1. CASE UNCHANGED vars
  <2>1. ASSUME NEW q \in Handlers PROVE Fresh(q)'
    BY <1>1, BystanderFresh DEF vars, Live
  <2> QED BY <2>1
<1>2. ASSUME NEW p \in Handlers, NEW r, NEW place, Receive(p, r, place),
             place \in {"findWallet", "find"}
      PROVE  \A q \in Handlers : Fresh(q)'
  <2>1. Spares(p) BY <1>2, SparesKeep DEF Receive
  <2>2. Turns(p) /\ pc'[p] = place BY <1>2 DEF Receive, Turns, Inv, HandlersOK, Domains
  <2>3. Fresh(p)' BY <1>2, <2>2, IdleFresh
  <2> QED BY <2>1, <2>2, <2>3, AllFresh
<1>3. ASSUME NEW p \in Handlers, FindWallet(p) \/ Insert(p)
      PROVE  \A q \in Handlers : Fresh(q)'
  <2>1. Spares(p)
    BY <1>3, SparesKeep, SparesAppend DEF FindWallet, Insert
  <2>2. ASSUME pc' = [pc EXCEPT ![p] = "insert"], UNCHANGED <<target, dirty, outcome>>
        PROVE  Turns(p) /\ Fresh(p)'
    <3>1. Turns(p) /\ pc'[p] = "insert" BY <2>2 DEF Turns, Inv, HandlersOK, Domains
    <3> QED BY <3>1, IdleFresh
  <2>3. Turns(p) /\ Fresh(p)' BY <1>3, <2>2, AnswerTurns DEF FindWallet, Insert
  <2> QED BY <2>1, <2>3, AllFresh
<1>4. ASSUME NEW p \in Handlers, Find(p) PROVE \A q \in Handlers : Fresh(q)'
  <2>1. Spares(p) BY <1>4, SparesKeep DEF Find
  <2>2. Found(req[p]) => Live(accounts'[req[p].id]) BY <1>4 DEF Find, Found, Live
  <2>3. ASSUME Found(req[p]), NEW entity, NEW place \in {"load", "probe", "softDelete"},
               NEW result, Hold(p, req[p].id, entity, place, result)
        PROVE  Turns(p) /\ Fresh(p)'
    BY <2>2, <2>3, HoldTurns
  <2>4. Turns(p) /\ Fresh(p)' BY <1>4, <2>3, AnswerTurns DEF Find, Save
  <2> QED BY <2>1, <2>4, AllFresh
<1>5. ASSUME NEW p \in Handlers, SoftDelete(p) PROVE \A q \in Handlers : Fresh(q)'
  BY <1>5, SparesDelete, AnswerTurns, AllFresh DEF SoftDelete
<1>6. ASSUME NEW p \in Handlers, ProbeSucceeds(p) \/ ProbeFails(p) \/ ProbeSkipped(p)
      PROVE  \A q \in Handlers : Fresh(q)'
  <2>1. Spares(p) BY <1>6, SparesKeep DEF ProbeSucceeds, ProbeFails, ProbeSkipped
  <2>2. p \notin overtaken' => Live(accounts'[target[p]])
    BY <1>6 DEF ProbeSucceeds, ProbeFails, ProbeSkipped, Fresh, Behind
  <2>3. ASSUME NEW entity, NEW result, Save(p, target[p], entity, result)
        PROVE  Turns(p) /\ Fresh(p)'
    BY <2>2, <2>3, HoldTurns DEF Save
  <2>4. Turns(p) /\ Fresh(p)'
    BY <1>6, <2>3 DEF ProbeSucceeds, ProbeFails, ProbeSkipped, Catch
  <2> QED BY <2>1, <2>4, AllFresh
<1>7. ASSUME NEW p \in Handlers, Load(p) PROVE \A q \in Handlers : Fresh(q)'
  <2>1. Spares(p) BY <1>7, SparesKeep DEF Load
  <2>2. Turns(p) /\ dirty'[p] = {c \in Columns : held[p][c] # accounts[target[p]][c]}
    BY <1>7 DEF Load, Turns, Inv, HandlersOK, Domains
  <2>3. Behind(p) BY <1>7 DEF Load, Behind
  <2>4. p \notin overtaken' => Live(accounts[target[p]])
    BY <1>7, <2>3 DEF Load, Fresh
  <2>5. p \notin overtaken' => "deletedAt" \notin dirty'[p]
    <3>1. held[p].deletedAt = "null" BY <2>3, BehindTarget DEF Live
    <3> QED BY <2>2, <2>4, <3>1 DEF Live
  <2>6. accounts' = accounts /\ target' = target BY <1>7 DEF Load
  <2>7. Fresh(p)' BY <2>4, <2>5, <2>6 DEF Fresh, Live
  <2> QED BY <2>1, <2>2, <2>7, AllFresh
<1>8. ASSUME NEW p \in Handlers, pc[p] \in {"load", "write"}, SaveThrows(p),
             accounts' = accounts, overtaken' = overtaken
      PROVE  \A q \in Handlers : Fresh(q)'
  <2>1. Spares(p) BY <1>8, SparesKeep
  <2>2. Live(accounts[target[p]]) => Live(accounts'[target[p]]) BY <1>8 DEF Live
  <2> QED BY <1>8, <2>1, <2>2, ThrowTurns, AllFresh
<1>9. ASSUME NEW p \in Handlers, pc[p] = "write",
             accounts' = [accounts EXCEPT ![target[p]] = Stored(p)],
             overtaken \ {p} \subseteq overtaken'
      PROVE  Spares(p) /\ (Live(accounts[target[p]]) => Live(accounts'[target[p]]))
  <2>1. Spares(p) BY <1>9, SparesStore DEF Holding
  <2>2. target[p] \in DOMAIN accounts
    BY <1>9 DEF Inv, TableOK, HandlersOK, HandlerInv, Holds, Holding
  <2>3. accounts'[target[p]] = Stored(p) BY <1>9, <2>2
  <2> QED BY <1>9, <2>1, <2>3, StoredOK DEF Holding, Inv
<1>10. ASSUME NEW p \in Handlers, Write(p) PROVE \A q \in Handlers : Fresh(q)'
  BY <1>8, <1>9, <1>10, AnswerTurns, AllFresh DEF Write
<1>11. ASSUME NEW p \in Handlers, DbFault(p) PROVE \A q \in Handlers : Fresh(q)'
  <2>1. ASSUME Answer(p, "dbError"), Spares(p) PROVE \A q \in Handlers : Fresh(q)'
    BY <2>1, AnswerTurns, AllFresh
  <2>2. ASSUME Answer(p, "dbError"), accounts' = accounts, overtaken' = overtaken
        PROVE  \A q \in Handlers : Fresh(q)'
    BY <2>1, <2>2, SparesKeep
  <2>3. ASSUME Answer(p, "dbError"), MarkDeleted(p) PROVE \A q \in Handlers : Fresh(q)'
    BY <2>1, <2>3, SparesDelete
  <2>4. ASSUME Answer(p, "dbError"), overtaken' = overtaken,
               accounts' = Append(accounts, NewAccount(req[p]))
        PROVE  \A q \in Handlers : Fresh(q)'
    BY <2>1, <2>4, SparesAppend
  <2>5. ASSUME pc[p] = "write", accounts' = [accounts EXCEPT ![target[p]] = Stored(p)],
               SaveThrows(p), overtaken' = overtaken
        PROVE  \A q \in Handlers : Fresh(q)'
    <3>1. Spares(p) /\ (Live(accounts[target[p]]) => Live(accounts'[target[p]]))
      BY <1>9, <2>5
    <3> QED BY <2>5, <3>1, ThrowTurns, AllFresh
  <2> QED BY <1>8, <1>11, <2>2, <2>3, <2>4, <2>5 DEF DbFault
<1>12. CASE Restart
  BY <1>12, IdleFresh DEF Restart
<1> QED
  BY <1>1, <1>2, <1>3, <1>4, <1>5, <1>6, <1>7, <1>10, <1>11, <1>12
  DEF Next, ReceiveCreate, ReceiveById

\* A step that brings a deleted row back stores a deletion mark that is out of date.
LEMMA RevivalStep ==
  ASSUME Inv, [Next]_vars, \A q \in Handlers : Fresh(q),
         NEW id \in DOMAIN accounts, ~Live(accounts[id]), Live(accounts'[id])
  PROVE  \E p \in overtaken : pc[p] = "write" /\ target[p] = id
<1>1. id \in 1..Len(accounts) /\ Len(accounts) \in Nat BY DEF Inv, TableOK
<1>2. ASSUME accounts' = accounts PROVE FALSE BY <1>2
<1>3. ASSUME NEW row, accounts' = Append(accounts, row) PROVE FALSE
  BY <1>1, <1>3 DEF Inv, TableOK
<1>4. ASSUME NEW p \in Handlers, accounts' = [accounts EXCEPT ![target[p]].deletedAt = "set"]
      PROVE  FALSE
  <2>1. accounts[id] \in Row BY <1>1 DEF Inv, TableOK
  <2> QED BY <1>4, <2>1 DEF Live, Row
<1>5. ASSUME NEW p \in Handlers, pc[p] = "write",
             accounts' = [accounts EXCEPT ![target[p]] = Stored(p)]
      PROVE  p \in overtaken /\ target[p] = id
  <2>1. target[p] = id /\ accounts'[id] = Stored(p) BY <1>1, <1>5
  <2>2. "deletedAt" \in dirty[p]
    <3>1. accounts[id] \in Row BY <1>1 DEF Inv, TableOK
    <3>2. SUFFICES ASSUME "deletedAt" \notin dirty[p] PROVE FALSE OBVIOUS
    <3>3. Stored(p).deletedAt = accounts[id].deletedAt
      BY <2>1, <3>1, <3>2 DEF Stored, Merge, Row
    <3> QED BY <2>1, <3>3 DEF Live
  <2> QED BY <1>5, <2>1, <2>2 DEF Fresh
<1> QED
  BY <1>2, <1>3, <1>4, <1>5
  DEF Next, vars, ReceiveCreate, ReceiveById, Receive, FindWallet, Insert, Find, SoftDelete,
      MarkDeleted, ProbeSucceeds, ProbeFails, ProbeSkipped, Load, Write, DbFault, Restart

\* A deleted account comes back only with a save() that the deletion overtook between its
\* lookup and its comparison, through tests that fail after a good probe, lost
\* acknowledgements and restarts.
THEOREM RevivalsOvertaken == Spec => RevivedOnlyIfOvertaken
<1> DEFINE AllAreFresh == \A q \in Handlers : Fresh(q)
<1>1. Init => AllAreFresh BY DEF Init, Fresh, Behind
<1>2. Inv /\ AllAreFresh /\ [Next]_vars => AllAreFresh' BY FreshNext
<1>3. Inv /\ AllAreFresh /\ [Next]_vars =>
        [\A id \in DOMAIN accounts :
           ~Live(accounts[id]) /\ Live(accounts'[id]) =>
             \E p \in overtaken : pc[p] = "write" /\ target[p] = id]_vars
  BY RevivalStep
<1> QED
  <2> HIDE DEF AllAreFresh
  <2> QED BY <1>1, <1>2, <1>3, Invariance, PTL DEF Spec, RevivedOnlyIfOvertaken
=============================================================================
