------------------------------ MODULE AccountsApi ------------------------------
(***************************************************************************)
(* CexAccountsController: the JWT guard of Auth in front of the service of *)
(* CexAccounts.  A request passes the guard, the controller takes the      *)
(* owner from what the guard left in request.user, and the service works   *)
(* for that owner.  Each part keeps its own variables: those of the guard  *)
(* begin with gate, those of the service with acc.                         *)
(***************************************************************************)
EXTENDS Integers, Sequences, FiniteSets, TLC

CONSTANTS
  Handlers, Undefined,
  Emails, Names, Passwords, Prefix, Forms, ShortTtl, LongTtl, SeedRows, GateKinds,
  MaxSignups, MaxLogins, MaxTime, MaxEdits, MaxSeeds, MaxGateFaults,
  Envs, Keys, Labels, Rights, DefaultRights, TransformsDto,
  RetryCounts, CreateBodies, UpdateBodies, AccKinds, MaxCreates, MaxTests, MaxAccFaults

VARIABLES
  users, tokens, now, gatePc, gateReq, gateTarget, gateHeld, gateOutcome, seen, seeding,
  signups, logins, edits, seeds, gateFaults,
  accounts, accPc, accReq, accTarget, accHeld, dirty, accOutcome, attempt, maxAttempts,
  creates, tests, accFaults, overtaken, answered, caught,
  working,    \* which handlers the controller has put to work
  maker       \* history: the user whose request created each account

gate == <<users, tokens, now, gatePc, gateReq, gateTarget, gateHeld, gateOutcome, seen,
          seeding, signups, logins, edits, seeds, gateFaults>>
acc == <<accounts, accPc, accReq, accTarget, accHeld, dirty, accOutcome, attempt,
         maxAttempts, creates, tests, accFaults, overtaken, answered, caught>>
vars == <<gate, acc, working, maker>>

\* JavaScript's String().
String(value) == IF value = Undefined THEN "undefined" ELSE ToString(value)

\* Every string that can become an owner.
Owners == {String(i) : i \in 1..(MaxSignups + Len(SeedRows) * MaxSeeds) \cup {Undefined}}

Gate == INSTANCE Auth WITH
  pc <- gatePc, req <- gateReq, target <- gateTarget, held <- gateHeld,
  outcome <- gateOutcome, faults <- gateFaults, Kinds <- GateKinds, MaxFaults <- MaxGateFaults

Acc == INSTANCE CexAccounts WITH
  pc <- accPc, req <- accReq, target <- accTarget, held <- accHeld, outcome <- accOutcome,
  faults <- accFaults, Users <- Owners, Kinds <- AccKinds, MaxFaults <- MaxAccFaults

-----------------------------------------------------------------------------

\* request.user: the entity validateUser returned.
RequestUser(p) == gateHeld[p] @@ [id |-> gateTarget[p]]

\* `request.user.userId`: the entity calls this column `id`.
OwnerOf(p) ==
  String(IF "userId" \in DOMAIN RequestUser(p) THEN RequestUser(p).userId ELSE Undefined)

Init ==
  /\ Gate!Init /\ Acc!Init
  /\ working = [p \in Handlers |-> FALSE]
  /\ maker = << >>

\* The account a step of p has added, if it did, is p's user's.
Record(p) ==
  maker' = IF Len(accounts') > Len(accounts) THEN Append(maker, gateTarget[p]) ELSE maker

\* A route of the controller calls the service.
Call(p) ==
  /\ gatePc[p] = "inside" /\ ~working[p]
  /\ \/ Acc!ReceiveCreate(p) \/ Acc!ReceiveUpdate(p)
     \/ Acc!ReceiveDelete(p) \/ Acc!ReceiveTest(p)
  /\ accReq'[p].user = OwnerOf(p)
  /\ working' = [working EXCEPT ![p] = TRUE]
  /\ UNCHANGED <<gate, maker>>

Work(p) ==
  /\ Acc!Proceed(p) \/ Acc!DbFault(p)
  /\ Record(p)
  /\ UNCHANGED <<gate, working>>

\* The service has answered, so does the route.
Return(p) ==
  /\ working[p] /\ accPc[p] = "idle"
  /\ Gate!Serve(p)
  /\ working' = [working EXCEPT ![p] = FALSE]
  /\ UNCHANGED <<acc, maker>>

\* The guard, and the routes of the authentication controller.
AtGate(p) ==
  /\ \/ Gate!ReceiveRegister(p) \/ Gate!ReceiveLogin(p) \/ Gate!ReceiveEnter(p)
     \/ ~working[p] /\ Gate!Proceed(p)
     \/ Gate!DbFault(p)
  /\ UNCHANGED <<acc, working, maker>>

Outside ==
  /\ Gate!SeedStart \/ Gate!SeedFind \/ Gate!SeedInsert \/ Gate!Administer \/ Gate!Tick
  /\ UNCHANGED <<acc, working, maker>>

Restart ==
  /\ Gate!Restart
  /\ IF \E p \in Handlers : accPc[p] # "idle" THEN Acc!Restart ELSE UNCHANGED acc
  /\ working' = [p \in Handlers |-> FALSE]
  /\ UNCHANGED maker

Next ==
  \/ \E p \in Handlers : Call(p) \/ Work(p) \/ Return(p) \/ AtGate(p)
  \/ Outside \/ Restart

Spec == Init /\ [][Next]_vars

-----------------------------------------------------------------------------
(* Properties *)

\* The owner stored with an account is the user who created it: "user ID from
\* platform", as the service and the column say.
OwnerIsUser == \A i \in DOMAIN accounts : accounts[i].user = String(maker[i])

=============================================================================
