---------------------------------- MODULE Auth ----------------------------------
(***************************************************************************)
(* Registration, login and the JWT guard, on the platform_user table, with *)
(* the seed script as a second writer.  AuthService keeps no state between *)
(* requests: what a request knows is what it read before its last await.   *)
(* An e-mail address and a password are model values: two addresses that   *)
(* reach the service as different strings are different values, and the    *)
(* bcrypt hash in a row is represented by the password it was made from.   *)
(* A body may leave the address out: no pipe checks it.                    *)
(***************************************************************************)
EXTENDS Integers, Sequences, FiniteSets

CONSTANTS
  Handlers,        \* requests the server can have in flight
  Emails, Names, Passwords,
  Prefix,          \* the part of an address before the @, a name
  Forms,           \* the addresses and nicknames registrations combine
  Undefined,
  ShortTtl, LongTtl,   \* 24h and 7d
  SeedRows,        \* the accounts of scripts/seed.ts, in order
  Kinds,           \* the kinds of request that arrive
  MaxSignups, MaxLogins, MaxTime, MaxEdits, MaxSeeds, MaxFaults   \* bounds

\* What a body, a row and a token may have for an address.
Addresses == Emails \cup {Undefined}

Row == [username : Names, email : Addresses, password : Passwords, enabled : BOOLEAN]

ASSUME AuthAssumption ==
  /\ Prefix \in [Emails -> Names]
  /\ Undefined \notin Emails /\ Undefined \notin Names
  /\ Forms \subseteq Addresses \X (Names \cup {Undefined})
  /\ Undefined \notin Row
  /\ ShortTtl \in Nat /\ LongTtl \in Nat /\ ShortTtl <= LongTtl
  /\ SeedRows \in Seq([username : Names, email : Emails, password : Passwords])
  /\ Kinds \subseteq {"register", "login", "enter"}
  /\ MaxSignups \in Nat /\ MaxLogins \in Nat /\ MaxTime \in Nat
  /\ MaxEdits \in Nat /\ MaxSeeds \in Nat /\ MaxFaults \in Nat

VARIABLES
  users,      \* the table, by id: Undefined where a user was removed
  tokens,     \* every token ever signed
  now,
  pc, req, target, held,  \* a request: where it is, its body, the id and row it read
  outcome,    \* its answer
  seen,       \* history: the values Rightful took while it was served
  seeding,    \* the seed script
  signups, logins, edits, seeds, faults   \* what the bounds count

handler == <<pc, req, target, held, outcome>>
counters == <<signups, logins, edits, seeds, faults>>
vars == <<users, tokens, now, pc, req, target, held, outcome, seen, seeding,
          signups, logins, edits, seeds, faults>>

Ids == Nat \ {0}

\* secret: history, the password the token was given for.
Tokens == [user : Ids, email : Addresses, exp : Nat, secret : Passwords]

RegisterRequests ==
  {r \in [op : {"register"}, email : Addresses, nickname : Names \cup {Undefined},
          password : Passwords] : <<r.email, r.nickname>> \in Forms}
LoginRequests ==
  [op : {"login"}, email : Addresses, password : Passwords, rememberMe : BOOLEAN]
\* at: history, the time of arrival.
EnterRequests(times) == [op : {"enter"}, token : tokens, at : times]

Present(us) == {i \in DOMAIN us : us[i] # Undefined}

WithEmail(email) == {i \in Present(users) : users[i].email = email}

\* The rows findOne may return: a `where` whose value is undefined selects every row.
Selected(us, email) ==
  {i \in Present(us) : email = Undefined \/ us[i].email = email}

\* Would an INSERT of `row` break a unique index?  Rows without an address differ.
Clashes(row) ==
  \E i \in Present(users) :
    \/ row.email # Undefined /\ users[i].email = row.email
    \/ users[i].username = row.username
\* Slip: no fallback to the address.
UsernameOfNickname(r) == r.nickname

UsernameOf(r) == IF r.nickname = Undefined THEN Prefix[r.email] ELSE r.nickname

\* Without an address there is nothing to split: a TypeError.
Nameless(r) == r.nickname = Undefined /\ r.email = Undefined

NewUser(r) ==
  [username |-> UsernameOf(r), email |-> r.email, password |-> r.password, enabled |-> TRUE]

Sign(i, row, rememberMe) ==
  [user |-> i, email |-> row.email, secret |-> row.password,
   exp |-> now + (IF rememberMe THEN LongTtl ELSE ShortTtl)]

-----------------------------------------------------------------------------
(* History: does request r deserve to succeed, the table being us? *)

Rightful(r, us) ==
  CASE r.op = "register" -> Selected(us, r.email) = {}
    [] r.op = "login" ->
         \E i \in Selected(us, r.email) : us[i].password = r.password /\ us[i].enabled
    [] r.op = "enter" ->
         /\ r.at < r.token.exp
         /\ r.token.user \in Present(us)
         /\ us[r.token.user].enabled /\ us[r.token.user].email = r.token.email
         /\ r.token.email # Undefined

\* The table becomes us, seen by every request but those in `leaving`, which the
\* same step answers.
Write(us, leaving) ==
  /\ users' = us
  /\ seen' = [p \in Handlers |->
                IF pc[p] = "idle" \/ p \in leaving THEN {}
                ELSE seen[p] \cup {Rightful(req[p], us)}]

-----------------------------------------------------------------------------
(* Requests *)

Init ==
  /\ users = << >>
  /\ tokens = {}
  /\ now = 0
  /\ pc = [p \in Handlers |-> "idle"]
  /\ req = [p \in Handlers |-> Undefined]
  /\ target = [p \in Handlers |-> 0]
  /\ held = [p \in Handlers |-> Undefined]
  /\ outcome = [p \in Handlers |-> "none"]
  /\ seen = [p \in Handlers |-> {}]
  /\ seeding = [at |-> "off", row |-> 1, last |-> 1, kept |-> {}]
  /\ signups = 0 /\ logins = 0 /\ edits = 0 /\ seeds = 0 /\ faults = 0

Respond(p, result) ==
  /\ pc' = [pc EXCEPT ![p] = "idle"]
  /\ req' = [req EXCEPT ![p] = Undefined]
  /\ target' = [target EXCEPT ![p] = 0]
  /\ held' = [held EXCEPT ![p] = Undefined]
  /\ outcome' = [outcome EXCEPT ![p] = result]

Answer(p, result) ==
  /\ Respond(p, result)
  /\ seen' = [seen EXCEPT ![p] = {}]
  /\ UNCHANGED users

GoTo(p, place) ==
  /\ pc' = [pc EXCEPT ![p] = place]
  /\ UNCHANGED <<req, target, held, outcome, seen, users>>

\* The request read row i and goes on.
Take(p, i, place) ==
  /\ pc' = [pc EXCEPT ![p] = place]
  /\ target' = [target EXCEPT ![p] = i]
  /\ held' = [held EXCEPT ![p] = users[i]]
  /\ UNCHANGED <<req, outcome, seen, users>>

Receive(p, r, place) ==
  /\ pc[p] = "idle"
  /\ r.op \in Kinds
  /\ pc' = [pc EXCEPT ![p] = place]
  /\ req' = [req EXCEPT ![p] = r]
  /\ outcome' = [outcome EXCEPT ![p] = "none"]
  /\ seen' = [seen EXCEPT ![p] = {Rightful(r, users)}]
  /\ UNCHANGED <<users, tokens, now, target, held, seeding, edits, seeds, faults>>

ReceiveRegister(p) ==
  /\ signups < MaxSignups
  /\ signups' = signups + 1
  /\ \E r \in RegisterRequests : Receive(p, r, "findEmail")
  /\ UNCHANGED logins

ReceiveLogin(p) ==
  /\ logins < MaxLogins
  /\ logins' = logins + 1
  /\ UNCHANGED signups
  /\ \E r \in LoginRequests : Receive(p, r, "findUser")

\* GET /auth/me or /auth/verify: a client presents a token it was given, old or new.
ReceiveEnter(p) ==
  /\ \E r \in EnterRequests({now}) : Receive(p, r, "verify")
  /\ UNCHANGED <<signups, logins>>

(* AuthService.register *)

FindEmail(p) ==
  /\ pc[p] = "findEmail"
  /\ IF Selected(users, req[p].email) # {} THEN Answer(p, "conflict") ELSE GoTo(p, "insert")
  /\ UNCHANGED <<tokens, now, seeding, counters>>

\* After the hash was computed: save() of an entity without id is an INSERT.
InsertUser(p) ==
  /\ pc[p] = "insert"
  /\ \/ Nameless(req[p]) /\ Answer(p, "internal")
     \/ /\ ~Nameless(req[p]) /\ Clashes(NewUser(req[p]))
        /\ Answer(p, "dbError")
     \/ /\ ~Nameless(req[p]) /\ ~Clashes(NewUser(req[p]))
        /\ Write(Append(users, NewUser(req[p])), {p})
        /\ Respond(p, "registered")
  /\ UNCHANGED <<tokens, now, seeding, counters>>

(* AuthService.login *)

\* Slip: the username must be the one the address begins with.
FindUserByName(p) ==
  LET named == {i \in Selected(users, req[p].email) :
                  req[p].email # Undefined => users[i].username = Prefix[req[p].email]} IN
  /\ pc[p] = "findUser"
  /\ \/ named = {} /\ Answer(p, "unauthorized")
     \/ \E i \in named : Take(p, i, "compare")
  /\ UNCHANGED <<tokens, now, seeding, counters>>

FindUser(p) ==
  /\ pc[p] = "findUser"
  /\ \/ Selected(users, req[p].email) = {} /\ Answer(p, "unauthorized")
     \/ \E i \in Selected(users, req[p].email) : Take(p, i, "compare")
  /\ UNCHANGED <<tokens, now, seeding, counters>>

\* bcrypt.compare, then the check of `enabled` on the row read before it.
Compare(p) ==
  /\ pc[p] = "compare"
  /\ IF held[p].password = req[p].password /\ held[p].enabled
     THEN /\ tokens' = tokens \cup {Sign(target[p], held[p], req[p].rememberMe)}
          /\ Answer(p, "loggedIn")
     ELSE Answer(p, "unauthorized") /\ UNCHANGED tokens
  /\ UNCHANGED <<now, seeding, counters>>

(* JwtAuthGuard and JwtStrategy *)

\* Signature and expiry, then the payload's parts: an empty address is refused.
Verify(p) ==
  /\ pc[p] = "verify"
  /\ IF now < req[p].token.exp /\ req[p].token.email # Undefined
     THEN GoTo(p, "findById")
     ELSE Answer(p, "unauthorized")
  /\ UNCHANGED <<tokens, now, seeding, counters>>

\* Slip: the token names its user by address.
FindByEmail(p) ==
  /\ pc[p] = "findById"
  /\ \/ \E i \in WithEmail(req[p].token.email) : users[i].enabled /\ Take(p, i, "inside")
     \/ /\ \A i \in WithEmail(req[p].token.email) : ~users[i].enabled
        /\ Answer(p, "unauthorized")
  /\ UNCHANGED <<tokens, now, seeding, counters>>

\* validateUser: is there an enabled user with id i?
ValidUser(i) == i \in Present(users) /\ users[i].enabled

\* Slip: the address in the token is not compared.
FindByIdOnly(p) ==
  LET i == req[p].token.user IN
  /\ pc[p] = "findById"
  /\ IF ValidUser(i)
     THEN Take(p, i, "inside")
     ELSE Answer(p, "unauthorized")
  /\ UNCHANGED <<tokens, now, seeding, counters>>

\* JwtStrategy.validate, after the read of the user: no await is left.
FindById(p) ==
  LET i == req[p].token.user IN
  /\ pc[p] = "findById"
  /\ IF ValidUser(i) /\ users[i].email = req[p].token.email
     THEN Take(p, i, "inside")
     ELSE Answer(p, "unauthorized")
  /\ UNCHANGED <<tokens, now, seeding, counters>>

\* The guarded handler answers with the row the guard read.
Serve(p) ==
  /\ pc[p] = "inside"
  /\ Answer(p, "served")
  /\ UNCHANGED <<tokens, now, seeding, counters>>

-----------------------------------------------------------------------------
(* scripts/seed.ts *)

SeedAccount(k) ==
  [username |-> SeedRows[k].username, email |-> SeedRows[k].email,
   password |-> SeedRows[k].password, enabled |-> TRUE]

SeedUser == SeedAccount(seeding.row)

\* kept: the rows whose address this run found taken, and logged as there already.
SeedAt(place, row, kept) ==
  [at |-> place, row |-> row, last |-> seeding.last, kept |-> kept]

SeedOn(kept) ==
  IF seeding.row < seeding.last THEN SeedAt("find", seeding.row + 1, kept)
                                ELSE SeedAt("done", seeding.row, kept)

\* `last`: the administrator is seeded when SEED_ADMIN_USER is 'true'.
SeedStart ==
  /\ seeding.at \notin {"find", "insert"}
  /\ seeds < MaxSeeds
  /\ seeds' = seeds + 1
  /\ \E last \in DOMAIN SeedRows :
       seeding' = [at |-> "find", row |-> 1, last |-> last, kept |-> {}]
  /\ UNCHANGED <<users, tokens, now, handler, seen, signups, logins, edits, faults>>

SeedFind ==
  /\ seeding.at = "find"
  /\ seeding' = IF WithEmail(SeedUser.email) # {}
                THEN SeedOn(seeding.kept \cup {seeding.row})
                ELSE SeedAt("insert", seeding.row, seeding.kept)
  /\ UNCHANGED <<users, tokens, now, handler, seen, counters>>

\* Slip: an INSERT that breaks a unique index is taken for an account that is there.
SeedInsertTolerant ==
  /\ seeding.at = "insert"
  /\ \/ /\ Clashes(SeedUser)
        /\ seeding' = SeedOn(seeding.kept)
        /\ UNCHANGED <<users, seen>>
     \/ /\ ~Clashes(SeedUser)
        /\ Write(Append(users, SeedUser), {})
        /\ seeding' = SeedOn(seeding.kept)
  /\ UNCHANGED <<tokens, now, handler, counters>>

\* An error of the INSERT ends the script; what it inserted before stays.
SeedInsert ==
  /\ seeding.at = "insert"
  /\ \/ /\ Clashes(SeedUser)
        /\ seeding' = SeedAt("failed", seeding.row, seeding.kept)
        /\ UNCHANGED <<users, seen>>
     \/ /\ ~Clashes(SeedUser)
        /\ Write(Append(users, SeedUser), {})
        /\ seeding' = SeedOn(seeding.kept)
  /\ UNCHANGED <<tokens, now, handler, counters>>

-----------------------------------------------------------------------------
(* The world *)

Edited(row, email, enabled) ==
  [username |-> row.username, email |-> email, password |-> row.password,
   enabled |-> enabled]

\* An administrator works on the table itself: no code of the repository does.
Administer ==
  /\ edits < MaxEdits
  /\ edits' = edits + 1
  /\ \E i \in Present(users) :
       \/ Write([users EXCEPT ![i] = Edited(@, @.email, ~@.enabled)], {})
       \/ \E email \in Emails :
            /\ WithEmail(email) = {}
            /\ Write([users EXCEPT ![i] = Edited(@, email, @.enabled)], {})
       \/ Write([users EXCEPT ![i] = Undefined], {})
  /\ UNCHANGED <<tokens, now, handler, seeding, signups, logins, seeds, faults>>

Tick ==
  /\ now < MaxTime
  /\ now' = now + 1
  /\ UNCHANGED <<users, tokens, handler, seen, seeding, counters>>

\* A statement fails, or an INSERT commits and its acknowledgement is lost.
DbFault(p) ==
  /\ faults < MaxFaults
  /\ faults' = faults + 1
  /\ \/ /\ pc[p] \in {"findEmail", "findUser", "insert"}
        /\ pc[p] = "insert" => ~Nameless(req[p])
        /\ Answer(p, "dbError")
     \/ /\ pc[p] = "findById"
        /\ Answer(p, "unauthorized")
     \/ /\ pc[p] = "insert" /\ ~Nameless(req[p]) /\ ~Clashes(NewUser(req[p]))
        /\ Write(Append(users, NewUser(req[p])), {p})
        /\ Respond(p, "dbError")
  /\ UNCHANGED <<tokens, now, seeding, signups, logins, edits, seeds>>

\* The server restarts: the requests in flight are lost, tables and tokens stay.
Restart ==
  /\ \E p \in Handlers : pc[p] # "idle"
  /\ pc' = [p \in Handlers |-> "idle"]
  /\ req' = [p \in Handlers |-> Undefined]
  /\ target' = [p \in Handlers |-> 0]
  /\ held' = [p \in Handlers |-> Undefined]
  /\ outcome' = [p \in Handlers |-> "none"]
  /\ seen' = [p \in Handlers |-> {}]
  /\ UNCHANGED <<users, tokens, now, seeding, counters>>

Proceed(p) ==
  \/ FindEmail(p) \/ InsertUser(p)
  \/ FindUser(p) \/ Compare(p)
  \/ Verify(p) \/ FindById(p) \/ Serve(p)

Next ==
  \/ \E p \in Handlers :
       \/ ReceiveRegister(p) \/ ReceiveLogin(p) \/ ReceiveEnter(p)
       \/ Proceed(p)
       \/ DbFault(p)
  \/ SeedStart \/ SeedFind \/ SeedInsert
  \/ Administer \/ Tick \/ Restart

Spec == Init /\ [][Next]_vars

-----------------------------------------------------------------------------
(* Properties *)

TypeOK ==
  /\ users \in Seq(Row \cup {Undefined})
  /\ tokens \subseteq Tokens
  /\ now \in Nat
  /\ pc \in [Handlers -> {"idle", "findEmail", "insert", "findUser", "compare",
                          "verify", "findById", "inside"}]
  /\ req \in [Handlers -> RegisterRequests \cup LoginRequests \cup EnterRequests(0..now)
                            \cup {Undefined}]
  /\ target \in [Handlers -> 0..Len(users)]
  /\ held \in [Handlers -> Row \cup {Undefined}]
  /\ outcome \in [Handlers -> {"none", "conflict", "dbError", "internal", "registered",
                               "unauthorized", "loggedIn", "served"}]
  /\ seen \in [Handlers -> SUBSET BOOLEAN]
  /\ seeding \in [at : {"off", "find", "insert", "done", "failed"},
                  row : 1..(Len(SeedRows) + 1), last : 1..(Len(SeedRows) + 1),
                  kept : SUBSET (1..Len(SeedRows))]
  /\ signups \in Nat /\ logins \in Nat /\ edits \in Nat /\ seeds \in Nat /\ faults \in Nat

\* A request the guard let in acts as the user whose password its token was given
\* for, even after addresses were changed, users removed and registered anew.
HolderIsOwner ==
  \A p \in Handlers :
    pc[p] = "inside" => /\ target[p] = req[p].token.user
                        /\ held[p].password = req[p].token.secret

\* The answers are those of a server that handles each request at one moment
\* between its arrival and its answer.  A request succeeds only if at some such
\* moment it deserved to: the lookup for its address found nobody, the password was
\* that of an enabled user the lookup for its address can find, the token named an
\* enabled user by the present address, unexpired on arrival.
AcceptedForCause ==
  [][\A p \in Handlers :
       pc[p] # "idle" /\ outcome'[p] \in {"registered", "loggedIn", "served"}
         => TRUE \in seen[p]]_vars

\* And it is refused only if at some such moment it did not deserve to succeed.
\* (A failing database also refuses tokens: handleRequest turns errors into 401.
\* A login without an address is compared with whichever row comes first.)
RefusedForCause ==
  [][\A p \in Handlers :
       /\ pc[p] # "idle" /\ outcome'[p] \in {"conflict", "unauthorized"}
       /\ faults' = faults
       /\ req[p].op = "login" => req[p].email # Undefined
       => FALSE \in seen[p] \/ (req[p].op = "enter" /\ now >= req[p].token.exp)]_vars

\* Where no administrator meddles, a seed that reports success leaves every account it
\* was asked for, and each with the seed's own name and password, except those whose
\* address was taken when the seed looked: what a registration puts in between its
\* lookup and its INSERT is never passed off as the seed's.
SeedIsComplete ==
  seeding.at = "done" /\ edits = 0 =>
    \A k \in 1..seeding.last :
      \E i \in WithEmail(SeedRows[k].email) :
        k \in seeding.kept \/ users[i] = SeedAccount(k)

\* register()'s comment: ConflictException if the address already exists.
TakenEmailIsConflict ==
  [][\A p \in Handlers :
       pc[p] = "insert" /\ outcome'[p] = "dbError" => WithEmail(req[p].email) = {}]_vars

=============================================================================
