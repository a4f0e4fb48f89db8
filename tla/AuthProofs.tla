------------------------------- MODULE AuthProofs -------------------------------
(***************************************************************************)
(* Theorems about Auth, for every set of addresses, names, passwords and   *)
(* handlers and every bound.  IInv is inductive: it says of a request in   *)
(* flight what the row it read, and the token it carries, still have in    *)
(* common with the table, and that the history has taken note of what the  *)
(* request found.                                                          *)
(***************************************************************************)
EXTENDS Auth, SequenceTheorems, TLAPS

-----------------------------------------------------------------------------
(* What the operators return *)

\* The parts of the three kinds of request.
LEMMA RequestTypes ==
  /\ \A r \in RegisterRequests :
       /\ r.op = "register" /\ r.email \in Addresses
       /\ r.nickname \in Names \cup {Undefined} /\ r.password \in Passwords
  /\ \A r \in LoginRequests :
       /\ r.op = "login" /\ r.email \in Addresses /\ r.password \in Passwords
       /\ r.rememberMe \in BOOLEAN
  /\ \A times : \A r \in EnterRequests(times) :
       r.op = "enter" /\ r.token \in tokens /\ r.at \in times
BY DEF RegisterRequests, LoginRequests, EnterRequests

\* A registration makes a row: its name is the nickname or the prefix of the address.
LEMMA NewUserOK ==
  ASSUME NEW r \in RegisterRequests, ~Nameless(r)
  PROVE  NewUser(r) \in Row /\ NewUser(r).email = r.email
<1>1. UsernameOf(r) \in Names
  BY RequestTypes, AuthAssumption DEF UsernameOf, Nameless, Addresses, AuthAssumption
<1> QED BY <1>1, RequestTypes DEF NewUser, Row

\* A seeded account is a row.
LEMMA SeedAccountOK ==
  ASSUME NEW k \in 1..Len(SeedRows)
  PROVE  /\ SeedAccount(k) \in Row /\ SeedAccount(k).email = SeedRows[k].email
         /\ SeedRows[k].email \in Emails
<1> DEFINE Seeds == [username : Names, email : Emails, password : Passwords]
<1>1. SeedRows[k] \in Seeds
  <2>1. SeedRows \in Seq(Seeds) BY AuthAssumption DEF AuthAssumption
  <2> HIDE DEF Seeds
  <2> QED BY <2>1
<1> QED BY <1>1 DEF SeedAccount, Row, Addresses

\* A token signed at login is the row's, by its id and its password.
LEMMA SignOK ==
  ASSUME NEW i \in Ids, NEW row \in Row, NEW rememberMe \in BOOLEAN, now \in Nat
  PROVE  /\ Sign(i, row, rememberMe) \in Tokens
         /\ Sign(i, row, rememberMe).user = i
         /\ Sign(i, row, rememberMe).secret = row.password
<1>1. now + (IF rememberMe THEN LongTtl ELSE ShortTtl) \in Nat
  BY AuthAssumption DEF AuthAssumption
<1> QED BY <1>1 DEF Sign, Tokens, Row

\* An administrator changes the address and the flag, and nothing else.
LEMMA EditedOK ==
  ASSUME NEW row \in Row, NEW email \in Addresses, NEW enabled \in BOOLEAN
  PROVE  /\ Edited(row, email, enabled) \in Row
         /\ Edited(row, email, enabled).password = row.password
         /\ Edited(row, email, enabled).username = row.username
         /\ Edited(row, email, enabled).email = email
BY DEF Edited, Row

\* Rightful, for each kind of request.
LEMMA RightfulRegister ==
  ASSUME NEW r \in RegisterRequests, NEW us
  PROVE  Rightful(r, us) = (Selected(us, r.email) = {})
BY RequestTypes DEF Rightful

\* To log in one needs the password of an enabled user.
LEMMA RightfulLogin ==
  ASSUME NEW r \in LoginRequests, NEW us
  PROVE  Rightful(r, us) = (\E i \in Selected(us, r.email) :
           us[i].password = r.password /\ us[i].enabled)
BY RequestTypes DEF Rightful

\* To enter one needs an unexpired token of an enabled user under the present address.
LEMMA RightfulEnter ==
  ASSUME NEW times, NEW r \in EnterRequests(times), NEW us
  PROVE  Rightful(r, us) = 
           (/\ r.at < r.token.exp
            /\ r.token.user \in Present(us)
            /\ us[r.token.user].enabled /\ us[r.token.user].email = r.token.email
            /\ r.token.email # Undefined)
BY RequestTypes DEF Rightful

-----------------------------------------------------------------------------
(* The inductive invariant *)

\* The user with id i, if not removed, has this password: ids are not given twice and
\* no code changes a password.
HasPassword(i, password) ==
  i \in 1..Len(users) /\ (users[i] # Undefined => users[i].password = password)

\* A token was given for the password its user has.
TokensHonest == \A t \in tokens : HasPassword(t.user, t.secret)

\* History knows that p's request deserved to succeed, or not to, as the table was.
Noted(p, deserved) == (deserved => TRUE \in seen[p]) /\ (~deserved => FALSE \in seen[p])

\* The answer `compare` is about to give.
Matches(p) == held[p].password = req[p].password /\ held[p].enabled

\* History knows why p's login is about to succeed, or to be refused.
Judged(p) ==
  /\ Matches(p) => TRUE \in seen[p]
  /\ ~Matches(p) /\ req[p].email # Undefined => FALSE \in seen[p]

Registering == {"findEmail", "insert"}
LoggingIn == {"findUser", "compare"}
Entering == {"verify", "findById", "inside"}

RequestOK(p) ==
  /\ pc[p] # "idle" => Noted(p, Rightful(req[p], users)) /\ outcome[p] = "none"
  /\ pc[p] \in Registering => req[p] \in RegisterRequests
  /\ pc[p] \in LoggingIn => req[p] \in LoginRequests
  /\ pc[p] \in Entering => req[p] \in EnterRequests(0..now)
  /\ pc[p] = "insert" => TRUE \in seen[p]
  /\ pc[p] = "compare" => /\ held[p] \in Row /\ HasPassword(target[p], held[p].password)
                          /\ Judged(p)
  /\ pc[p] \in {"findById", "inside"} =>
       req[p].at < req[p].token.exp /\ req[p].token.email # Undefined
  /\ pc[p] = "inside" => /\ target[p] = req[p].token.user
                         /\ held[p].password = req[p].token.secret
                         /\ TRUE \in seen[p]

Places == {"idle"} \cup Registering \cup LoggingIn \cup Entering
Outcomes == {"none", "conflict", "dbError", "internal", "registered", "unauthorized",
             "loggedIn", "served"}

AnyRequest == RegisterRequests \cup LoginRequests \cup EnterRequests(0..now)

\* The variables of the requests are functions.
Domains ==
  /\ pc \in [Handlers -> Places]
  /\ req \in [Handlers -> AnyRequest \cup {Undefined}]
  /\ target \in [Handlers -> 0..Len(users)]
  /\ held \in [Handlers -> Row \cup {Undefined}]
  /\ outcome \in [Handlers -> Outcomes]
  /\ seen \in [Handlers -> SUBSET BOOLEAN]

RequestsOK == Domains /\ \A p \in Handlers : RequestOK(p)

\* The rows the seed script has dealt with.
Seeded ==
  IF seeding.at \in {"find", "insert"} THEN 1..(seeding.row - 1)
  ELSE IF seeding.at = "done" THEN 1..seeding.last ELSE {}

\* Row k's address is there, in an account of the seed's own unless it was kept.
Left(k, kept) ==
  \E i \in WithEmail(SeedRows[k].email) : k \in kept \/ users[i] = SeedAccount(k)

SeedOK ==
  /\ seeding \in [at : {"off", "find", "insert", "done", "failed"},
                   row : 1..(Len(SeedRows) + 1), last : 1..(Len(SeedRows) + 1),
                   kept : SUBSET (1..Len(SeedRows))]
  /\ seeding.at \in {"find", "insert", "done"} =>
       seeding.row \in 1..seeding.last /\ seeding.last \in 1..Len(SeedRows)
  /\ seeding.at = "done" => seeding.row = seeding.last
  /\ edits = 0 => \A k \in Seeded : Left(k, seeding.kept)

\* Two users never share an address or a username: the entity's two unique indexes.
IdentitiesDistinct ==
  \A i, j \in Present(users) :
    \/ users[i].email # Undefined /\ users[i].email = users[j].email
    \/ users[i].username = users[j].username
    => i = j

TableOK == users \in Seq(Row \cup {Undefined}) /\ IdentitiesDistinct

Clock == now \in Nat /\ tokens \subseteq Tokens

Counted == signups \in Nat /\ logins \in Nat /\ edits \in Nat /\ seeds \in Nat /\ faults \in Nat

IInv == RequestsOK /\ TableOK /\ Clock /\ TokensHonest /\ SeedOK /\ Counted

\* What no step takes back.
Later ==
  /\ Len(users) \in Nat /\ Len(users') \in Nat /\ Len(users) <= Len(users')
  /\ \A i \in 1..Len(users) :
       users'[i] # Undefined =>
         users[i] # Undefined /\ users'[i].password = users[i].password
  /\ tokens \subseteq tokens'
  /\ now \in Nat /\ now' \in Nat /\ now <= now'

\* Every account that was there is there as it was.
Grows == \A i \in Present(users) : i \in Present(users') /\ users'[i] = users[i]

\* The history of q's request, if it has one, covers the table as it is after this step.
Watched(q) ==
  pc[q] # "idle" =>
    /\ seen[q] \subseteq seen'[q]
    /\ Rightful(req[q], users') => TRUE \in seen'[q]
    /\ ~Rightful(req[q], users') => FALSE \in seen'[q]

-----------------------------------------------------------------------------
(* Steps of a request *)

\* What was a request before a token was issued or the clock went on still is.
LEMMA EnterGrows ==
  ASSUME Later
  PROVE  /\ EnterRequests(0..now) \subseteq EnterRequests(0..now)'
         /\ AnyRequest \subseteq AnyRequest'
BY DEF Later, EnterRequests, AnyRequest

\* What the seed left stays.
LEMMA LeftStays ==
  ASSUME Grows, NEW k, NEW kept, NEW more, kept \subseteq more, Left(k, kept)
  PROVE  Left(k, more)'
BY DEF Grows, Left, WithEmail

\* Passwords stay with their ids.
LEMMA PasswordStays ==
  ASSUME Later, NEW i, NEW password, HasPassword(i, password)
  PROVE  HasPassword(i, password)'
BY DEF Later, HasPassword

\* A request that takes no step is still as it should be when the table changes:
\* ids keep their passwords, and Write and Note tell the history what changed.
LEMMA OtherRequest ==
  ASSUME NEW q \in Handlers, RequestOK(q), Later, Watched(q),
         pc'[q] = pc[q], req'[q] = req[q], target'[q] = target[q],
         held'[q] = held[q], outcome'[q] = outcome[q]
  PROVE  RequestOK(q)'
<1>1. pc[q] # "idle" => Noted(q, Rightful(req[q], users))' /\ outcome'[q] = "none"
  BY DEF Watched, RequestOK, Noted
<1>2. pc[q] \in Entering => req'[q] \in EnterRequests(0..now)'
  BY EnterGrows DEF RequestOK
<1>3. ASSUME pc[q] = "compare"
      PROVE  HasPassword(target[q], held[q].password)' /\ Judged(q)'
  <2>1. HasPassword(target[q], held[q].password)'
    BY <1>3 DEF RequestOK, HasPassword, Later
  <2>2. Matches(q)' <=> Matches(q) BY DEF Matches
  <2>3. Judged(q)' BY <1>3, <2>2 DEF RequestOK, Watched, Judged
  <2> QED BY <2>1, <2>3
<1>4. pc[q] \in {"insert", "inside"} => TRUE \in seen'[q]
  BY DEF RequestOK, Watched
<1> QED BY <1>1, <1>2, <1>3, <1>4 DEF RequestOK

\* Requests that are not touched keep their types.
LEMMA DomainsStay ==
  ASSUME Domains, Later, seen' \in [Handlers -> SUBSET BOOLEAN],
         UNCHANGED <<pc, req, target, held, outcome>>
  PROVE  Domains'
BY EnterGrows DEF Domains, Later

\* A request is answered.
LEMMA RespondStep ==
  ASSUME RequestsOK, Later, NEW p \in Handlers, NEW result \in Outcomes, Respond(p, result),
         seen' \in [Handlers -> SUBSET BOOLEAN],
         \A q \in Handlers \ {p} : Watched(q)
  PROVE  RequestsOK'
<1>1. Domains'
  <2>1. req' \in [Handlers -> AnyRequest' \cup {Undefined}]
    BY EnterGrows DEF Respond, RequestsOK, Domains
  <2>2. target' \in [Handlers -> 0..Len(users')]
    BY DEF Respond, RequestsOK, Domains, Later
  <2>3. /\ pc' \in [Handlers -> Places] /\ held' \in [Handlers -> Row \cup {Undefined}]
        /\ outcome' \in [Handlers -> Outcomes]
    BY DEF Respond, RequestsOK, Domains, Places
  <2> QED BY <2>1, <2>2, <2>3 DEF Domains
<1>2. RequestOK(p)'
  BY DEF Respond, RequestsOK, Domains, RequestOK, Registering, LoggingIn, Entering
<1>3. ASSUME NEW q \in Handlers, q # p PROVE RequestOK(q)'
  BY <1>3, OtherRequest DEF Respond, RequestsOK, Domains
<1> QED BY <1>1, <1>2, <1>3 DEF RequestsOK

\* Nothing happens to the table, and only p's history may change.
LEMMA QuietWatched ==
  ASSUME RequestsOK, users' = users, NEW q \in Handlers, seen'[q] = seen[q]
  PROVE  Watched(q)
BY DEF RequestsOK, RequestOK, Noted, Watched

\* A request that is answered keeps nothing.
LEMMA AnswerStep ==
  ASSUME RequestsOK, Later, NEW p \in Handlers, NEW result \in Outcomes, Answer(p, result)
  PROVE  RequestsOK'
<1>1. seen' \in [Handlers -> SUBSET BOOLEAN] /\ Respond(p, result)
  BY DEF Answer, RequestsOK, Domains
<1>2. ASSUME NEW q \in Handlers \ {p} PROVE Watched(q)
  BY <1>2, QuietWatched DEF Answer, RequestsOK, Domains
<1> QED BY <1>1, <1>2, RespondStep

\* What a write does to the histories.
LEMMA WriteWatched ==
  ASSUME RequestsOK, NEW us, NEW leaving, Write(us, leaving)
  PROVE  /\ seen' \in [Handlers -> SUBSET BOOLEAN]
         /\ \A q \in Handlers \ leaving : Watched(q)
<1>1. ASSUME NEW q \in Handlers, pc[q] # "idle"
      PROVE  Rightful(req[q], us) \in BOOLEAN
  <2>1. \/ req[q] \in RegisterRequests \/ req[q] \in LoginRequests
        \/ req[q] \in EnterRequests(0..now)
    BY <1>1 DEF RequestsOK, RequestOK, Domains, Places
  <2> QED BY <2>1, RightfulRegister, RightfulLogin, RightfulEnter
<1>2. seen' \in [Handlers -> SUBSET BOOLEAN]
  BY <1>1 DEF Write, RequestsOK, Domains
<1>3. ASSUME NEW q \in Handlers \ leaving, pc[q] # "idle"
      PROVE  seen'[q] = seen[q] \cup {Rightful(req[q], users')}
  BY <1>3 DEF Write
<1>4. ASSUME NEW q \in Handlers \ leaving, pc[q] # "idle"
      PROVE  Rightful(req[q], users') \in BOOLEAN
  BY <1>1, <1>4 DEF Write
<1>5. ASSUME NEW q \in Handlers \ leaving PROVE Watched(q)
  <2>1. CASE pc[q] # "idle" /\ Rightful(req[q], users') = TRUE
    BY <1>3, <2>1 DEF Watched
  <2>2. CASE pc[q] # "idle" /\ Rightful(req[q], users') = FALSE
    BY <1>3, <2>2 DEF Watched
  <2> QED BY <1>4, <2>1, <2>2 DEF Watched
<1> QED BY <1>2, <1>5

\* A request goes on with what it has.
LEMMA GoToStep ==
  ASSUME RequestsOK, Later, NEW p \in Handlers, NEW place \in Places, GoTo(p, place),
         RequestOK(p)'
  PROVE  RequestsOK'
<1>1. Domains'
  <2>1. req' \in [Handlers -> AnyRequest' \cup {Undefined}]
    BY EnterGrows DEF GoTo, RequestsOK, Domains
  <2>2. pc' \in [Handlers -> Places] /\ UNCHANGED <<target, held, outcome, seen, users>>
    BY DEF GoTo, RequestsOK, Domains
  <2> QED BY <2>1, <2>2 DEF RequestsOK, Domains
<1>2. ASSUME NEW q \in Handlers, q # p PROVE RequestOK(q)'
  BY <1>2, QuietWatched, OtherRequest DEF GoTo, RequestsOK, Domains
<1> QED BY <1>1, <1>2 DEF RequestsOK

\* A request reads a row.
LEMMA TakeStep ==
  ASSUME RequestsOK, Later, TableOK, NEW p \in Handlers, NEW i \in Present(users),
         NEW place \in Places, Take(p, i, place), RequestOK(p)'
  PROVE  RequestsOK'
<1>1. Domains'
  <2>1. req' \in [Handlers -> AnyRequest' \cup {Undefined}]
    BY EnterGrows DEF Take, RequestsOK, Domains
  <2>2. i \in 1..Len(users) /\ users[i] \in Row
    BY DEF Present, TableOK
  <2>3. target' \in [Handlers -> 0..Len(users')]
    BY <2>2 DEF Take, RequestsOK, Domains, Later
  <2>4. /\ pc' \in [Handlers -> Places] /\ held' \in [Handlers -> Row \cup {Undefined}]
        /\ UNCHANGED <<outcome, seen, users>>
    BY <2>2 DEF Take, RequestsOK, Domains
  <2> QED BY <2>1, <2>3, <2>4 DEF RequestsOK, Domains
<1>2. ASSUME NEW q \in Handlers, q # p PROVE RequestOK(q)'
  BY <1>2, QuietWatched, OtherRequest DEF Take, RequestsOK, Domains
<1> QED BY <1>1, <1>2 DEF RequestsOK

\* A request whose code runs on leaves everything else alone.
LEMMA QuietStep ==
  ASSUME IInv, UNCHANGED <<users, tokens, now, seeding, counters>>
  PROVE  /\ Later
         /\ RequestsOK' => IInv'
<1>1. Later BY DEF Later, IInv, TableOK, Clock
<1>2. TableOK' /\ Clock' /\ TokensHonest'
  BY DEF IInv, TableOK, IdentitiesDistinct, Present, Clock, TokensHonest, HasPassword
<1>3. SeedOK' /\ Counted'
  BY DEF IInv, SeedOK, Seeded, Left, WithEmail, Present, Counted, counters
<1> QED BY <1>1, <1>2, <1>3 DEF IInv

\* The lookup of register().
LEMMA FindEmailStep ==
  ASSUME IInv, NEW p \in Handlers, FindEmail(p)
  PROVE  IInv'
<1>1. RequestsOK /\ RequestOK(p) BY DEF IInv, RequestsOK
<1>2. CASE Answer(p, "conflict")
  <2>1. UNCHANGED <<users, tokens, now, seeding, counters>> BY <1>2 DEF FindEmail, Answer
  <2> QED BY <1>1, <1>2, <2>1, QuietStep, AnswerStep DEF Outcomes
<1>3. CASE Selected(users, req[p].email) = {} /\ GoTo(p, "insert")
  <2>1. UNCHANGED <<users, tokens, now, seeding, counters>> BY <1>3 DEF FindEmail, GoTo
  <2>3. TRUE \in seen[p]
    BY <1>1, <1>3, RightfulRegister DEF FindEmail, RequestOK, Registering, Noted
  <2>2. RequestOK(p)'
    BY <1>1, <1>3, <2>3 DEF FindEmail, GoTo, RequestOK, RequestsOK, Domains, Registering, LoggingIn,
                      Entering, Noted
  <2> QED BY <1>1, <1>3, <2>1, <2>2, QuietStep, GoToStep DEF Places, Registering
<1> QED BY <1>2, <1>3 DEF FindEmail

\* A row that matches is what the request deserves to succeed for; the row an address
\* leads to is the only one, so that one that does not match is what it is refused for.
LEMMA LoginVerdict ==
  ASSUME IdentitiesDistinct, NEW r \in LoginRequests, NEW i \in Selected(users, r.email),
         NEW match, match = (users[i].password = r.password /\ users[i].enabled)
  PROVE  /\ match => Rightful(r, users)
         /\ ~match /\ r.email # Undefined => ~Rightful(r, users)
<1>1. match => Rightful(r, users) BY RightfulLogin
<1>2. ASSUME r.email # Undefined, NEW j \in Selected(users, r.email) PROVE j = i
  BY <1>2 DEF IdentitiesDistinct, Selected
<1>3. ~match /\ r.email # Undefined => ~Rightful(r, users)
  BY <1>2, RightfulLogin
<1> QED BY <1>1, <1>3

\* The lookup of validateUser().
LEMMA FindUserStep ==
  ASSUME IInv, NEW p \in Handlers, FindUser(p)
  PROVE  IInv'
<1>1. RequestsOK /\ RequestOK(p) /\ pc[p] = "findUser" /\ req[p] \in LoginRequests
  BY DEF IInv, RequestsOK, RequestOK, LoggingIn, FindUser
<1>2. CASE Answer(p, "unauthorized")
  <2>1. UNCHANGED <<users, tokens, now, seeding, counters>> BY <1>2 DEF FindUser, Answer
  <2> QED BY <1>1, <1>2, <2>1, QuietStep, AnswerStep DEF Outcomes
<1>3. ASSUME NEW i \in Selected(users, req[p].email), Take(p, i, "compare")
      PROVE  IInv'
  <2>1. UNCHANGED <<users, tokens, now, seeding, counters>> BY <1>3 DEF FindUser, Take
  <2>2. i \in Present(users) /\ i \in 1..Len(users) /\ users[i] \in Row
    BY <1>3 DEF Selected, Present, IInv, TableOK
  <2>3. /\ pc'[p] = "compare" /\ target'[p] = i /\ held'[p] = users[i]
        /\ UNCHANGED <<req, outcome, seen, users>>
    BY <1>1, <1>3 DEF Take, RequestsOK, Domains
  <2>4. /\ Matches(p)' => Rightful(req[p], users)
        /\ ~Matches(p)' /\ req[p].email # Undefined => ~Rightful(req[p], users)
    BY <1>1, <1>3, <2>3, LoginVerdict DEF Matches, IInv, TableOK
  <2>5. Judged(p)' /\ Noted(p, Rightful(req[p], users))'
    BY <1>1, <2>3, <2>4 DEF RequestOK, Noted, Judged
  <2>6. HasPassword(target[p], held[p].password)' BY <2>2, <2>3 DEF HasPassword
  <2>7. RequestOK(p)'
    BY <1>1, <2>2, <2>3, <2>5, <2>6 DEF RequestOK, Registering, LoggingIn, Entering
  <2> QED BY <1>1, <1>3, <2>1, <2>2, <2>7, QuietStep, TakeStep DEF Places, LoggingIn, IInv
<1> QED BY <1>2, <1>3 DEF FindUser

\* passport checks signature and expiry.
LEMMA VerifyStep ==
  ASSUME IInv, NEW p \in Handlers, Verify(p)
  PROVE  IInv'
<1>1. RequestsOK /\ RequestOK(p) /\ pc[p] = "verify" /\ req[p] \in EnterRequests(0..now)
  BY DEF IInv, RequestsOK, RequestOK, Entering, Verify
<1>2. CASE Answer(p, "unauthorized")
  <2>1. UNCHANGED <<users, tokens, now, seeding, counters>> BY <1>2 DEF Verify, Answer
  <2> QED BY <1>1, <1>2, <2>1, QuietStep, AnswerStep DEF Outcomes
<1>3. CASE /\ now < req[p].token.exp /\ req[p].token.email # Undefined
           /\ GoTo(p, "findById")
  <2>1. UNCHANGED <<users, tokens, now, seeding, counters>> BY <1>3 DEF Verify, GoTo
  <2>2. req[p].at < req[p].token.exp
    <3>1. req[p].at \in 0..now /\ req[p].token \in Tokens
      BY <1>1, RequestTypes DEF IInv, Clock
    <3> QED BY <1>3, <3>1 DEF Tokens, IInv, Clock
  <2>3. pc'[p] = "findById" /\ UNCHANGED <<req, outcome, seen, users, tokens, now>>
    BY <1>1, <1>3 DEF GoTo, Verify, RequestsOK, Domains
  <2>4. Noted(p, Rightful(req[p], users))' /\ req'[p] \in EnterRequests(0..now)'
    BY <1>1, <2>3 DEF RequestOK, Noted, EnterRequests
  <2>5. RequestOK(p)'
    BY <1>1, <1>3, <2>2, <2>3, <2>4 DEF RequestOK, Registering, LoggingIn, Entering
  <2> QED BY <1>1, <1>3, <2>1, <2>5, QuietStep, GoToStep DEF Places, Entering
<1> QED BY <1>2, <1>3 DEF Verify

\* The lookup of JwtStrategy.validate().
LEMMA FindByIdStep ==
  ASSUME IInv, NEW p \in Handlers, FindById(p)
  PROVE  IInv'
<1>1. RequestsOK /\ RequestOK(p) /\ pc[p] = "findById" /\ req[p] \in EnterRequests(0..now)
  BY DEF IInv, RequestsOK, RequestOK, Entering, FindById
<1>2. CASE Answer(p, "unauthorized")
  <2>1. UNCHANGED <<users, tokens, now, seeding, counters>> BY <1>2 DEF FindById, Answer
  <2> QED BY <1>1, <1>2, <2>1, QuietStep, AnswerStep DEF Outcomes
<1>3. ASSUME NEW i, i = req[p].token.user, ValidUser(i), users[i].email = req[p].token.email,
             Take(p, i, "inside")
      PROVE  IInv'
  <2>1. UNCHANGED <<users, tokens, now, seeding, counters>> BY <1>3 DEF FindById, Take
  <2>2. i \in Present(users) BY <1>3 DEF ValidUser
  <2>3. /\ req[p].token \in tokens /\ req[p].at < req[p].token.exp
        /\ req[p].token.email # Undefined
    BY <1>1, RequestTypes DEF RequestOK
  <2>4. users[i].password = req[p].token.secret
    BY <1>3, <2>2, <2>3 DEF IInv, TokensHonest, HasPassword, Present
  <2>5. /\ pc'[p] = "inside" /\ target'[p] = i /\ held'[p] = users[i]
        /\ UNCHANGED <<req, outcome, seen, users, tokens, now>>
    BY <1>1, <1>3 DEF Take, FindById, RequestsOK, Domains
  <2>6. TRUE \in seen[p]
    <3>1. Rightful(req[p], users)
      BY <1>1, <1>3, <2>3, RightfulEnter DEF ValidUser
    <3> QED BY <1>1, <3>1 DEF RequestOK, Noted
  <2>7. Noted(p, Rightful(req[p], users))' /\ req'[p] \in EnterRequests(0..now)'
    BY <1>1, <2>5 DEF RequestOK, Noted, EnterRequests
  <2>8. RequestOK(p)'
    BY <1>1, <1>3, <2>3, <2>4, <2>5, <2>6, <2>7
    DEF RequestOK, Registering, LoggingIn, Entering
  <2> QED BY <1>1, <1>3, <2>1, <2>2, <2>8, QuietStep, TakeStep DEF Places, Entering, IInv
<1> QED BY <1>2, <1>3 DEF FindById

\* The controller answers.
LEMMA ServeStep ==
  ASSUME IInv, NEW p \in Handlers, Serve(p)
  PROVE  IInv'
<1>1. UNCHANGED <<users, tokens, now, seeding, counters>> BY DEF Serve, Answer
<1> QED BY <1>1, QuietStep, AnswerStep DEF Serve, IInv, Outcomes

\* A token is signed.
LEMMA CompareStep ==
  ASSUME IInv, NEW p \in Handlers, Compare(p)
  PROVE  IInv'
<1>1. RequestsOK /\ RequestOK(p) /\ pc[p] = "compare" /\ req[p] \in LoginRequests
  BY DEF IInv, RequestsOK, RequestOK, LoggingIn, Compare
<1>2. CASE Answer(p, "unauthorized") /\ UNCHANGED tokens
  <2>1. UNCHANGED <<users, tokens, now, seeding, counters>> BY <1>2 DEF Compare, Answer
  <2> QED BY <1>1, <1>2, <2>1, QuietStep, AnswerStep DEF Outcomes
<1>3. CASE /\ tokens' = tokens \cup {Sign(target[p], held[p], req[p].rememberMe)}
           /\ Answer(p, "loggedIn")
  <2>1. PICK t : t = Sign(target[p], held[p], req[p].rememberMe) OBVIOUS
  <2>2. held[p] \in Row /\ target[p] \in Ids /\ HasPassword(target[p], held[p].password)
    BY <1>1 DEF RequestOK, HasPassword, Ids
  <2>3. t \in Tokens /\ t.user = target[p] /\ t.secret = held[p].password
    BY <1>1, <2>1, <2>2, SignOK, RequestTypes DEF IInv, Clock
  <2>4. tokens' = tokens \cup {t} /\ UNCHANGED <<users, now, seeding, counters>>
    BY <1>3, <2>1 DEF Compare, Answer
  <2>5. Later BY <2>4 DEF Later, IInv, TableOK, Clock
  <2>6. RequestsOK' BY <1>1, <1>3, <2>5, AnswerStep DEF Outcomes
  <2>7. TableOK' /\ Clock'
    BY <2>3, <2>4 DEF IInv, TableOK, IdentitiesDistinct, Present, Clock
  <2>8. TokensHonest'
    BY <2>2, <2>3, <2>4 DEF IInv, TokensHonest, HasPassword
  <2>9. SeedOK' /\ Counted'
    BY <2>4 DEF IInv, SeedOK, Seeded, Left, WithEmail, Present, Counted, counters
  <2> QED BY <2>6, <2>7, <2>8, <2>9 DEF IInv
<1> QED BY <1>2, <1>3 DEF Compare

-----------------------------------------------------------------------------
(* Steps of the table *)

\* A row is added under a new id.
LEMMA AppendUser ==
  ASSUME TableOK, Clock, TokensHonest, NEW row \in Row, ~Clashes(row),
         users' = Append(users, row), UNCHANGED <<tokens, now>>
  PROVE  Later /\ TableOK' /\ TokensHonest' /\ Grows
<1> DEFINE n == Len(users)
<1>1. /\ n \in Nat /\ users' \in Seq(Row \cup {Undefined}) /\ Len(users') = n + 1
      /\ \A i \in 1..n : users'[i] = users[i]
      /\ users'[n + 1] = row
  BY DEF TableOK
<1>2. Later BY <1>1 DEF Later, Clock
<1>3. Present(users') \subseteq Present(users) \cup {n + 1}
  BY <1>1 DEF Present, TableOK
<1>4. \A i \in Present(users) : i \in 1..n /\ users'[i] = users[i] /\ i \in Present(users')
  BY <1>1 DEF Present, TableOK
<1>5. ASSUME NEW i \in Present(users'), NEW j \in Present(users'),
             \/ users'[i].email # Undefined /\ users'[i].email = users'[j].email
             \/ users'[i].username = users'[j].username
      PROVE  i = j
  <2>1. CASE i \in Present(users) /\ j \in Present(users)
    BY <1>4, <1>5, <2>1 DEF TableOK, IdentitiesDistinct
  <2>2. CASE i = n + 1 /\ j \in Present(users)
    BY <1>1, <1>4, <1>5, <2>2 DEF Clashes
  <2>3. CASE j = n + 1 /\ i \in Present(users)
    BY <1>1, <1>4, <1>5, <2>3 DEF Clashes
  <2> QED BY <1>3, <2>1, <2>2, <2>3
<1>6. TableOK' BY <1>1, <1>5 DEF TableOK, IdentitiesDistinct
<1>7. TokensHonest' BY <1>1 DEF TokensHonest, HasPassword
<1>8. Grows BY <1>4 DEF Grows
<1> QED BY <1>2, <1>6, <1>7, <1>8

\* An administrator changes a row or removes it.
LEMMA EditUser ==
  ASSUME TableOK, Clock, TokensHonest, NEW i \in Present(users),
         NEW row \in Row \cup {Undefined}, users' = [users EXCEPT ![i] = row],
         UNCHANGED <<tokens, now>>,
         row # Undefined =>
           /\ row.password = users[i].password /\ row.username = users[i].username
           /\ row.email = users[i].email \/ WithEmail(row.email) = {}
  PROVE  Later /\ TableOK' /\ TokensHonest'
<1> DEFINE n == Len(users)
<1>1. /\ n \in Nat /\ i \in 1..n /\ users' \in Seq(Row \cup {Undefined}) /\ Len(users') = n
      /\ \A j \in 1..n : users'[j] = IF j = i THEN row ELSE users[j]
  BY ExceptSeq DEF TableOK, Present
<1>2. users[i] # Undefined BY DEF Present
<1>3. Later BY <1>1, <1>2 DEF Later, Clock
<1>4. \A j \in Present(users') : j \in 1..n /\ j \in Present(users)
  BY <1>1, <1>2 DEF Present, TableOK
<1>5. ASSUME NEW j \in Present(users'), NEW k \in Present(users'),
             \/ users'[j].email # Undefined /\ users'[j].email = users'[k].email
             \/ users'[j].username = users'[k].username
      PROVE  j = k
  <2>1. j \in Present(users) /\ k \in Present(users) /\ j \in 1..n /\ k \in 1..n BY <1>4
  <2>2. CASE j # i /\ k # i
    BY <1>1, <1>5, <2>1, <2>2 DEF TableOK, IdentitiesDistinct
  <2>3. CASE j = i /\ k # i
    <3>1. row # Undefined /\ users'[j] = row /\ users'[k] = users[k]
      BY <1>1, <2>1, <2>3 DEF Present
    <3>2. users[k].email # row.email \/ row.email = users[i].email
      BY <2>1, <3>1 DEF WithEmail
    <3> QED BY <1>5, <2>1, <2>3, <3>1, <3>2 DEF TableOK, IdentitiesDistinct
  <2>4. CASE k = i /\ j # i
    <3>1. row # Undefined /\ users'[k] = row /\ users'[j] = users[j]
      BY <1>1, <2>1, <2>4 DEF Present
    <3>2. users[j].email # row.email \/ row.email = users[i].email
      BY <2>1, <3>1 DEF WithEmail
    <3> QED BY <1>5, <2>1, <2>4, <3>1, <3>2 DEF TableOK, IdentitiesDistinct
  <2> QED BY <2>2, <2>3, <2>4
<1>6. TableOK' BY <1>1, <1>5 DEF TableOK, IdentitiesDistinct
<1>7. TokensHonest' BY <1>1, <1>2 DEF TokensHonest, HasPassword
<1> QED BY <1>3, <1>6, <1>7

\* A registration is stored, whatever the client is told.
LEMMA InsertRow ==
  ASSUME IInv, NEW p \in Handlers, pc[p] = "insert", ~Clashes(NewUser(req[p])),
         ~Nameless(req[p]), Write(Append(users, NewUser(req[p])), {p}), NEW result \in Outcomes,
         Respond(p, result), UNCHANGED <<tokens, now, seeding, edits>>, Counted'
  PROVE  IInv'
<1>1. RequestsOK /\ req[p] \in RegisterRequests
  BY DEF IInv, RequestsOK, RequestOK, Registering
<1>2. PICK row \in Row : row = NewUser(req[p]) BY <1>1, NewUserOK
<1>3. users' = Append(users, row) /\ ~Clashes(row) BY <1>2 DEF Write
<1>4. Later /\ TableOK' /\ TokensHonest' /\ Grows
  BY <1>3, AppendUser DEF IInv
<1>5. RequestsOK' BY <1>1, <1>4, WriteWatched, RespondStep
<1>6. SeedOK'
  <2>1. PICK kept : kept = seeding.kept OBVIOUS
  <2>2. ASSUME edits = 0, NEW k \in Seeded PROVE Left(k, kept)'
    BY <1>4, <2>1, <2>2, LeftStays DEF IInv, SeedOK
  <2> QED BY <2>1, <2>2 DEF IInv, SeedOK, Seeded
<1>7. Clock' BY DEF IInv, Clock
<1> QED BY <1>4, <1>5, <1>6, <1>7 DEF IInv

\* register() inserts the user, or the unique indexes refuse it.
LEMMA InsertUserStep ==
  ASSUME IInv, NEW p \in Handlers, InsertUser(p)
  PROVE  IInv'
<1>1. CASE Answer(p, "dbError") \/ Answer(p, "internal")
  <2>1. UNCHANGED <<users, tokens, now, seeding, counters>> BY <1>1 DEF InsertUser, Answer
  <2> QED BY <1>1, <2>1, QuietStep, AnswerStep DEF IInv, Outcomes
<1>2. CASE /\ ~Nameless(req[p]) /\ ~Clashes(NewUser(req[p]))
           /\ Write(Append(users, NewUser(req[p])), {p}) /\ Respond(p, "registered")
  <2>1. UNCHANGED <<tokens, now, seeding, edits>> /\ Counted'
    BY DEF InsertUser, counters, IInv, Counted
  <2> QED BY <1>2, <2>1, InsertRow DEF InsertUser, Outcomes
<1> QED BY <1>1, <1>2 DEF InsertUser

-----------------------------------------------------------------------------
(* Arrivals, faults, restarts *)

\* A request that arrives.
LEMMA ReceiveStep ==
  ASSUME IInv, NEW p \in Handlers, NEW r, NEW place, Receive(p, r, place), Counted',
         \/ place = "findEmail" /\ r \in RegisterRequests
         \/ place = "findUser" /\ r \in LoginRequests
         \/ place = "verify" /\ r \in EnterRequests({now})
  PROVE  IInv'
<1>1. RequestsOK /\ now \in Nat BY DEF IInv, Clock
<1>2. Later /\ TableOK' /\ Clock' /\ TokensHonest'
  BY DEF Receive, Later, IInv, TableOK, IdentitiesDistinct, Present, Clock, TokensHonest,
         HasPassword
<1>3. SeedOK' BY DEF Receive, IInv, SeedOK, Seeded, Left, WithEmail, Present
<1>4. r \in AnyRequest /\ (place = "verify" => r \in EnterRequests(0..now))
  BY <1>1 DEF AnyRequest, EnterRequests
<1>5. Rightful(r, users) \in BOOLEAN
  BY RightfulRegister, RightfulLogin, RightfulEnter
<1>6. seen' \in [Handlers -> SUBSET BOOLEAN]
  BY <1>1, <1>5 DEF Receive, RequestsOK, Domains
<1>7. Domains'
  <2>1. req' \in [Handlers -> AnyRequest' \cup {Undefined}]
    BY <1>1, <1>2, <1>4, EnterGrows DEF Receive, RequestsOK, Domains
  <2>2. /\ pc' \in [Handlers -> Places] /\ outcome' \in [Handlers -> Outcomes]
        /\ UNCHANGED <<target, held, users>>
    BY <1>1 DEF Receive, RequestsOK, Domains, Places, Registering, LoggingIn, Entering, Outcomes
  <2> QED BY <1>1, <1>6, <2>1, <2>2 DEF RequestsOK, Domains
<1>8. RequestOK(p)'
  <2>1. /\ pc'[p] = place /\ req'[p] = r /\ outcome'[p] = "none"
        /\ seen'[p] = {Rightful(r, users)} /\ UNCHANGED <<users, tokens, now>>
    BY <1>1 DEF Receive, RequestsOK, Domains
  <2>2. Noted(p, Rightful(req[p], users))'
    <3>1. CASE Rightful(r, users) = TRUE BY <2>1, <3>1 DEF Noted
    <3>2. CASE Rightful(r, users) = FALSE BY <2>1, <3>2 DEF Noted
    <3> QED BY <1>5, <3>1, <3>2
  <2>3. place = "verify" => req'[p] \in EnterRequests(0..now)'
    BY <1>2, <1>4, <2>1, EnterGrows
  <2> QED BY <2>1, <2>2, <2>3 DEF RequestOK, Registering, LoggingIn, Entering
<1>9. ASSUME NEW q \in Handlers, q # p PROVE RequestOK(q)'
  BY <1>1, <1>2, <1>9, QuietWatched, OtherRequest DEF Receive, RequestsOK, Domains
<1> QED BY <1>2, <1>3, <1>7, <1>8, <1>9 DEF IInv, RequestsOK

\* The three kinds of arrival.
LEMMA ArrivalStep ==
  ASSUME IInv, NEW p \in Handlers, ReceiveRegister(p) \/ ReceiveLogin(p) \/ ReceiveEnter(p)
  PROVE  IInv'
<1>1. Counted'
  BY DEF IInv, Counted, ReceiveRegister, ReceiveLogin, ReceiveEnter, Receive
<1>2. CASE ReceiveRegister(p) BY <1>1, <1>2, ReceiveStep DEF ReceiveRegister
<1>3. CASE ReceiveLogin(p) BY <1>1, <1>3, ReceiveStep DEF ReceiveLogin
<1>4. CASE ReceiveEnter(p) BY <1>1, <1>4, ReceiveStep DEF ReceiveEnter
<1> QED BY <1>2, <1>3, <1>4

\* A failing statement of the database.
LEMMA DbFaultStep ==
  ASSUME IInv, NEW p \in Handlers, DbFault(p)
  PROVE  IInv'
<1>1. UNCHANGED <<tokens, now, seeding, edits>> /\ Counted'
  BY DEF DbFault, IInv, Counted
<1>2. ASSUME NEW result \in Outcomes, Answer(p, result) PROVE IInv'
  <2>1. users' = users BY <1>2 DEF Answer
  <2>2. Later /\ TableOK' /\ Clock' /\ TokensHonest'
    BY <1>1, <2>1 DEF Later, IInv, TableOK, IdentitiesDistinct, Present, Clock, TokensHonest,
                      HasPassword
  <2>3. SeedOK' BY <1>1, <2>1 DEF IInv, SeedOK, Seeded, Left, WithEmail, Present
  <2>4. RequestsOK' BY <1>2, <2>2, AnswerStep DEF IInv
  <2> QED BY <1>1, <2>2, <2>3, <2>4 DEF IInv
<1>3. CASE /\ pc[p] = "insert" /\ ~Nameless(req[p]) /\ ~Clashes(NewUser(req[p]))
           /\ Write(Append(users, NewUser(req[p])), {p}) /\ Respond(p, "dbError")
  BY <1>1, <1>3, InsertRow DEF Outcomes
<1> QED BY <1>2, <1>3 DEF DbFault, Outcomes

\* The requests in flight are lost.
LEMMA RestartStep ==
  ASSUME IInv, Restart
  PROVE  IInv'
<1>1. UNCHANGED <<users, tokens, now, seeding, counters>> BY DEF Restart
<1>2. Domains' /\ \A p \in Handlers : RequestOK(p)'
  <2>1. Len(users) \in Nat BY DEF IInv, TableOK
  <2>2. Domains' BY <1>1, <2>1 DEF Restart, Domains, Places, Outcomes
  <2>3. \A p \in Handlers : RequestOK(p)'
    BY DEF Restart, RequestOK, Registering, LoggingIn, Entering
  <2> QED BY <2>2, <2>3
<1> QED BY <1>1, <1>2, QuietStep DEF RequestsOK

\* What happens outside the requests touches none of them.
LEMMA Bystanders ==
  ASSUME RequestsOK, Later, UNCHANGED handler, seen' \in [Handlers -> SUBSET BOOLEAN],
         \A q \in Handlers : Watched(q)
  PROVE  RequestsOK'
<1>1. Domains' BY DomainsStay DEF RequestsOK, handler
<1>2. ASSUME NEW q \in Handlers PROVE RequestOK(q)'
  BY <1>2, OtherRequest DEF RequestsOK, handler
<1> QED BY <1>1, <1>2 DEF RequestsOK

\* Time passes: no token gets any younger.
LEMMA TickStep ==
  ASSUME IInv, Tick
  PROVE  IInv'
<1>1. /\ now \in Nat /\ now' = now + 1
      /\ UNCHANGED <<users, tokens, handler, seen, seeding, counters>>
  BY DEF Tick, IInv, Clock
<1>2. Later /\ TableOK' /\ Clock' /\ TokensHonest'
  BY <1>1 DEF Later, IInv, TableOK, IdentitiesDistinct, Present, Clock, TokensHonest, HasPassword
<1>3. SeedOK' /\ Counted'
  BY <1>1 DEF IInv, SeedOK, Seeded, Left, WithEmail, Present, Counted, counters
<1>4. RequestsOK /\ seen' \in [Handlers -> SUBSET BOOLEAN]
  BY <1>1 DEF IInv, RequestsOK, Domains
<1>5. RequestsOK' BY <1>1, <1>2, <1>4, QuietWatched, Bystanders
<1> QED BY <1>2, <1>3, <1>5 DEF IInv

\* An administrator changes or removes a user.
LEMMA AdministerStep ==
  ASSUME IInv, Administer
  PROVE  IInv'
<1>1. UNCHANGED <<tokens, now, handler, seeding>> /\ edits' = edits + 1 /\ edits' # 0 /\ Counted'
  BY DEF Administer, IInv, Counted
<1>2. ASSUME NEW i \in Present(users), NEW row \in Row \cup {Undefined},
             Write([users EXCEPT ![i] = row], {}),
             row # Undefined =>
               /\ row.password = users[i].password /\ row.username = users[i].username
               /\ row.email = users[i].email \/ WithEmail(row.email) = {}
      PROVE  IInv'
  <2>1. users' = [users EXCEPT ![i] = row] BY <1>2 DEF Write
  <2>2. Later /\ TableOK' /\ TokensHonest'
    BY <1>1, <1>2, <2>1, EditUser DEF IInv
  <2>3. /\ seen' \in [Handlers -> SUBSET BOOLEAN]
        /\ \A q \in Handlers : Watched(q)
    BY <1>2, WriteWatched DEF IInv
  <2>4. RequestsOK' BY <1>1, <2>2, <2>3, Bystanders DEF IInv
  <2>5. SeedOK' BY <1>1 DEF IInv, SeedOK, Seeded
  <2>6. Clock' BY <1>1 DEF IInv, Clock
  <2> QED BY <1>1, <2>2, <2>4, <2>5, <2>6 DEF IInv
<1>3. ASSUME NEW i \in Present(users) PROVE users[i] \in Row
  BY <1>3 DEF Present, IInv, TableOK
<1>4. ASSUME NEW i \in Present(users),
             Write([users EXCEPT ![i] = Edited(@, @.email, ~@.enabled)], {})
      PROVE  IInv'
  <2>1. users[i] \in Row /\ users[i].email \in Addresses /\ (~users[i].enabled) \in BOOLEAN
    BY <1>3 DEF Row
  <2>2. PICK row \in Row : row = Edited(users[i], users[i].email, ~users[i].enabled)
    BY <2>1, EditedOK
  <2>3. /\ row.password = users[i].password /\ row.username = users[i].username
        /\ row.email = users[i].email
    BY <2>1, <2>2, EditedOK
  <2> QED BY <1>2, <1>4, <2>2, <2>3
<1>5. ASSUME NEW i \in Present(users), NEW email \in Emails, WithEmail(email) = {},
             Write([users EXCEPT ![i] = Edited(@, email, @.enabled)], {})
      PROVE  IInv'
  <2>1. users[i] \in Row /\ users[i].enabled \in BOOLEAN /\ email \in Addresses
    BY <1>3 DEF Row, Addresses
  <2>2. PICK row \in Row : row = Edited(users[i], email, users[i].enabled)
    BY <2>1, EditedOK
  <2>3. /\ row.password = users[i].password /\ row.username = users[i].username
        /\ WithEmail(row.email) = {}
    BY <1>5, <2>1, <2>2, EditedOK
  <2> QED BY <1>2, <1>5, <2>2, <2>3
<1>6. ASSUME NEW i \in Present(users), Write([users EXCEPT ![i] = Undefined], {})
      PROVE  IInv'
  BY <1>2, <1>6
<1> QED BY <1>4, <1>5, <1>6 DEF Administer

-----------------------------------------------------------------------------
(* The seed script *)

\* On to the next account, or to the end.
LEMMA SeedOnOK ==
  ASSUME SeedOK, seeding.at \in {"find", "insert"}, edits' = edits, edits \in Nat, Grows,
         NEW kept \in SUBSET (1..Len(SeedRows)), seeding.kept \subseteq kept,
         seeding' = SeedOn(kept),
         NEW row, row = seeding.row, Left(row, kept)'
  PROVE  SeedOK'
<1>1. /\ seeding.row \in 1..seeding.last /\ seeding.last \in 1..Len(SeedRows)
      /\ Len(SeedRows) \in Nat
  BY AuthAssumption DEF SeedOK, AuthAssumption
<1>2. ASSUME edits = 0, NEW k \in Seeded \cup {row} PROVE Left(k, kept)'
  <2>1. CASE k \in Seeded
    <3>1. PICK old : old = seeding.kept OBVIOUS
    <3>2. Left(k, old) BY <1>2, <2>1, <3>1 DEF SeedOK
    <3> QED BY <3>1, <3>2, LeftStays
  <2> QED BY <1>2, <2>1
<1>3. CASE seeding.row < seeding.last
  <2>1. seeding' = [at |-> "find", row |-> seeding.row + 1, last |-> seeding.last,
                    kept |-> kept]
    BY <1>3 DEF SeedOn, SeedAt
  <2>2. Seeded' \subseteq Seeded \cup {row} BY <1>1, <2>1 DEF Seeded
  <2>3. edits' = 0 => \A k \in Seeded' : Left(k, seeding.kept)'
    BY <1>2, <2>1, <2>2
  <2> QED BY <1>1, <1>3, <2>1, <2>3 DEF SeedOK
<1>4. CASE ~(seeding.row < seeding.last)
  <2>1. seeding' = [at |-> "done", row |-> seeding.row, last |-> seeding.last,
                    kept |-> kept]
    BY <1>4 DEF SeedOn, SeedAt
  <2>2. Seeded' \subseteq Seeded \cup {row} BY <1>1, <1>4, <2>1 DEF Seeded
  <2>3. edits' = 0 => \A k \in Seeded' : Left(k, seeding.kept)'
    BY <1>2, <2>1, <2>2
  <2> QED BY <1>1, <1>4, <2>1, <2>3 DEF SeedOK
<1> QED BY <1>3, <1>4

\* The account just added is there, as the seed wants it.
LEMMA StoredSeed ==
  ASSUME NEW k \in 1..Len(SeedRows), users \in Seq(Row \cup {Undefined}),
         users' = Append(users, SeedAccount(k)), NEW kept
  PROVE  Left(k, kept)'
<1>1. PICK row \in Row : row = SeedAccount(k) BY SeedAccountOK
<1>2. users'[Len(users) + 1] = row /\ Len(users) + 1 \in DOMAIN users' BY <1>1
<1>3. row # Undefined BY AuthAssumption DEF AuthAssumption
<1> QED BY <1>1, <1>2, <1>3, SeedAccountOK DEF Left, WithEmail, Present

\* The seed script starts, looks an account up, inserts it or is stopped by an index.
LEMMA SeedStep ==
  ASSUME IInv, SeedStart \/ SeedFind \/ SeedInsert
  PROVE  IInv'
<1>1. RequestsOK /\ Len(SeedRows) \in Nat /\ UNCHANGED <<tokens, now, handler, edits>> /\ Counted'
  BY AuthAssumption
  DEF IInv, AuthAssumption, SeedStart, SeedFind, SeedInsert, counters, Counted
<1>2. Clock' BY <1>1 DEF IInv, Clock
<1>3. ASSUME UNCHANGED <<users, seen>>, SeedOK' PROVE IInv'
  <2>1. Later /\ TableOK' /\ TokensHonest'
    BY <1>1, <1>3 DEF Later, IInv, TableOK, IdentitiesDistinct, Present, Clock, TokensHonest,
                      HasPassword
  <2>2. RequestsOK'
    BY <1>1, <1>3, <2>1, QuietWatched, Bystanders DEF RequestsOK, Domains
  <2> QED BY <1>1, <1>2, <1>3, <2>1, <2>2 DEF IInv
<1>4. CASE SeedStart
  <2>1. PICK last \in 1..Len(SeedRows) :
          seeding' = [at |-> "find", row |-> 1, last |-> last, kept |-> {}]
    <3>1. DOMAIN SeedRows = 1..Len(SeedRows) BY AuthAssumption DEF AuthAssumption
    <3> QED BY <1>4, <3>1 DEF SeedStart
  <2>2. SeedOK' BY <1>1, <2>1 DEF SeedOK, Seeded
  <2> QED BY <1>3, <1>4, <2>2 DEF SeedStart
<1>5. ASSUME seeding.at \in {"find", "insert"}
      PROVE  /\ seeding.row \in 1..Len(SeedRows)
             /\ SeedUser \in Row /\ SeedUser.email = SeedRows[seeding.row].email
             /\ seeding.kept \in SUBSET (1..Len(SeedRows))
  <2>1. seeding.row \in 1..Len(SeedRows) BY <1>1, <1>5 DEF IInv, SeedOK
  <2>2. seeding.kept \in SUBSET (1..Len(SeedRows)) BY DEF IInv, SeedOK
  <2> QED BY <2>1, <2>2, SeedAccountOK DEF SeedUser
<1>6. CASE SeedFind
  <2>1. seeding.at = "find" /\ UNCHANGED <<users, seen>> BY <1>6 DEF SeedFind
  <2>2. CASE WithEmail(SeedUser.email) # {}
    <3>1. PICK row, kept : row = seeding.row /\ kept = seeding.kept \cup {seeding.row}
      OBVIOUS
    <3>2. seeding' = SeedOn(kept) /\ kept \in SUBSET (1..Len(SeedRows))
          /\ seeding.kept \subseteq kept
      BY <1>5, <1>6, <2>1, <2>2, <3>1 DEF SeedFind
    <3>3. Grows BY <2>1 DEF Grows
    <3>4. Left(row, kept)'
      <4>1. WithEmail(SeedRows[row].email) # {} BY <1>5, <2>1, <2>2, <3>1
      <4> QED BY <2>1, <3>1, <4>1 DEF Left, WithEmail, Present
    <3>5. SeedOK' BY <1>1, <2>1, <3>1, <3>2, <3>3, <3>4, SeedOnOK DEF IInv, Counted
    <3> QED BY <1>3, <2>1, <3>5
  <2>3. CASE WithEmail(SeedUser.email) = {}
    <3>1. seeding' = [at |-> "insert", row |-> seeding.row, last |-> seeding.last,
                      kept |-> seeding.kept]
      BY <1>6, <2>3 DEF SeedFind, SeedAt
    <3>2. SeedOK' BY <1>1, <2>1, <3>1 DEF IInv, SeedOK, Seeded, Left, WithEmail, Present
    <3> QED BY <1>3, <2>1, <3>2
  <2> QED BY <2>2, <2>3
<1>7. CASE SeedInsert
  <2>1. seeding.at = "insert" BY <1>7 DEF SeedInsert
  <2>2. CASE seeding' = SeedAt("failed", seeding.row, seeding.kept) /\ UNCHANGED <<users, seen>>
    <3>1. SeedOK' BY <1>1, <2>2 DEF IInv, SeedOK, SeedAt, Seeded
    <3> QED BY <1>3, <2>2, <3>1
  <2>3. CASE /\ ~Clashes(SeedUser) /\ Write(Append(users, SeedUser), {})
             /\ seeding' = SeedOn(seeding.kept)
    <3>1. PICK row \in Row : row = SeedUser BY <1>5, <2>1
    <3>2. users' = Append(users, row) /\ ~Clashes(row) BY <2>3, <3>1 DEF Write
    <3>3. Later /\ TableOK' /\ TokensHonest' /\ Grows
      BY <1>1, <3>2, AppendUser DEF IInv
    <3>4. PICK k, kept : k = seeding.row /\ kept = seeding.kept OBVIOUS
    <3>5. Left(k, kept)'
      BY <1>5, <2>1, <3>1, <3>2, <3>4, StoredSeed DEF IInv, TableOK, SeedUser
    <3>6. SeedOK'
      BY <1>1, <1>5, <2>1, <2>3, <3>3, <3>4, <3>5, SeedOnOK DEF IInv, Counted
    <3>7. /\ seen' \in [Handlers -> SUBSET BOOLEAN]
          /\ \A q \in Handlers : Watched(q)
      BY <1>1, <2>3, WriteWatched
    <3>8. RequestsOK' BY <1>1, <3>3, <3>7, Bystanders
    <3> QED BY <1>1, <1>2, <3>3, <3>6, <3>8 DEF IInv
  <2> QED BY <1>7, <2>2, <2>3 DEF SeedInsert
<1> QED BY <1>4, <1>6, <1>7

-----------------------------------------------------------------------------
(* The invariant holds *)

\* The initial state has the invariant.
LEMMA InvInit == Init => IInv
<1> SUFFICES ASSUME Init PROVE IInv OBVIOUS
<1>1. Len(users) = 0 /\ users \in Seq(Row \cup {Undefined}) /\ Present(users) = {}
  BY DEF Init, Present
<1>2. TableOK /\ TokensHonest /\ Clock
  BY <1>1 DEF Init, TableOK, IdentitiesDistinct, TokensHonest, Clock
<1>3. SeedOK /\ Counted
  BY AuthAssumption DEF Init, SeedOK, Seeded, Counted, AuthAssumption
<1>4. RequestsOK
  BY <1>1 DEF Init, RequestsOK, Domains, RequestOK, Places, Outcomes, Registering, LoggingIn,
              Entering
<1> QED BY <1>2, <1>3, <1>4 DEF IInv

\* Every step keeps it.
LEMMA InvNext == IInv /\ [Next]_vars => IInv'
<1> SUFFICES ASSUME IInv, [Next]_vars PROVE IInv' OBVIOUS
<1>1. ASSUME NEW p \in Handlers, ReceiveRegister(p) \/ ReceiveLogin(p) \/ ReceiveEnter(p)
      PROVE  IInv'
  BY <1>1, ArrivalStep
<1>2. ASSUME NEW p \in Handlers, Proceed(p) PROVE IInv'
  BY <1>2, FindEmailStep, InsertUserStep, FindUserStep, CompareStep, VerifyStep, FindByIdStep,
     ServeStep DEF Proceed
<1>3. ASSUME NEW p \in Handlers, DbFault(p) PROVE IInv' BY <1>3, DbFaultStep
<1>4. CASE SeedStart \/ SeedFind \/ SeedInsert BY <1>4, SeedStep
<1>5. CASE Administer BY <1>5, AdministerStep
<1>6. CASE Tick BY <1>6, TickStep
<1>7. CASE Restart BY <1>7, RestartStep
<1>8. CASE UNCHANGED vars
  <2>1. UNCHANGED <<users, tokens, now, seeding, counters>> /\ UNCHANGED handler /\ seen' = seen
    BY <1>8 DEF vars, counters, handler
  <2>2. Later BY <2>1, QuietStep
  <2>3. RequestsOK /\ seen' \in [Handlers -> SUBSET BOOLEAN]
    BY <2>1 DEF IInv, RequestsOK, Domains
  <2>4. RequestsOK' BY <2>1, <2>2, <2>3, QuietWatched, Bystanders
  <2> QED BY <2>1, <2>4, QuietStep
<1> QED BY <1>1, <1>2, <1>3, <1>4, <1>5, <1>6, <1>7, <1>8 DEF Next

\* The inductive invariant holds in every state.
THEOREM Invariance == Spec => []IInv
BY InvInit, InvNext, PTL DEF Spec

-----------------------------------------------------------------------------
(* Theorems *)

\* Every state is well typed.
THEOREM TypeCorrect == Spec => []TypeOK
<1>1. IInv => TypeOK
  BY DEF IInv, RequestsOK, Domains, AnyRequest, Places, Outcomes, Registering, LoggingIn, Entering,
         TableOK, Clock, SeedOK, Counted, TypeOK
<1> QED BY <1>1, Invariance, PTL

\* A request inside a guarded route acts as the user whose password its token was
\* given for, though addresses change and users are removed while it is checked.
THEOREM HolderOwnsToken == Spec => []HolderIsOwner
<1>1. IInv => HolderIsOwner BY DEF IInv, RequestsOK, RequestOK, HolderIsOwner
<1> QED BY <1>1, Invariance, PTL

\* A seed that reports success leaves every account it was asked for, with the seed's
\* own name and password unless it found the address taken, unless an administrator
\* edits the table: no registration that comes between is taken for its own.
THEOREM SeedCompletes == Spec => []SeedIsComplete
<1>1. IInv => SeedIsComplete BY DEF IInv, SeedOK, Seeded, Left, SeedIsComplete
<1> QED BY <1>1, Invariance, PTL

-----------------------------------------------------------------------------
(* Answers *)

\* A request that is in flight is answered only by a step of its own.
LEMMA OwnStep ==
  ASSUME IInv, [Next]_vars, NEW p \in Handlers, pc[p] # "idle", outcome'[p] # "none"
  PROVE  Proceed(p) \/ DbFault(p)
<1>1. outcome[p] = "none" /\ outcome \in [Handlers -> Outcomes]
  BY DEF IInv, RequestsOK, RequestOK, Domains
<1>2. ASSUME NEW q \in Handlers, ReceiveRegister(q) \/ ReceiveLogin(q) \/ ReceiveEnter(q)
      PROVE  FALSE
  BY <1>1, <1>2 DEF ReceiveRegister, ReceiveLogin, ReceiveEnter, Receive
<1>3. ASSUME NEW q \in Handlers, Proceed(q) \/ DbFault(q), q # p PROVE FALSE
  <2>1. \/ outcome' = outcome
        \/ \E result : outcome' = [outcome EXCEPT ![q] = result]
    BY <1>3 DEF Proceed, DbFault, FindEmail, InsertUser, FindUser, Compare, Verify, FindById,
                Serve, Answer, Respond, GoTo, Take
  <2> QED BY <1>1, <1>3, <2>1
<1>4. CASE SeedStart \/ SeedFind \/ SeedInsert \/ Administer \/ Tick \/ UNCHANGED vars
  BY <1>1, <1>4 DEF SeedStart, SeedFind, SeedInsert, Administer, Tick, vars, handler
<1>5. CASE Restart BY <1>5 DEF Restart
<1> QED BY <1>2, <1>3, <1>4, <1>5 DEF Next

\* What the step says when it answers.
LEMMA Answered ==
  ASSUME IInv, NEW p \in Handlers, NEW result \in Outcomes, Respond(p, result)
  PROVE  outcome'[p] = result
BY DEF Respond, IInv, RequestsOK, Domains

\* A request that is not answered has no answer.
LEMMA Unanswered ==
  ASSUME IInv, NEW p \in Handlers, pc[p] # "idle", outcome' = outcome
  PROVE  outcome'[p] = "none"
BY DEF IInv, RequestsOK, RequestOK

\* A request that succeeds deserved to.
LEMMA SuccessStep ==
  ASSUME IInv, [Next]_vars, NEW p \in Handlers, pc[p] # "idle",
         outcome'[p] \in {"registered", "loggedIn", "served"}
  PROVE  TRUE \in seen[p]
<1>1. RequestOK(p) /\ Noted(p, Rightful(req[p], users)) BY DEF IInv, RequestsOK, RequestOK
<1>2. CASE InsertUser(p) BY <1>1, <1>2 DEF InsertUser, RequestOK
<1>3. CASE Compare(p)
  <2>1. pc[p] = "compare" /\ Matches(p)
    BY <1>3, Answered DEF Compare, Answer, Matches, Outcomes
  <2> QED BY <1>1, <2>1 DEF RequestOK, Judged
<1>4. CASE Serve(p) BY <1>1, <1>4 DEF Serve, RequestOK
<1>5. CASE FindEmail(p) \/ FindUser(p) \/ Verify(p) \/ FindById(p) \/ DbFault(p)
  <2>1. \/ outcome' = outcome
        \/ \E result \in {"conflict", "unauthorized", "dbError"} : Respond(p, result)
    BY <1>5 DEF FindEmail, FindUser, Verify, FindById, DbFault, Answer, GoTo, Take
  <2> QED BY <2>1, Answered, Unanswered DEF Outcomes
<1> QED BY <1>2, <1>3, <1>4, <1>5, OwnStep DEF Proceed

\* A request that is refused did not, or its token has expired since.
LEMMA RefusalStep ==
  ASSUME IInv, [Next]_vars, NEW p \in Handlers, pc[p] # "idle",
         outcome'[p] \in {"conflict", "unauthorized"}, faults' = faults,
         req[p].op = "login" => req[p].email # Undefined
  PROVE  FALSE \in seen[p] \/ (req[p].op = "enter" /\ now >= req[p].token.exp)
<1>1. RequestOK(p) /\ Noted(p, Rightful(req[p], users)) BY DEF IInv, RequestsOK, RequestOK
<1>2. CASE FindEmail(p)
  <2>1. pc[p] = "findEmail" /\ Selected(users, req[p].email) # {}
    BY <1>2, Unanswered DEF FindEmail, GoTo
  <2>2. req[p] \in RegisterRequests BY <1>1, <2>1 DEF RequestOK, Registering
  <2>3. ~Rightful(req[p], users) BY <2>1, <2>2, RightfulRegister
  <2> QED BY <1>1, <2>3 DEF Noted
<1>3. CASE FindUser(p)
  <2>1. pc[p] = "findUser" /\ Selected(users, req[p].email) = {}
    BY <1>3, Unanswered DEF FindUser, Take
  <2>2. req[p] \in LoginRequests BY <1>1, <2>1 DEF RequestOK, LoggingIn
  <2>3. ~Rightful(req[p], users) BY <2>1, <2>2, RightfulLogin
  <2> QED BY <1>1, <2>3 DEF Noted
<1>4. CASE Compare(p)
  <2>1. pc[p] = "compare" /\ ~Matches(p)
    BY <1>4, Answered DEF Compare, Answer, Matches, Outcomes
  <2>2. req[p].op = "login" BY <1>1, <2>1, RequestTypes DEF RequestOK, LoggingIn
  <2> QED BY <1>1, <2>1, <2>2 DEF RequestOK, Judged
<1>5. CASE Verify(p)
  <2>1. pc[p] = "verify" /\ ~(now < req[p].token.exp /\ req[p].token.email # Undefined)
    BY <1>5, Unanswered DEF Verify, GoTo
  <2>2. req[p] \in EnterRequests(0..now) BY <1>1, <2>1 DEF RequestOK, Entering
  <2>3. req[p].op = "enter" /\ req[p].token \in Tokens /\ now \in Nat
    BY <2>2, RequestTypes DEF IInv, Clock
  <2>4. PICK expiry \in Nat : expiry = req[p].token.exp BY <2>3 DEF Tokens
  <2>5. CASE now < expiry
    <3>1. ~Rightful(req[p], users) BY <2>1, <2>2, <2>4, <2>5, RightfulEnter
    <3> QED BY <1>1, <3>1 DEF Noted
  <2>6. CASE ~(now < expiry)
    <3>1. now >= expiry BY <2>3, <2>4, <2>6
    <3> QED BY <2>3, <2>4, <3>1
  <2> QED BY <2>5, <2>6
<1>6. CASE FindById(p)
  <2>1. /\ pc[p] = "findById"
        /\ ~(ValidUser(req[p].token.user)
             /\ users[req[p].token.user].email = req[p].token.email)
    BY <1>6, Unanswered DEF FindById, Take
  <2>2. req[p] \in EnterRequests(0..now) BY <1>1, <2>1 DEF RequestOK, Entering
  <2>3. ~Rightful(req[p], users) BY <2>1, <2>2, RightfulEnter DEF ValidUser
  <2> QED BY <1>1, <2>3 DEF Noted
<1>7. CASE InsertUser(p)
  <2>1. \E result \in {"dbError", "internal", "registered"} : Respond(p, result)
    BY <1>7 DEF InsertUser, Answer
  <2> QED BY <2>1, Answered DEF Outcomes
<1>8. CASE Serve(p)
  <2>1. Respond(p, "served") BY <1>8 DEF Serve, Answer
  <2> QED BY <2>1, Answered DEF Outcomes
<1>9. CASE DbFault(p) BY <1>9 DEF DbFault, IInv, Counted
<1> QED BY <1>2, <1>3, <1>4, <1>5, <1>6, <1>7, <1>8, <1>9, OwnStep DEF Proceed

\* Requests that succeed are linearizable: at some moment between arrival and answer
\* the request deserved to.  The lookups and inserts of register(), login() and
\* JwtStrategy.validate() are separate statements, and other requests come between.
THEOREM SuccessDeserved == Spec => AcceptedForCause
<1>1. IInv /\ [Next]_vars =>
        [\A p \in Handlers :
           pc[p] # "idle" /\ outcome'[p] \in {"registered", "loggedIn", "served"}
             => TRUE \in seen[p]]_vars
  BY SuccessStep
<1> QED BY <1>1, Invariance, PTL DEF Spec, AcceptedForCause

\* So are requests that are refused while the database works: at some moment the
\* request did not deserve to succeed, or its token expired while it was checked.
THEOREM RefusalDeserved == Spec => RefusedForCause
<1>1. IInv /\ [Next]_vars =>
        [\A p \in Handlers :
           /\ pc[p] # "idle" /\ outcome'[p] \in {"conflict", "unauthorized"}
           /\ faults' = faults
           /\ req[p].op = "login" => req[p].email # Undefined
           => FALSE \in seen[p] \/ (req[p].op = "enter" /\ now >= req[p].token.exp)]_vars
  BY RefusalStep
<1> QED BY <1>1, Invariance, PTL DEF Spec, RefusedForCause
=============================================================================
