---------------------------- MODULE AccountRegistry ----------------------------
(***************************************************************************)
(* What CexAccountsService promises to a client, without statements,       *)
(* entities or columns: a book of numbered accounts, each in a place (a    *)
(* user, type and environment).  A client asks, and what is done is done   *)
(* in the step that tells.  A closed account is crossed out, not removed:  *)
(* opening its place again gives it the new key and switches it on, but    *)
(* what the request leaves out stays as the closed account had it.         *)
(***************************************************************************)
EXTENDS Sequences, Naturals

CONSTANTS Users, Types, Envs, Keys, Labels, Rights, DefaultRights,
          None      \* what a request leaves out

Requests ==
  [op : {"create"}, user : Users, type : Types \cup {None}, env : Envs \cup {None},
   key : Keys, label : Labels \cup {None}, rights : Rights \cup {None}]
  \cup [op : {"update"}, user : Users, id : Nat, label : Labels \cup {None},
        rights : Rights \cup {None}, enabled : {"yes", "no", None}]
  \cup [op : {"delete", "test"}, user : Users, id : Nat]

VARIABLES
  book,
  asked,    \* the requests not answered yet: none, or one
  told      \* the answer last given, if nothing has been asked since

Init == book = << >> /\ asked = {} /\ told \subseteq {"none"}

\* The numbers of the accounts in a place that a creation request may mean.
Meant(r) ==
  {n \in DOMAIN book : /\ book[n].user = r.user
                       /\ r.type \in {None, book[n].type}
                       /\ r.env \in {None, book[n].env}}

\* Does r name an open account of its user by its number?
Named(r) == r.id \in DOMAIN book /\ book[r.id].user = r.user /\ book[r.id].state = "open"

Or(value, other) == IF value = None THEN other ELSE value

-----------------------------------------------------------------------------

\* The account a creation request opens.
Opened(r) ==
  [user |-> r.user, type |-> r.type, env |-> r.env, key |-> r.key, label |-> r.label,
   rights |-> Or(r.rights, DefaultRights), enabled |-> "yes", state |-> "open"]

\* What it makes of a closed account, and what an update makes of an open one.
Reopened(account, r) ==
  [account EXCEPT !.key = r.key, !.label = Or(r.label, @), !.rights = Or(r.rights, @),
                  !.enabled = "yes", !.state = "open"]

Amended(account, r) ==
  [account EXCEPT !.label = Or(r.label, @), !.rights = Or(r.rights, @),
                  !.enabled = Or(r.enabled, @)]

\* In a place never used, by a request that leaves out nothing without a default.
Open(r) ==
  /\ Meant(r) = {}
  /\ None \notin {r.type, r.env, r.label}
  /\ book' = Append(book, Opened(r))

\* In a place where no account is open any more.
Reopen(r) ==
  /\ \A n \in Meant(r) : book[n].state = "closed"
  /\ \E n \in Meant(r) : book' = [book EXCEPT ![n] = Reopened(@, r)]

Amend(r) == Named(r) /\ book' = [book EXCEPT ![r.id] = Amended(@, r)]

Close(r) == Named(r) /\ book' = [book EXCEPT ![r.id] = [@ EXCEPT !.state = "closed"]]

\* What doing r does to the book, and what is told of it.
Does(r, result) ==
  \/ r.op = "create" /\ result = "created" /\ Open(r)
  \/ r.op = "create" /\ result = "restored" /\ Reopen(r)
  \/ r.op = "update" /\ result = "updated" /\ Amend(r)
  \/ r.op = "delete" /\ result = "deleted" /\ Close(r)

\* What is told where the book stays as it is.
Refuses(r, result) ==
  \/ r.op = "create" /\ result = "conflict" /\ \E n \in Meant(r) : book[n].state = "open"
  \/ r.op # "create" /\ result = "notFound" /\ ~Named(r)
  \/ r.op = "test" /\ result \in {"connected", "failed"} /\ Named(r)

Ask ==
  /\ asked = {} /\ told' = {}
  /\ \E r \in asked' : r \in Requests /\ asked' = {r}
  /\ UNCHANGED book

Serve(r) ==
  /\ asked = {r} /\ asked' = {}
  /\ \E result \in told' :
       /\ told' = {result}
       /\ Does(r, result) \/ (Refuses(r, result) /\ UNCHANGED book)

\* The database fails or refuses; what fails may be the acknowledgement only.
Fail(r) ==
  /\ asked = {r} /\ asked' = {} /\ told' = {"dbError"}
  /\ \/ UNCHANGED book
     \/ \E result \in {"created", "restored", "updated", "deleted"} : Does(r, result)

\* The server restarts: nobody is told.
Forget == asked # {} /\ asked' = {} /\ told' = {"none"} /\ UNCHANGED book

Next == Ask \/ (\E r \in asked : Serve(r) \/ Fail(r)) \/ Forget

Spec == Init /\ [][Next]_<<book, asked, told>>

=============================================================================
