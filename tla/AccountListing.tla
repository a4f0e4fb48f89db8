---------------------------- MODULE AccountListing ----------------------------
(***************************************************************************)
(* getCexAccounts and getDexAccounts: a client walks through the pages of  *)
(* its accounts while other requests add, change, delete and restore       *)
(* accounts.  Each page is two statements, the rows and their number, and  *)
(* nothing holds the table still between statements or between pages.      *)
(* Of the filters that compare a column, `enabled` is one the DTO converts *)
(* and `venue` (exchange; blockchainWebsiteId) one that it does not; of    *)
(* those that only DexAccountsService applies, `createdAfter` stands for   *)
(* all.  createdAt grows with the id, so it is the id.                     *)
(***************************************************************************)
EXTENDS Integers, Sequences, FiniteSets, SequencesExt, Functions

CONSTANTS
  Services,       \* "cex", "dex": whose query runs
  Bootstraps,     \* "plain": query strings reach the service as they are;
                  \* "instances", "validated": a pipe builds (and validates) DTOs
  Users, Venues,
  Names,          \* values of accountName or walletAddress, as ranks of the sort
  Undefined,
  Queries,        \* the queries that clients ask
  DefaultLimit, MaxLimit,   \* the 10 and the @Max(100) of PaginationDto
  InitialTables,  \* what the table may hold at first
  StartTime, MaxTime   \* bound: the clock ticks at each write

\* true and false, as they are spelt in a query string.
Flags == {"true", "false"}

Row ==
  [user : Users, venue : Venues, enabled : Flags, name : Names, updatedAt : Nat,
   live : BOOLEAN]

AllQueries ==
  [user : Users, venue : Venues \cup {Undefined}, enabled : Flags \cup {Undefined},
   createdAfter : Nat \cup {Undefined},
   sortedBy : {"createdAt", "updatedAt", "name", "useCount"},   \* or, for CEX, sortBy
   sortedDirection : {Undefined, "asc", "desc", "ASC", "DESC"},
   sortOrder : {Undefined, "DESC"},   \* not in a DTO: only the CEX service looks at it
   page : Nat, limit : Nat \cup {Undefined}, offset : Nat \cup {Undefined}]

ASSUME ListingAssumption ==
  /\ Services \subseteq {"cex", "dex"}
  /\ Bootstraps \subseteq {"plain", "instances", "validated"}
  /\ Names \subseteq Nat /\ Queries \subseteq AllQueries
  /\ DefaultLimit \in Nat \ {0} /\ MaxLimit \in Nat
  /\ InitialTables \subseteq Seq(Row)
  /\ StartTime \in Nat /\ MaxTime \in Nat /\ StartTime <= MaxTime
  /\ Undefined \notin Nat \cup Venues \cup Flags

VARIABLES
  service, bootstrap,   \* what the process was built and started with
  rows,       \* the table, by id
  clock,
  pc,         \* the walk: asking, between the statements of a page, ended
  query,      \* the query of the page in question
  fetched,    \* how many rows its first statement brought
  reply,      \* the list response last received
  listed,     \* every id received so far, in order
  throughout, upset   \* history, see below

setting == <<service, bootstrap>>
table == <<rows, clock>>
vars == <<service, bootstrap, rows, clock, pc, query, fetched, reply, listed,
          throughout, upset>>

-----------------------------------------------------------------------------
(* PaginationDto and the query DTOs *)

\* Slip: the page number is not multiplied.
GetOffsetOfPage(q) ==
  IF q.offset # Undefined THEN q.offset ELSE (IF q.page = 0 THEN 1 ELSE q.page) - 1

GetLimit(q) == IF q.limit \in {Undefined, 0} THEN DefaultLimit ELSE q.limit

GetOffset(q) ==
  IF q.offset # Undefined
  THEN q.offset
  ELSE ((IF q.page = 0 THEN 1 ELSE q.page) - 1) * GetLimit(q)

\* A DTO instance carries the default direction.
SortedDirection(q) ==
  IF q.sortedDirection = Undefined /\ bootstrap # "plain" THEN "DESC"
                                                          ELSE q.sortedDirection

\* @Type(() => Boolean): in an instance, each nonempty string has become true.
EnabledOf(q) ==
  IF q.enabled = Undefined \/ bootstrap = "plain" THEN q.enabled ELSE "true"

\* The validator allows directions in lower case only, while the default is upper case;
\* and no blockchainWebsiteId, which is to be an integer but stays a string.
Valid(q) ==
  bootstrap = "validated" =>
    /\ SortedDirection(q) \in {"asc", "desc"}
    /\ q.page >= 1 /\ (q.limit # Undefined => q.limit \in 1..MaxLimit)
    /\ service = "dex" => q.venue = Undefined

-----------------------------------------------------------------------------
(* The statement *)

\* Slip: deleted rows are listed.
MatchesDeleted(i, q) ==
  /\ rows[i].user = q.user
  /\ q.venue \in {Undefined, rows[i].venue}
  /\ EnabledOf(q) \in {Undefined, rows[i].enabled}

Matches(i, q) ==
  /\ rows[i].user = q.user
  /\ rows[i].live
  /\ q.venue \in {Undefined, rows[i].venue}
  /\ EnabledOf(q) \in {Undefined, rows[i].enabled}
  /\ service = "dex" /\ q.createdAfter # Undefined => i >= q.createdAfter

Matching(q) == {i \in DOMAIN rows : Matches(i, q)}

\* Slip: the service's own way to ask for newest first is forgotten.
DescendingByDto(q) == SortedDirection(q) = "DESC"

Descending(q) ==
  \/ SortedDirection(q) = "DESC"
  \/ service = "cex" /\ q.sortOrder = "DESC"

\* The value row i of table t is sorted by.
SortValue(t, i, q) ==
  CASE q.sortedBy = "createdAt" -> i
    [] q.sortedBy = "updatedAt" -> t[i].updatedAt
    [] q.sortedBy = "name" -> t[i].name

\* dailyApiUseCount and totalTradeCounts are no columns of the entities.
Sortable(q) == q.sortedBy # "useCount"

Ordered(s, descending, q) ==
  \A m, n \in DOMAIN s :
    m < n => IF descending THEN SortValue(rows, s[m], q) >= SortValue(rows, s[n], q)
                           ELSE SortValue(rows, s[m], q) <= SortValue(rows, s[n], q)

\* Slip: one row more is taken, to see whether there is a next page.
SliceAndNext(s, q) ==
  SubSeq(s, GetOffset(q) + 1, Min({Len(s), GetOffset(q) + GetLimit(q) + 1}))

\* skip(offset).take(limit)
Slice(s, q) == SubSeq(s, GetOffset(q) + 1, Min({Len(s), GetOffset(q) + GetLimit(q)}))

\* Slip: the division rounds down.
TotalPagesFull(total, limit) == total \div limit

TotalPages(total, limit) == (total + limit - 1) \div limit

Response(total, q) ==
  [total |-> total, page |-> IF q.page = 0 THEN 1 ELSE q.page,
   pageSizeLimit |-> GetLimit(q), totalPages |-> TotalPages(total, GetLimit(q))]

-----------------------------------------------------------------------------
(* History: what happens to the accounts a query means while it is walked. *)
(*   throughout: the accounts it meant at every moment so far              *)
(*   upset:      "left"     one that sorts no later than some listed one   *)
(*                          is meant no longer                             *)
(*               "entered"  one is meant anew, and sorts so                *)
(*               "moved"    one sorts elsewhere than before                *)
(*               "tied"     two had one place in the order of a statement  *)

Meant(t, q) ==
  {i \in DOMAIN t : /\ t[i].live /\ t[i].user = q.user
                    /\ q.venue \in {Undefined, t[i].venue}
                    /\ q.enabled \in {Undefined, t[i].enabled}
                    /\ q.createdAfter = Undefined \/ i >= q.createdAfter}

NotAfter(t, i, j) ==
  IF Descending(query) THEN SortValue(t, i, query) >= SortValue(t, j, query)
                       ELSE SortValue(t, i, query) <= SortValue(t, j, query)

Upsets(new) ==
  LET before == Meant(rows, query)
      after == Meant(new, query)
      Ahead(t, i) == \E j \in Range(listed) : NotAfter(t, i, j)
      Flag(name, holds) == IF holds THEN {name} ELSE {}
  IN Flag("left", \E i \in before \ after : Ahead(rows, i)) \cup
     Flag("entered", \E i \in after \ before : Ahead(new, i)) \cup
     Flag("moved", \E i \in before \cap after :
                     SortValue(rows, i, query) # SortValue(new, i, query))

Tied(q) ==
  \E i, j \in Meant(rows, q) : i # j /\ SortValue(rows, i, q) = SortValue(rows, j, q)

-----------------------------------------------------------------------------
(* The walk *)

Walking == pc \in {"select", "count", "turn"}

NoReply == [total |-> 0, page |-> 0, pageSizeLimit |-> 0, totalPages |-> 0]

Init ==
  /\ service \in Services /\ bootstrap \in Bootstraps
  /\ rows \in InitialTables
  /\ clock = StartTime
  /\ pc = "idle"
  /\ query = Undefined
  /\ fetched = 0
  /\ reply = NoReply
  /\ listed = << >>
  /\ throughout = {} /\ upset = {}

\* The first page is asked for.  A query string has no getOffset: without a pipe
\* the service throws before its first statement.
Ask ==
  /\ pc = "idle"
  /\ \E q \in Queries :
       /\ query' = q
       /\ pc' = CASE ~Valid(q) -> "refused"
                  [] Valid(q) /\ (bootstrap = "plain" \/ ~Sortable(q)) -> "failed"
                  [] OTHER -> "select"
       /\ throughout' = Meant(rows, q)
  /\ UNCHANGED <<setting, table, fetched, reply, listed, upset>>

\* The first statement; rows that tie come in any order.  A page that is not full
\* tells TypeORM the number of rows, and there is no second statement.
Select ==
  /\ pc = "select"
  /\ \E s \in SetToSeqs(Matching(query)) :
       /\ Ordered(s, Descending(query), query)
       /\ listed' = listed \o Slice(s, query)
       /\ fetched' = Len(Slice(s, query))
  /\ upset' = upset \cup (IF Tied(query) THEN {"tied"} ELSE {})
  /\ IF fetched' < GetLimit(query) /\ (fetched' > 0 \/ GetOffset(query) = 0)
     THEN pc' = "turn" /\ reply' = Response(GetOffset(query) + fetched', query)
     ELSE pc' = "count" /\ UNCHANGED reply
  /\ UNCHANGED <<setting, table, query, throughout>>

\* The second statement counts the rows as they are now.
Count ==
  /\ pc = "count"
  /\ reply' = Response(Cardinality(Matching(query)), query)
  /\ pc' = "turn"
  /\ UNCHANGED <<setting, table, query, fetched, listed, throughout, upset>>

\* A client that asks by offset goes by the total, the others by the page numbers.
NextQuery ==
  IF query.offset # Undefined
  THEN [query EXCEPT !.offset = @ + reply.pageSizeLimit]
  ELSE [query EXCEPT !.page = reply.page + 1]

More ==
  IF query.offset # Undefined
  THEN query.offset + reply.pageSizeLimit < reply.total
  ELSE reply.page < reply.totalPages

TurnPage ==
  /\ pc = "turn"
  /\ IF More THEN pc' = "select" /\ query' = NextQuery
             ELSE pc' = "done" /\ UNCHANGED query
  /\ UNCHANGED <<setting, table, fetched, reply, listed, throughout, upset>>

-----------------------------------------------------------------------------
(* Other requests *)

\* While nobody walks, writes only lead from one table to another, and a walk may
\* start from any.
Write(new) ==
  /\ Walking
  /\ clock < MaxTime
  /\ clock' = clock + 1
  /\ rows' = new
  /\ throughout' = throughout \cap Meant(new, query)
  /\ upset' = upset \cup Upsets(new)
  /\ UNCHANGED <<setting, pc, query, fetched, reply, listed>>

Add ==
  \E u \in Users, v \in Venues, n \in Names :
    Write(Append(rows, [user |-> u, venue |-> v, enabled |-> "true", name |-> n,
                        updatedAt |-> clock + 1, live |-> TRUE]))

\* An update or a connection test; the venue and a wallet's address cannot be changed.
Change ==
  \E i \in DOMAIN rows, flag \in Flags, n \in Names :
    /\ rows[i].live
    /\ service = "dex" => n = rows[i].name
    /\ Write([rows EXCEPT ![i].enabled = flag, ![i].name = n, ![i].updatedAt = clock + 1])

SoftDelete ==
  \E i \in DOMAIN rows :
    /\ rows[i].live
    /\ Write([rows EXCEPT ![i].live = FALSE, ![i].updatedAt = clock + 1])

\* The restore path of createCexAccount, which enables the account; createdAt stays.
Restore ==
  \E i \in DOMAIN rows, n \in Names :
    /\ service = "cex" /\ ~rows[i].live
    /\ Write([rows EXCEPT ![i].live = TRUE, ![i].enabled = "true", ![i].name = n,
                           ![i].updatedAt = clock + 1])

Next ==
  \/ Ask \/ Select \/ Count \/ TurnPage
  \/ Add \/ Change \/ SoftDelete \/ Restore

Spec == Init /\ [][Next]_vars

-----------------------------------------------------------------------------
(* Properties *)

TypeOK ==
  /\ service \in Services /\ bootstrap \in Bootstraps
  /\ rows \in Seq(Row)
  /\ clock \in StartTime..MaxTime
  /\ pc \in {"idle", "refused", "failed", "select", "count", "turn", "done"}
  /\ query \in AllQueries \cup {Undefined}
  /\ query # Undefined => fetched \in 0..GetLimit(query)
  /\ reply.total \in 0..Len(rows) /\ reply.totalPages \in 0..Len(rows)
  /\ listed \in Seq(DOMAIN rows)
  /\ throughout \subseteq DOMAIN rows
  /\ upset \subseteq {"left", "entered", "moved", "tied"}

\* The service applies every filter of the query and sorts as it says: not so for
\* the filters CexAccountsService leaves out, for "desc" in lower case, and for
\* enabled=false, which lists the enabled accounts.
Honoured ==
  /\ service = "cex" => query.createdAfter = Undefined
  /\ query.sortedDirection = "desc" => Descending(query)
  /\ query.enabled # "false"

\* A walk that ended has listed every account meant from its first page to its
\* last, whatever was added meanwhile and whatever left the pages still to come:
\* offsets skip an account only when one left the pages already listed, or the
\* order changed.
NoneMissed ==
  pc = "done" /\ Honoured /\ upset \cap {"left", "moved", "tied"} = {} =>
    throughout \subseteq Range(listed)

\* An account comes twice only when one entered the pages already listed, or the
\* order changed: deletions repeat nothing.
NoneRepeated ==
  query # Undefined /\ Honoured /\ upset \cap {"entered", "moved", "tied"} = {} =>
    IsInjective(listed)

\* Without upset, the pages put one after the other are accounts the query means,
\* in the order it asks for: the statements of different pages fit together.
PagesFitTogether ==
  Walking /\ Honoured /\ upset = {} =>
    /\ Range(listed) \subseteq Meant(rows, query)
    /\ Ordered(listed,
               \/ query.sortedDirection \in {Undefined, "DESC"}
               \/ service = "cex" /\ query.sortOrder = "DESC",
               query)

=============================================================================
