--------------------------- MODULE MCAccountListing ---------------------------
(***************************************************************************)
(* Tables and queries for the run of AccountListing.                       *)
(***************************************************************************)
EXTENDS AccountListing

CONSTANTS u1, u2, v1, v2

Account(user, venue, enabled, name, at, live) ==
  [user |-> user, venue |-> venue, enabled |-> enabled, name |-> name,
   updatedAt |-> at, live |-> live]

\* The second table was written in another order than it was created in.
Tables ==
  {<<Account(u1, v1, "true", 1, 1, TRUE), Account(u1, v1, "true", 2, 2, TRUE),
     Account(u1, v1, "true", 2, 3, TRUE)>>,
   <<Account(u1, v1, "true", 2, 4, TRUE), Account(u2, v1, "true", 1, 1, TRUE),
     Account(u1, v1, "false", 1, 2, FALSE), Account(u1, v2, "false", 1, 3, TRUE)>>}

\* Each way to sort, each way to page, each filter; a limit that is left out.
Query(venue, enabled, after, by, direction, order, page, limit, offset) ==
  [user |-> u1, venue |-> venue, enabled |-> enabled, createdAfter |-> after,
   sortedBy |-> by, sortedDirection |-> direction, sortOrder |-> order, page |-> page,
   limit |-> limit, offset |-> offset]

None == Undefined

QuerySet ==
  {Query(None, None, None, "createdAt", direction, None, 1, 2, None) :
     direction \in {None, "asc", "desc", "DESC"}} \cup
  {Query(None, None, None, by, direction, None, 1, 1, None) :
     by \in {"updatedAt", "name"}, direction \in {None, "asc"}} \cup
  {Query(None, flag, None, "createdAt", "asc", None, 1, 1, None) : flag \in Flags} \cup
  {Query(v1, "true", None, "name", "asc", "DESC", 1, 1, 0),
   Query(v1, None, 2, "createdAt", "asc", "DESC", 0, None, None),
   Query(None, "true", 2, "useCount", "asc", None, 1, 1, None),
   Query(None, None, 2, "createdAt", "asc", None, 1, 3, None)}
=============================================================================
