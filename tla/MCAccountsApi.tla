----------------------------- MODULE MCAccountsApi -----------------------------
(***************************************************************************)
(* Model values for the run of AccountsApi.                                *)
(***************************************************************************)
EXTENDS AccountsApi

CONSTANTS h1, e1, n1, w1, k1

FirstName == [e \in Emails |-> n1]
ByAddress == Emails \X {Undefined}
NoSeeds == << >>
OneBody == {[type |-> "futures", env |-> "live", key |-> k1, label |-> "a", rights |-> "read"]}
=============================================================================
