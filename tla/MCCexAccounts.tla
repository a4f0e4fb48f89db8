----------------------------- MODULE MCCexAccounts -----------------------------
(***************************************************************************)
(* Model values and symmetry for the runs of CexAccounts.                  *)
(***************************************************************************)
EXTENDS CexAccounts, TLC

CONSTANTS h1, h2, u1, u2, k1, k2

Asks(type, env, key, label, rights) ==
  [type |-> type, env |-> env, key |-> key, label |-> label, rights |-> rights]

Body(label, rights, enabled) == [label |-> label, rights |-> rights, enabled |-> enabled]

\* Both spellings of the type, both environments, both keys, and each field that may be
\* left out.
EachOmission ==
  {Asks("future", "live", k1, "a", "trade"), Asks("futures", "demo", k1, "a", Undefined),
   Asks("futures", "live", k2, Undefined, "read"), Asks("future", Undefined, k2, "b", Undefined),
   Asks(Undefined, "live", k2, "b", "trade"), Asks("future", "live", k2, "b", "read")}

\* Complete bodies that differ in their key.
Complete == {Asks("future", "live", k, "a", "read") : k \in Keys}

\* One body per column, and the two that switch the account.
EachField == {Body("b", Undefined, Undefined), Body(Undefined, "trade", Undefined),
              Body(Undefined, Undefined, "yes"), Body(Undefined, Undefined, "no")}

\* Bodies that touch the switch only.
Switches == {Body(Undefined, Undefined, "yes"), Body(Undefined, Undefined, "no")}

\* Handlers, users and keys are interchangeable: sound for safety, and not used
\* where a liveness property is checked.
Symmetry == Permutations(Handlers) \cup Permutations(Users) \cup Permutations(Keys)
=============================================================================
