----------------------------- MODULE MCDexAccounts -----------------------------
(***************************************************************************)
(* Model values, request bodies and symmetry for the runs of DexAccounts.  *)
(***************************************************************************)
EXTENDS DexAccounts, TLC

CONSTANTS h1, h2, u1, u2, w1, w2

Symmetry == Permutations(Handlers) \cup Permutations(Users)

\* A body that sets the configuration and names a wallet as well.
Reconfigurings == {[wallet |-> w2, label |-> Undefined, settings |-> "own"]}
=============================================================================
