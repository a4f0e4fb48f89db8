----------------------------- MODULE MCSessionCache ----------------------------
(***************************************************************************)
(* Model values and symmetry for the run of SessionCache.                  *)
(***************************************************************************)
EXTENDS SessionCache, TLC

CONSTANTS h1, h2, s1, s2

Symmetry == Permutations(Handlers) \cup Permutations(Sessions)
=============================================================================
