----------------------------- MODULE MCTokenBucket -----------------------------
(***************************************************************************)
(* Model values and symmetry for the runs of TokenBucket.                  *)
(***************************************************************************)
EXTENDS TokenBucket, TLC

CONSTANTS c1, c2

CallerSymmetry == Permutations(Callers)
=============================================================================
