\* The wall clock may be set back.  A bucket of 2 tokens that gains 1.5 tokens a millisecond, two callers.
SPECIFICATION Spec
CONSTANTS
  c1 = c1  c2 = c2
  Callers = {c1, c2}
  Kinds = {"consume"}
  Costs = {1, 2}
  CapacityTokens = 2
  RefillRate = 1500
  InitialTokens = 2
  MaxWaitMs = 4
  BackSteps = {2}
  MaxTime = 3
  MaxResets = 1
SYMMETRY CallerSymmetry
INVARIANTS RateBound
