\* A bucket of 2 tokens that gains 1/2 token a millisecond, two callers.
SPECIFICATION FairSpec
CONSTANTS
  c1 = c1  c2 = c2
  Callers = {c1, c2}
  Kinds = {"consume"}
  Costs = {1, 2, 3}
  CapacityTokens = 2
  RefillRate = 500
  InitialTokens = 1
  MaxWaitMs = 4
  BackSteps = {}
  MaxTime = 4
  MaxResets = 1
INVARIANTS TypeOK RateBound HintIsEnough HintIsTight
PROPERTIES ImplementsEager EveryCallAnswered
