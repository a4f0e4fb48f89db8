\* consumeOrWait against its comment.
SPECIFICATION Spec
CONSTANTS
  c1 = c1  c2 = c2
  Callers = {c1, c2}
  Kinds = {"consumeOrWait"}
  Costs = {1, 2}
  CapacityTokens = 2
  RefillRate = 1500
  InitialTokens = 2
  MaxWaitMs = 4
  BackSteps = {}
  MaxTime = 3
  MaxResets = 1
INVARIANT WaitIsPaid
