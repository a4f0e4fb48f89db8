\* Two requests in flight, a database fault, restarts.
SPECIFICATION Spec
CONSTANTS
  h1 = h1  h2 = h2  u1 = u1  u2 = u2  w1 = w1  w2 = w2
  Handlers = {h1, h2}
  Users = {u1, u2}
  Chains = {1, 998}
  RpcChains = {1}
  Wallets = {w1, w2}
  Labels = {"a"}
  Settings = {"own"}
  Null = Null
  Undefined = Undefined
  UpdateBodies <- Reconfigurings
  MaxCreates = 2
  MaxTests = 1
  MaxFaults = 1
SYMMETRY Symmetry
INVARIANTS TypeOK StatusHasEvidence
PROPERTIES DeletedByOwner WalletsFixed RevivedOnlyIfOvertaken
