\* Two requests of one user in flight: a stale save.
SPECIFICATION Spec
CONSTANTS
  h1 = h1  h2 = h2  u1 = u1  u2 = u2
  Handlers = {h1, h2}
  Users = {u1}
  Envs = {"live"}
  k1 = k1
  k2 = k2
  Keys = {k1}
  Labels = {"a"}
  Rights = {"read"}
  DefaultRights = "read"
  Undefined = Undefined
  TransformsDto = FALSE
  RetryCounts = {1}
  CreateBodies <- Complete
  UpdateBodies <- Switches
  Kinds = {"create", "update", "delete", "test"}
  MaxCreates = 2
  MaxTests = 1
  MaxFaults = 0
PROPERTY DeletedStaysDeleted
