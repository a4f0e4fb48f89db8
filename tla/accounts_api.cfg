\* A user registers, logs in and adds an account.
SPECIFICATION Spec
CONSTANTS
  h1 = h1  e1 = e1  n1 = n1  w1 = w1  k1 = k1
  Handlers = {h1}
  Undefined = Undefined
  Emails = {e1}
  Names = {n1}
  Passwords = {w1}
  Prefix <- FirstName
  Forms <- ByAddress
  ShortTtl = 1
  LongTtl = 2
  SeedRows <- NoSeeds
  GateKinds = {"register", "login", "enter"}
  MaxSignups = 1
  MaxLogins = 1
  MaxTime = 1
  MaxEdits = 0
  MaxSeeds = 0
  MaxGateFaults = 0
  Envs = {"live"}
  Keys = {k1}
  Labels = {"a"}
  Rights = {"read"}
  DefaultRights = "read"
  TransformsDto = FALSE
  RetryCounts = {1}
  CreateBodies <- OneBody
  UpdateBodies = {}
  AccKinds = {"create", "update", "delete", "test"}
  MaxCreates = 1
  MaxTests = 1
  MaxAccFaults = 0
INVARIANTS OwnerIsUser
CHECK_DEADLOCK FALSE
