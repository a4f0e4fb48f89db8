\* Registrations, logins and guarded requests, the seed script and an administrator.
SPECIFICATION Spec
CONSTANTS
  h1 = h1  h2 = h2  e1 = e1  e2 = e2  n1 = n1  n2 = n2  w1 = w1  w2 = w2
  Handlers = {h1, h2}
  Emails = {e1, e2}
  Names = {n1, n2}
  Passwords = {w1, w2}
  Prefix <- SamePrefix
  Undefined = Undefined
  Forms <- Plain
  ShortTtl = 1
  LongTtl = 2
  SeedRows <- SeededPair
  Kinds = {"register", "login", "enter"}
  MaxSignups = 2
  MaxLogins = 1
  MaxTime = 1
  MaxEdits = 1
  MaxSeeds = 1
  MaxFaults = 1
SYMMETRY Symmetry
INVARIANTS TypeOK HolderIsOwner SeedIsComplete
PROPERTIES AcceptedForCause RefusedForCause
CHECK_DEADLOCK FALSE
