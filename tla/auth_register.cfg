\* Two registrations at a time, against the comment of register().
SPECIFICATION Spec
CONSTANTS
  h1 = h1  h2 = h2  e1 = e1  e2 = e2  n1 = n1  n2 = n2  w1 = w1  w2 = w2
  Handlers = {h1, h2}
  Emails = {e1, e2}
  Names = {n1, n2}
  Passwords = {w1, w2}
  Prefix <- SamePrefix
  Undefined = Undefined
  Forms <- Full
  ShortTtl = 1
  LongTtl = 2
  SeedRows <- NoSeeds
  Kinds = {"register"}
  MaxSignups = 2
  MaxLogins = 0
  MaxTime = 0
  MaxEdits = 0
  MaxSeeds = 0
  MaxFaults = 0
PROPERTIES TakenEmailIsConflict
CHECK_DEADLOCK FALSE
