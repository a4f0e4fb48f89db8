\* One client walks through its accounts while others write.
SPECIFICATION Spec
CONSTANTS
  u1 = u1  u2 = u2  v1 = v1  v2 = v2
  Services = {"cex", "dex"}
  Bootstraps = {"plain", "instances", "validated"}
  Users = {u1, u2}
  Venues = {v1, v2}
  Names = {1, 2}
  Undefined = Undefined
  Queries <- QuerySet
  DefaultLimit = 2
  MaxLimit = 2
  InitialTables <- Tables
  StartTime = 4
  MaxTime = 6
INVARIANTS TypeOK NoneMissed NoneRepeated PagesFitTogether
CHECK_DEADLOCK FALSE
