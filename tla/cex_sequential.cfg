\* One request at a time.
SPECIFICATION FairSpec
CONSTANTS
  h1 = h1  h2 = h2  u1 = u1  u2 = u2
  Handlers = {h1}
  Users = {u1}
  Envs = {"live", "demo"}
  k1 = k1
  k2 = k2
  Keys = {k1, k2}
  Labels = {"a", "b"}
  Rights = {"read", "trade"}
  DefaultRights = "read"
  Undefined = Undefined
  TransformsDto = FALSE
  RetryCounts = {0, 2}
  CreateBodies <- EachOmission
  UpdateBodies <- EachField
  Kinds = {"create", "update", "delete", "test"}
  MaxCreates = 2
  MaxTests = 2
  MaxFaults = 0
INVARIANTS OneLiveRowPerSlot HashMatchesCipher HealthMatchesCount
PROPERTIES DisabledStaysDisabled OmittedFieldsKeep FailuresAreCounted CreateNeedsFreeSlot ImplementsRegistry EveryRequestEnds
