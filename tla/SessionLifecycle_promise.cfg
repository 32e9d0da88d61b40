SPECIFICATION Spec
CONSTANTS
  i1 = i1
  i2 = i2
  h1 = h1
  h2 = h2
  w1 = w1
  w2 = w2
  NoId = NoId
  NoHost = NoHost
  Nobody = Nobody
  Outsider = Outsider
  Kinds <- TwoKinds
  Ids = {i1, i2}
  Hosts = {h1}
  Workers = {w1}
  Initially = {i1}
  Configured = {i2}
  Outside = FALSE
  SyncFails = TRUE
  StopUnconfirmed = FALSE
  MaxDeletions = 1
  MaxWrites = 2
  MaxCrashes = 1
  Ops = {"open", "create", "delete", "archive", "restore", "rename"}
SYMMETRY Symmetry
PROPERTY KeepsPromise
INVARIANT LoadAccepts
CHECK_DEADLOCK FALSE
