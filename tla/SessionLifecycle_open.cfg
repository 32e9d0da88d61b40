SPECIFICATION Spec
CONSTANTS
  i1 = i1
  i2 = i2
  h1 = h1
  h2 = h2
  w1 = w1
  w2 = w2
  NoId = NoId
  NoHost = NoHost
  Nobody = Nobody
  Outsider = Outsider
  Kinds <- TwoKinds
  Ids = {i1, i2}
  Hosts = {h1, h2}
  Workers = {w1, w2}
  Initially = {i1}
  Configured = {i2}
  Outside = FALSE
  SyncFails = TRUE
  StopUnconfirmed = FALSE
  MaxDeletions = 1
  MaxWrites = 1
  MaxCrashes = 0
  Ops = {"open", "create", "fork", "archive", "restore", "reap", "shutdown", "delete"}
SYMMETRY Symmetry
INVARIANT ShutdownLeavesNone
INVARIANT LiveRemembered
INVARIANT TypeOK
INVARIANT SingleWriter
INVARIANT NoRetiredWriter
INVARIANT DurableFollows
CHECK_DEADLOCK FALSE
