SPECIFICATION FairSpec
CONSTANTS
  i1 = i1
  i2 = i2
  h1 = h1
  h2 = h2
  w1 = w1
  w2 = w2
  NoId = NoId
  NoHost = NoHost
  Nobody = Nobody
  Outsider = Outsider
  Kinds <- TwoKinds
  Ids = {i1}
  Hosts = {h1, h2}
  Workers = {w1}
  Initially = {i1}
  Configured = {}
  Outside = TRUE
  SyncFails = TRUE
  StopUnconfirmed = TRUE
  MaxDeletions = 1
  MaxWrites = 2
  MaxCrashes = 1
  Ops = {"open", "delete", "command"}
INVARIANT DeletionFinal
PROPERTY IntentFirst
PROPERTY RetainedUntilGone
PROPERTY DeletionEnds
CHECK_DEADLOCK FALSE
