INIT Init
NEXT Next
CONSTANTS
  Caller = {c1, c2}
  McpTarget = {t1, t2}
  MaxEntries = 2
  MaxSessions = 2
  User = {k1, k2}
  Uri = {"u"}
  SubBatch = {b1, b2}
  MaxPending = 1
  MaxTokens = 2
  MaxReads = 2
  MaxSubWork = 3
  QueueSize = 1
  MaxCallerRequests = 2
  MaxLines = 3
  HttpModes = {TRUE, FALSE}
  MaxHttpCalls = 4
  MaxServerAsks = 2
  MaxBytes = 6
  Peer = {p1, p2}
  MaxServerSessions = 1
  MaxPeerRequests = 2
  MaxChildEvents = 1
  Channel = 1
  MaxSplits = 1
  MaxOddities = 1
  WithToken = {FALSE}
  EventStream = {e1, e2}
  Cookie = {ck1, ck2}
  MaxLogins = 1
  MaxStarts = 2
  MaxPublished = 1
  RelayPrompts = {q1, q2}
  PipeSize = 1
  AcpSession = {"x"}
  AcpId = {i1, i2}
  AcpQueue = 1
  MaxAcpRequests = 3
  MaxAcpFaults = 1
  Dlg = {d1, d2}
  MaxClientRequests = 1
  MaxRunEvents = 2
  ReqKey = {rk1, rk2}
  SubId = {"s"}
  TaskSession = {x1, x2}
  MaxOfKind = 1
  MaxTaskRuns = 2
  MaxControls = 2
SYMMETRY Symmetry
INVARIANTS
  McpIsOrderly
  AdaptersLeaveNothing
PROPERTIES
  NothingAfterTheEnd
CHECK_DEADLOCK FALSE
