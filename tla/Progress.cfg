SPECIFICATION Spec
CONSTANTS
  o1 = o1
  o2 = o2
  Operation = {o1, o2}
  NoOperation = NoOperation
  Target = {"a"}
  Generation = {1, 2, 3, 4}
  MaxOperations = 2
  MaxFaults = 1
  RequestId = {r1}
  MaxRequests = 2
  MaxCalls = 1
  Sess = {s1, s2}
  ProjectSess = {s1}
  Workers = 1
  MaxExitFaults = 1
  c1 = c1
  c2 = c2
  Caller = {c1, c2}
  McpTarget = {t1}
  MaxEntries = 1
  MaxSessions = 1
  QueueSize = 1
  MaxCallerRequests = 2
  MaxLines = 2
  MaxGoals = 1
  MaxBudget = 0
  MaxNotices = 2
  MaxAppendFaults = 1
  MaxCommits = 2
  MaxBranchMoves = 0
  MaxDrops = 0
  HistorySize = 1
  MaxIncoming = 1
  MaxUserEvents = 1
  MaxImFaults = 0
  AcpSession = {"x"}
  AcpId = {i1, i2}
  AcpQueue = 1
  MaxAcpRequests = 2
  MaxAcpFaults = 0
  Dlg = {d1}
  MaxClientRequests = 1
  MaxRunEvents = 2
  Peer = {p1}
  MaxServerSessions = 1
  MaxPeerRequests = 2
  MaxChildEvents = 0
  Channel = 1
  MaxSplits = 0
  MaxOddities = 1
  WithToken = {FALSE}
  EventStream = {e1}
  Cookie = {ck1}
  MaxLogins = 1
  MaxStarts = 2
  MaxPublished = 1
  RelayPrompts = {q1}
  PipeSize = 1
  Model = {m1, m2}
  Adapters = {a1}
  MaxNativeChanges = 0
  MaxSets = 1
  MaxConfigFaults = 1
  ReqKey = {rk1}
  SubId = {"s"}
  TaskSession = {x1}
  MaxOfKind = 1
  MaxTaskRuns = 2
  MaxControls = 1
  ListCaller = {lc1}
  SavedFile = {1, 2, 3}
  InProject = {1, 3}
  StepEntries = 2
  ListLimit = 1
  MaxWorkers = 1
  MaxGenerations = 1
  MaxPageCalls = 2
  MaxFileChanges = 0
  MaxCodeCalls = 1
  MaxActive = 2
  MaxReceipts = 1
  MaxParts = 1
  MaxTroubles = 1
  GraphNode = {n1, n2}
  GraphSession = {s1}
  MaxParallel = 1
  MaxWaves = 1
  MaxEdits = 1
  Chunk <- ProviderChunks
  WithTrailing = TRUE
  MaxProviderLines = 1
  MaxJunk = 1
  OutputLimit = 1
  MaxCliJobs = 2
  MaxRewrites = 1
  HttpModes = {TRUE, FALSE}
  MaxHttpCalls = 4
  MaxServerAsks = 2
  MaxBytes = 6
  Chats = {"x", "y"}
  Handlers = {"h1", "h2"}
  MaxNewSessions = 2
  MaxStoreFaults = 1
  Folder = {"f", "g"}
  Configured = {"c", "f"}
  ProjectName = {"own", "new"}
  MaxProjectOps = 5
  MaxSaveFaults = 1
PROPERTIES
  EveryStopReturns
  EveryRequestEnds
CHECK_DEADLOCK FALSE
