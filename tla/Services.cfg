INIT Init
NEXT Next
CONSTANTS
  o1 = o1
  o2 = o2
  o3 = o3
  Operation = {o1, o2, o3}
  NoOperation = NoOperation
  Target = {"a"}
  Generation = {1, 2, 3, 4}
  MaxOperations = 3
  MaxFaults = 2
  RequestId = {r1, r2}
  MaxRequests = 2
  MaxCalls = 1
  Sess = {s1, s2}
  ProjectSess = {s1}
  Workers = 2
  MaxExitFaults = 1
  MaxCommits = 2
  MaxBranchMoves = 1
  MaxDrops = 1
  HistorySize = 2
  ProgramChild = {pc1, pc2}
  WindowSize = 1
  HeadSize = 2
  PhaseLimit = 1
  EventBuffer = 3
  MaxEntries = 3
  MaxTroubles = 1
  Model = {m1, m2}
  Adapters = {a1, a2}
  MaxNativeChanges = 2
  MaxSets = 1
  MaxConfigFaults = 1
  MaxTree = 4
  Marks = {2}
  Big = {3}
  PageLimit = 2
  PageBytes = 3
  MaxForeign = 1
  MaxLies = 1
  ListCaller = {lc1, lc2}
  SavedFile = {1, 2, 3}
  InProject = {1, 3}
  StepEntries = 2
  ListLimit = 1
  MaxWorkers = 1
  MaxGenerations = 1
  MaxPageCalls = 3
  MaxFileChanges = 1
  TimedLane = {la}
  PieceBudget = 6
  RecordBudget = 2
  AnchorSize = 1
  MaxRecords = 3
  MaxReplaced = 1
  MaxTimingQueries = 2
  Chars = {"a", "b"}
  MaxText = 3
  MaxMessages = 2
  MaxOdd = 2
  Folder = {"f", "g"}
  Configured = {"c", "f"}
  ProjectName = {"own", "new"}
  MaxProjectOps = 5
  MaxSaveFaults = 1
  OutputLimit = 1
  MaxCliJobs = 2
  MaxRewrites = 2
  Chunk <- ProviderChunks
  WithTrailing = TRUE
  MaxProviderLines = 3
  MaxJunk = 1
  PendingLimit = 2
  MaxBegun = 3
  MaxPasted = 3
  Account = {g1, g2}
  BridgeLimit = 1
  MaxTasks = 4
  MaxRestarts = 1
SYMMETRY Symmetry
INVARIANTS
  NativeIsAccountedFor
  ReadersSeeTheBranch
  AnswersAreWhole
PROPERTIES
  NothingGoesBack
CHECK_DEADLOCK FALSE
