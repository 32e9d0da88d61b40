INIT Init
NEXT Next
CONSTANTS
  MaxIncoming = 2
  MaxUserEvents = 0
  MaxImFaults = 1
  Chats = {"x", "y"}
  Handlers = {"h1", "h2"}
  MaxNewSessions = 2
  MaxStoreFaults = 1
  MaxGoals = 1
  MaxBudget = 1
  MaxNotices = 2
  MaxAppendFaults = 1
  TodoBranches = {"main", "side"}
  MaxTodos = 2
  MaxUnknown = 1
  PlanBranches = {"main", "side"}
  MaxPlanFaults = 1
  MaxAskItems = 2
  MaxAskFaults = 1
  MaxSpans = 4
  MaxLostExports = 1
  MaxPresses = 2
  MaxJobs = 1
  MaxTurns = 1
  MaxVoiceStarts = 2
  MaxEmpty = 1
  PieceKinds = {"prose", "rule", "fence"}
  MaxPieces = 3
  MaxReplies = 1
  StepIds = {"a"}
  Calls = {"c"}
  MaxTools = 1
  MaxItems = 1
  Topics = {"run", "workflow", "queue"}
  SnapshotInterval = 2
  MaxAppends = 3
  MaxJournalFaults = 1
  MaxCodeCalls = 2
  MaxActive = 2
  MaxReceipts = 2
  MaxParts = 1
  MaxTroubles = 1
  GraphNode = {n1, n2}
  GraphSession = {s1, s2}
  MaxParallel = 1
  MaxWaves = 1
  MaxEdits = 2
  EditContents <- EditedTexts
  EditRequests <- EditRequestsTried
  LineText = {"", "x"}
  MaxLines = 2
  MaxBlocks = 3
  ContextLines = 1
  EditCall = {ed1, ed2}
  EditName = {"x", "y"}
  MaxOutside = 1
  MaxEditFaults = 2
  Patterns <- GlobPatterns
  Targets <- GlobTargets
  RuleProcess = {o1, o2}
  Rule = {r1, r2}
  MaxRuleCalls = 2
  MaxRuleFaults = 1
  GatedCall = {w1, w2, w3}
  GateOn = {FALSE, TRUE}
  GateBypass = {FALSE, TRUE}
  MaxUiFaults = 1
  Loudness = {5, 90, 400}
  Floor = 80
  Warmups = {0, 2}
  Silence = 2
  MinSpeech = 1
  NoSpeech = 3
  MaxFrames = 5
INVARIANTS
  StateIsOneStory
  FilesAndRulesHold
PROPERTIES
  StepsKeepTheirWord
CHECK_DEADLOCK FALSE
