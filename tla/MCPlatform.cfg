SPECIFICATION Spec
CONSTANTS
  Operators = {r1, r2}
  Loop = loop
  NumVersions = 1
  MaxDeployments = 2
  MinFrames = 2
  AutoPromote = TRUE
  LastFrameDay = 1
  MaxFramesADay = 2
  Enough = 2
  MaxSamples = 3
  Flushers = {f1, f2}
  PsiLevels = {0, 30}
  PsiThreshold = 20
  KsThreshold = 5
  Keys = {"a", "b"}
  BaseSeverity <- MCBaseSeverity
  Debounce = 1
  MaxQueue = 2
  LastTick = 4
  MaxReports = 3
  Primary = "llm_manager"
  Fallback = "openai"
  OpenAiKey = TRUE
  WeeklyTasks = {t1, t2}
  Weeks = {1, 2}
  Runs = {r1, r2}
  Clients = {c1}
  Classes = {"no hardhat", "no suit"}
  Prior = 3
  RepeatThreshold = 3
  LlmScores = {2, 9}
  SeverityThreshold = 5
  RateMax = 1
  RateWindow = 2
  LastSecond = 2
  AlertRoom = 1
  ConfiguredKeys = {"groq"}
  Asks = {q1, q2}
  Addresses = {a1}
  Questions = {"helmets", "gloves"}
  DocsPerQuestion = 2
  MaxSources = 1
  ChatLimit = 2
  ChatWindow = 2
  EvictAfter = 3
  LastChatTick = 2
  DayZones = {"today a", "today b"}
  LongBreakdowns = {"today b"}
  MaxDayRows = 2
  Files = {"sop"}
  ChunksOf <- MCChunksOf
  AddBatch = 1
  MaxCopies = 1
  TopK = 1
  Scores = {0, 5}
  MinScore = 3
  Hooks = {h1, h2}
  HookEvents = {"violation.high"}
  TestEvent = "violation.high"
  HookTypes = {"slack", "jira"}
  Posts = {p1, p2}
  MaxTries = 3
  OuterTries = 2
  MailTries = 3
  TwilioTries = 2
  Sockets = {s1, s2, s3}
  MaxConnections = 2
  LastFrame = 2
  OptSockets = {w1, w2}
  PriorityTypes = {"fire"}
  CappedTypes = {"frame"}
  FrameGap = 1
  LastOptTick = 2
  ZoneCameras = {"cam 1", "cam_1"}
  SanitizedKey <- MCSanitizedKey
  CachedWorkers = {"w"}
  SeenPairs = {"p"}
  MaxVersion = 1
  ConnectTries = 2
  ZoneTtl = 1
  EmbeddingTtl = 2
  CanaryTtl = 2
  DedupTtl = 1
  LastCacheTick = 2
  MaxRetries = 2
  MaxSockets = 3
  Rows = {1}
  LogFilters = {"all", "unacked"}
  FirstFilter = "all"
  AckCalls = {"m1", "m2"}
  MaxPolls = 2
INVARIANTS
  RetrainHasADay
  ShownIsSo
  DangerIsRaised
  DeliveriesAddUp
  StreamSeats
PROPERTY
  LoopJudgesMeasured
CHECK_DEADLOCK FALSE
