SPECIFICATION Spec
CONSTANTS
  ZoneDefs <- MCZoneDefs
  Tracks = {1, 2}
  Sightings <- MCSightings
  Dwell = 3
  Workers = {ann, bob}
  Sites = {north, south}
  Requests = {r1, r2}
  LogLimit = 3
  MaxRows = 4
  LastDay = 1
  SeverityLevels = {"CRITICAL", "LOW"}
  HistoryDays = 7
  HighThreshold = 15
  CriticalThreshold = 25
  MaxViolations = 4
  WorkerTables = TRUE
  HasUpdatedAt = TRUE
  RecognitionOn = TRUE
  RiskLevels = {"LOW"}
  IdWorkers = {"w1"}
  Faces = {"f", "g"}
  Lookalikes = {}
  WorkerCalls = {"k1", "k2"}
  FaceCameras = {"cam"}
  FaceLimit = 1
  FaceWindow = 1
  ResultFor = 1
  KeepFor = 1
  LastFaceSecond = 1
  RecordCalls = {"r1", "r2"}
  SiteIds = {"plant"}
  ShiftIds = {1}
  ShiftWorkers = {"w"}
  RecipientIds = {1}
  PpeProfiles = {"mining blasting"}
  MaxKeys = 3
  MaxAssignments = 1
  MaxProfiles = 2
  Orgs = {acme}
  Plans = {"starter", "pro"}
  Starter = "starter"
  MaxSubs = 2
  RegistryTables = TRUE
  RegCameras = {"_", "cam-01"}
  MaxCameras = 1
  Creators = {k1, k2}
  FrameQueue = 1
  MaxHealth = 1
  MaxFrames = 1
  MaxReconnects = 0
  MonitorCameras = {"cam-01"}
  MonitorEvents <- MCMonitorEvents
  EventLimit = 3
  Window = 1
  AlertCooldown = 1
  Retention = 2
  MinFps = 5
  MaxErrorRate = 10
  MaxReconnectsSeen = 1
  HasAlertWorker = TRUE
  UpSince = 0
  LastMonitorTick = 3
  CalCameras = {"cam 1", "cam_1"}
  Measurements = {1, 2}
  Accurate = {1}
  MaxPoints = 4
  Luminances = {20, 60, 128}
  DarkThreshold = 80
  VeryDarkThreshold = 50
  HistoryLen = 2
  StatsLen = 2
  MaxLitFrames = 3
INVARIANT ZonesSurviveRestart
CHECK_DEADLOCK FALSE
