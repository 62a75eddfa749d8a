SPECIFICATION ResponseSpec
CONSTANTS
  Violations = {v1, v2}
  Clients = {c1, c2}
  MaxLevel = 3
  Timeout <- ThreeLevels
  ScanLimit = 2
  MaxTriggers = 3
  NoRequest = NoRequest
  Permits = {p1, p2}
  Zones = {z1}
  NoZone = NoZone
  Supervisors = {s1, s2}
  Unset = Unset
  NoPermit = NoPermit
  MaxHours = 2
  Ahead = 1
  ClearFrames = 3
  AlertInterval = 2
  MaxNow = 7
  Cameras = {cam1, cam2}
  Callers = {k1, k2}
  MaxAttempts = 3
INVARIANT HasPredecessor
INVARIANT OneSuccessorEach
INVARIANT ListAgreesWithScan
INVARIANT ClearOnlyAfterQuiet
INVARIANT OneChildPerCamera
INVARIANT NoOrphans
PROPERTY WindowRespected
PROPERTY OpenIsHandled
PROPERTY SettledIsFinal
PROPERTY AccessEnds
PROPERTY FireGetsReported
PROPERTY EmergencyEnds
PROPERTY RemovalEnds
PROPERTY GivesUp
CHECK_DEADLOCK FALSE
