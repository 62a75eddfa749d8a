SPECIFICATION FairSpec
CONSTANTS
  Recipients = {"supervisor", "colleague"}
  Channels <- BothAndEmail
  Wants <- AllAndCritical
  Subjects = {"track1"}
  Severities = {"CRITICAL", "HIGH"}
  Critical = "CRITICAL"
  Bypass = TRUE
  MaxPerHour = 2
  Hour = 3
  Window = 2
  Attempts = 2
  QueueMax = 1
  Watched = {}
PROPERTY HourlyCap
PROPERTY WindowRespected
PROPERTY QueueMoves
