SPECIFICATION AgentSpec
CONSTANTS
  Runs = {r1, r2}
  Clients = {c1}
  Classes = {"no hardhat", "no suit"}
  Prior = 3
  RepeatThreshold = 3
  LlmScores = {2, 9}
  SeverityThreshold = 5
  RateMax = 1
  RateWindow = 2
  LastSecond = 2
  AlertRoom = 1
INVARIANT RepeatEscalates
CHECK_DEADLOCK FALSE
