SPECIFICATION ChatSpec
CONSTANTS
  ConfiguredKeys = {"groq"}
  Asks = {q1, q2}
  Addresses = {a1}
  Questions = {"helmets", "gloves"}
  DocsPerQuestion = 2
  MaxSources = 1
  ChatLimit = 2
  ChatWindow = 2
  EvictAfter = 3
  LastChatTick = 2
INVARIANT CitesItsSources
CHECK_DEADLOCK FALSE
