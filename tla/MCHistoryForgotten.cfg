SPECIFICATION ConversationSpec
CONSTANTS
  MaxContextTokens = 100000
  Sizes <- MCSizes
  KeepToolResults = 1
  Responses <- MCResponses
  MaxTurns = 4
  MaxSteps = 2
  ConversationTroubles = 0
INVARIANT NothingIsForgotten
CHECK_DEADLOCK FALSE
