SPECIFICATION ConversationSpec
CONSTANTS
  MaxContextTokens = 100000
  Sizes <- MCSizes
  KeepToolResults = 1
  Responses <- MCResponses
  MaxTurns = 4
  MaxSteps = 2
  ConversationTroubles = 1
INVARIANT SessionIsNotStuck
CHECK_DEADLOCK FALSE
