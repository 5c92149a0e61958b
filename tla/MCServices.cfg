SPECIFICATION ServicesSpec
CONSTANTS
  Writers = {"w1", "w2"}
  Texts = {"x", "y"}
  MaxVersion = 2
  RoleTroubles = 2
  MaxContextTokens = 100000
  Sizes = {30000, 50000}
  KeepToolResults = 1
  Responses <- MCResponses
  MaxTurns = 3
  MaxSteps = 2
  ConversationTroubles = 1
  PageLimit = 2
  MaxEvents = 4
  StreamTroubles = 2
  Items = {"c1", "c2"}
  Parts = 3
  CallTroubles = 1
  Turns = {"t1", "t2"}
  RoleSpec <- MCRoleSpec
  Paths <- MCPaths
  Link <- MCLink
  LinkTargets <- MCLinkTargets
  Scopes <- MCScopes
  Postings <- MCPostings
  Scores = {1, 2}
  MaxNotes = 4
  Limits = {1, 2}
  RecallLimit = 1
  MaxCount = 2
  KeepCount = 1
  LastTurn = 3
  TurnSizes = {300, 1500, 4800}
  EarlierTokens = 9000
  SummaryTroubles = 2
  Launchers = {"l1", "l2"}
  Daemons = {"d1", "d2"}
  Work = {"k1", "k2"}
  LaunchTroubles = 2
INVARIANTS
  RoleHistoryIsKept
  CompactionIsWhole
  CallsAreAnswered
  StreamsAreExact
  ScreenIsWhole
  CallsRunWhole
  ToolsKeepToPolicy
  RecallIsRight
  OnlyTheDeadAreInterrupted
PROPERTIES
  RemovalsAreRight
  SummaryNeverForgets
CHECK_DEADLOCK FALSE
