SPECIFICATION ReportSpec
CONSTANTS
  Sessions = {s1}
  UserTurns <- MCUserTurns
  BatchTurns <- MCBatchTurns
  NoTurn = NoTurn
  NoSession = NoSession
  Reports <- MCTwoReports
  HttpBatches <- MCHttpBatches
  MaxLoad = 4
INVARIANTS
  FlagIsTrue
  OneBatchUnderWay
PROPERTIES
  FlushDisturbsNobody
  ReportsAreSubmitted
CHECK_DEADLOCK FALSE
