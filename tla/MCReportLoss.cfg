SPECIFICATION ReportSpec
CONSTANTS
  Sessions = {s1}
  UserTurns <- MCUserTurns
  BatchTurns <- MCBatchTurns
  NoTurn = NoTurn
  NoSession = NoSession
  Reports <- MCOneReport
  HttpBatches <- MCHttpBatches
  MaxLoad = 3
PROPERTY SubmissionLosesNoReport
CHECK_DEADLOCK FALSE
