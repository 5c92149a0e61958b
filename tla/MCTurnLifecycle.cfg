SPECIFICATION LifecycleSpec
CONSTANTS
  Sessions = {s1}
  UserTurns <- MCUserTurns
  BatchTurns <- MCBatchTurns
  TaskTurns <- MCTaskTurns
  NoTurn = NoTurn
  NoSession = NoSession
  MaxSteps = 1
  MaxTroubles = 2
INVARIANTS
  CompletedIsAnswered
  RunningHasAgent
  QuietSessionShowsIdle
PROPERTY RunnerHears
CHECK_DEADLOCK FALSE
