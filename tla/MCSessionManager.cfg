SPECIFICATION Spec
CONSTANTS
  Sessions = {s1}
  UserTurns <- MCUserTurns
  BatchTurns <- MCBatchTurns
  NoTurn = NoTurn
  NoSession = NoSession
INVARIANTS
  LiveRunIsActive
  NoIdleWaiters
  OneQueuedBatch
  CountersCurrent
PROPERTIES
  UserTurnNotInterrupted
  QueuedTurnsLeave
  ImplementsTurnLine
CHECK_DEADLOCK FALSE
