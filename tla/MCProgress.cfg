SPECIFICATION ProgressSpec
CONSTANTS
  Tasks = {t1, t2}
  None = None
  Origins <- MCTwoOrigins
  MaxFaults = 0
  MaxCrashes = 1
  AutomationIds = {"a1", "a2", "a3"}
  WorkflowBacked = {"a2"}
  RunsOnce = {"a3"}
  OwnerRole <- MCOwnerRole
  Callers <- MCCallers
  Signals = {"k"}
  AutomationLimit = 1
  AutomationTroubles = 2
INVARIANT OneDispatchPerSignal
PROPERTIES
  TasksSettle
  SignalsAreDispatched
CHECK_DEADLOCK FALSE
