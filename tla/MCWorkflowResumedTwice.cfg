SPECIFICATION Spec
CONSTANTS
  Runs = {r1}
  Steps <- MCOneGate
  Executors = {e1, e2}
  Resumers = {e1, e2}
  Deciders = {d1}
  Refs = {x}
  None = None
  MaxLoad = 1
INVARIANTS
  TasksAreSerial
CHECK_DEADLOCK FALSE
