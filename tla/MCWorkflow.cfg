SPECIFICATION Spec
CONSTANTS
  Runs = {r1, r2}
  Steps <- MCSteps
  Executors = {e1, e2}
  Resumers = {e1}
  Deciders = {d1}
  Refs = {x}
  None = None
  MaxLoad = 3
INVARIANTS
  StepsInOrder
  OneRunPerRef
  NothingIsStranded
PROPERTIES
  EndIsFinal
  RunsSettle
CHECK_DEADLOCK FALSE
