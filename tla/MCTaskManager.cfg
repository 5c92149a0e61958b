SPECIFICATION Spec
CONSTANTS
  Tasks = {t1, t2}
  None = None
  Origins <- MCAllOrigins
  MaxFaults = 1
  MaxCrashes = 1
SYMMETRY MCSymmetry
INVARIANTS
  RunningIsAlive
  MemoryMatchesRow
  NoMissedWakeup
  ReportsAreFaithful
PROPERTIES
  EndIsFinal
  AnswerIsKept
CHECK_DEADLOCK FALSE
