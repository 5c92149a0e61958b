SPECIFICATION Spec
CONSTANTS
  Tasks = {t1}
  None = None
  Origins <- MCAllOrigins
  MaxFaults = 1
  MaxCrashes = 0
INVARIANT ReportedAtMostOnce
CHECK_DEADLOCK FALSE
