CONSTANTS
  j1 = j1
  None = None
  Jobs <- MCJobs
  MaxTime = 4
  Limit = 1
  Retention = 2
  MaxDuration = 2
  MaxRuns = 2
  MaxFailures = 1
  MaxCrashes = 1
SPECIFICATION AlertsSpec
CHECK_DEADLOCK FALSE
INVARIANTS
  NoFalseAlarm
PROPERTIES
  AlertsSettle
