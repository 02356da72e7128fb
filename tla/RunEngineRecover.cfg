CONSTANTS
  files = files
  db = db
  Repo = Repo
  Maintenance = Maintenance
  Cleaner = Cleaner
  None = None
  Jobs <- MCJobs
  FileJobs <- MCFileJobs
  Databases = 1
  MaxRuns = 1
  Limit = 1
  MaxCrashes = 2
  ResticFails = FALSE
SPECIFICATION Spec
CHECK_DEADLOCK FALSE
INVARIANTS
  InterruptedLeaveNothingUnsaid
