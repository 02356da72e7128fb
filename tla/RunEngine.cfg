CONSTANTS
  files = files
  db = db
  Repo = Repo
  Maintenance = Maintenance
  Cleaner = Cleaner
  None = None
  Jobs <- MCJobs
  FileJobs <- MCFileJobs
  Databases = 2
  MaxRuns = 2
  Limit = 2
  MaxCrashes = 2
  ResticFails = TRUE
SPECIFICATION Spec
CHECK_DEADLOCK FALSE
INVARIANTS
  AloneDuringMaintenance
  SuccessIsComplete
  NoSilentLeftovers
  SkippedForgetIsMarked
