CONSTANTS
  files = files
  db = db
  Repo = Repo
  Maintenance = Maintenance
  Cleaner = Cleaner
  None = None
  Jobs <- MCJobs
  FileJobs <- MCFileJobs
  Databases = 1
  MaxRuns = 2
  Limit = 1
  MaxCrashes = 1
  ResticFails = FALSE
SPECIFICATION FairSpec
CHECK_DEADLOCK FALSE
INVARIANTS
  SlotsExact
PROPERTIES
  EveryRunEnds
