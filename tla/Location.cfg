CONSTANTS
  p1 = p1
  p2 = p2
  p3 = p3
  r1 = r1
  r2 = r2
  Procs <- MCProcs
  Repos <- MCRepos
  files = files
  db = db
  s1 = s1
  s2 = s2
  s3 = s3
  p12 = p12
  p23 = p23
  wrong = wrong
  dir = dir
  sub = sub
  file = file
  dump = dump
  e1 = e1
  e2 = e2
  e3 = e3
  e4 = e4
  Root = Root
  None = None
  Pad = Pad
  Maintenance = Maintenance
  Location = Location
  Jobs = {files, db}
  FileJobs = {files}
  Snaps <- MCSnaps
  JobOf <- MCJobOf
  Given <- MCGiven
  StartWith <- MCStartWith
  Paths <- MCPaths
  Contents <- MCContents
  Parent <- MCParent
  Files = {file, dump}
  Under <- MCUnder
  Stored <- MCStored
  Downloads = {d1}
SPECIFICATION LocationSpec
CHECK_DEADLOCK FALSE
INVARIANTS
  MutualExclusion
  NoLostWakeup
  ResponseIsTrue
PROPERTIES
  ImplementsRWLock
  MaintenanceNotStarved
  DownloadsEnd
