CONSTANTS
  r1 = r1
  r2 = r2
  s1 = s1
  s2 = s2
  j1 = j1
  j2 = j2
  t1 = t1
  t2 = t2
  None = None
  Anyone = Anyone
  Requests <- MCRequests
  Servers <- MCServers
  Locations = {l1}
  Jobs <- MCJobs
  Targets <- MCTargets
  Names = {1}
  MaxCredentials = 2
  MaxRequests = 4
SPECIFICATION Spec
CHECK_DEADLOCK FALSE
SYMMETRY MCSymmetry
INVARIANTS
  OneOwner
  PasswordForTarget
  NothingDangles
PROPERTIES
  LibraryStays
