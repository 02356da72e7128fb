CONSTANTS
  o1 = o1
  o2 = o2
  u1 = u1
  Repo = Repo
  Ops <- MCOps
  Users <- MCUsers
  Existing <- MCExisting
  MaxKeys = 3
  MaxFailures = 2
  MaxCrashes = 1
SPECIFICATION Spec
SYMMETRY OpSymmetry
CHECK_DEADLOCK FALSE
INVARIANTS
  SavedKeyOpens
  AsRecorded
PROPERTIES
  KeyInUseStays
