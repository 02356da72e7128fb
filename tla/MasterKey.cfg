CONSTANTS
  q1 = q1
  q2 = q2
  header = header
  job = job
  Requests <- MCRequests
  Items <- MCItems
  LateItems <- MCLateItems
  Header = header
  MaxKey = 2
  MaxCrashes = 1
  MaxRetries = 2
SPECIFICATION NotifySpec
CHECK_DEADLOCK FALSE
INVARIANTS
  OneKeyInDatabase
  HeldStaysReadable
  SentOrSaid
PROPERTIES
  RotationEnds
