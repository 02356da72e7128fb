CONSTANTS
  r1 = r1
  r2 = r2
  a1 = a1
  a2 = a2
  s1 = s1
  s2 = s2
  None = None
  Requests <- MCRequests
  Apps <- MCApps
  Issuer <- MCIssuer
  Subs <- MCSubs
  Browsers = {b1}
  MaxFailures = 2
  MaxPending = 1
  MaxStarts = 2
  MaxPasswords = 2
  MaxSessions = 2
  MaxRestarts = 1
SPECIFICATION Spec
CHECK_DEADLOCK FALSE
SYMMETRY MCSymmetry
INVARIANTS
  SomebodyCanLogIn
  OldPasswordOut
  OnlyBoundAccounts
