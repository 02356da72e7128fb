SPECIFICATION Spec
CONSTANTS
  k1 = k1
  k2 = k2
  NoKey = NoKey
  HostKeys <- MCHostKeys
  Chains <- MCChains
  l1 = l1
  l2 = l2
  s1 = s1
  s2 = s2
  v1 = v1
  v2 = v2
  Starts <- MCStarts
  Locals = {l1, l2}
  MaxChunks = 1
  Viewers = {v1, v2}
  WarningsOnly = {v1}
  Sources = {s1, s2}
  NoSource = NoSource
CHECK_DEADLOCK FALSE
INVARIANTS
  BlameIsRight
  ForwardCut
  ExitIsTrue
  StreamFaithful
  MirrorOfSource
PROPERTIES
  EverythingEnds
