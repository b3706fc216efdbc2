CONSTANTS
  u1 = u1
  u2 = u2
  n1 = n1
  data = data
  Unset = Unset
  NoVG = NoVG
  Foreign = Foreign
  NoCR = NoCR
  CR = {u1, u2}
  Node = {n1}
  VGName = {u1, u2}
  NodeName <- TwoNodeName
  NameOnNode <- TwoNameOnNode
  PeriodicSync = TRUE
  OtherFinalizers = {FALSE}
  MaxEdits = 1
  MaxVersions = 4
  MaxFaults = 0
SPECIFICATION Spec
SYMMETRY TwoAlike
CHECK_DEADLOCK FALSE
INVARIANTS
  FoundStays
PROPERTIES
  OnlyDeletedRemoved
  PromiseKept
