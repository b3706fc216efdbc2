CONSTANTS
  u1 = u1
  u2 = u2
  n1 = n1
  data = data
  Unset = Unset
  NoVG = NoVG
  Foreign = Foreign
  NoCR = NoCR
  CR = {u1}
  Node = {n1}
  VGName = {u1, data}
  NodeName <- OneNodeName
  NameOnNode <- OneFixedName
  PeriodicSync = TRUE
  OtherFinalizers = {FALSE}
  MaxEdits = 0
  MaxVersions = 4
  MaxFaults = 0
SPECIFICATION Spec
CHECK_DEADLOCK FALSE
INVARIANTS
  NoOrphan
