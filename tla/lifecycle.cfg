CONSTANTS
  u1 = u1
  u2 = u2
  n1 = n1
  data = data
  Unset = Unset
  NoVG = NoVG
  Foreign = Foreign
  NoCR = NoCR
  CR = {u1}
  Node = {n1}
  VGName = {u1, data}
  NodeName <- OneNodeName
  NameOnNode <- OneNameOnNode
  PeriodicSync = TRUE
  OtherFinalizers = {TRUE, FALSE}
  MaxEdits = 1
  MaxVersions = 4
  MaxFaults = 1
SPECIFICATION Spec
CHECK_DEADLOCK FALSE
INVARIANTS
  TypeOK
  IInv
  DroppedFinalizerMeansRemoved
  SyncedImpliesProtected
  UserEditsSurvive
  SyncedMeansPresent
  OrphansExplained
  SyncGetsVG
  HeldHasVG
PROPERTIES
  ForceOnlyAfterGrace
  PromiseKept
  StatusContractKept
