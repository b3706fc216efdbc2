CONSTANTS
  d1 = d1
  d2 = d2
  d3 = d3
  t = t
  Unknown = Unknown
  Keep = Keep
  Device = {d1, d2, d3}
  Tag = {t}
  Limit = {0, 1, 2}
  Allocation = {"normal", "cling"}
  Specs <- FourSpecs
  EmptyMoveFails = {TRUE, FALSE}
  MaxTrouble = 2
SPECIFICATION FairSpec
CHECK_DEADLOCK FALSE
INVARIANTS
  TypeOK
  IInv
  SyncedMeansInSync
  RecursionNeedsLoss
PROPERTIES
  OnlyForceDestroys
  FailKeepsMissing
  Converges
  StatusContractKept
