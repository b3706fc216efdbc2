CONSTANTS
  Forests <- TwoForests
  Selectors <- ManySelectors
SPECIFICATION Spec
CHECK_DEADLOCK FALSE
INVARIANTS
  IInv
  PlainMeansDocumented
  SelectionSurvivesUse
