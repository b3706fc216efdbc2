CONSTANTS
  Forests <- TwoForests
  Selectors <- DocumentedSelectors
SPECIFICATION Spec
CHECK_DEADLOCK FALSE
INVARIANTS
  TermsAsDocumented
