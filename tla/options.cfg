CONSTANTS
  Unset = Unset
  NoVG = NoVG
  Specs <- ManySpecs
  Default <- HostDefault
  ExtentSizes = {4, 8, 16}
  UsesDevicesFile = TRUE
  Mantissa = 3
  MaxEdits = 3
SPECIFICATION Spec
CHECK_DEADLOCK FALSE
INVARIANTS
  IInv
  FixedAsSpecified
PROPERTIES
  SettledIsLeftAlone
  Settles
