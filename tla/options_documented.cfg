CONSTANTS
  Unset = Unset
  NoVG = NoVG
  Specs <- Documented
  Default <- HostDefault
  ExtentSizes = {4, 8, 16}
  UsesDevicesFile = TRUE
  Mantissa = 3
  MaxEdits = 0
SPECIFICATION Spec
CHECK_DEADLOCK FALSE
INVARIANTS
  OptionsAsDocumented
