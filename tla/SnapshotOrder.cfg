CONSTANTS
  Inputs <- LargeInputs
  SemVer <- MCSemVer
  NoSemVer = NoSemVer
  MaxCompiles = 2
SPECIFICATION Spec
INVARIANTS
  OrderIndependent
CHECK_DEADLOCK FALSE
