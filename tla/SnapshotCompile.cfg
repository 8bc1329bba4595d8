CONSTANTS
  Inputs <- PassingInputs
  SemVer <- MCSemVer
  NoSemVer = NoSemVer
  MaxCompiles = 2
SPECIFICATION Spec
INVARIANTS
  TypeOK
  OrderIndependent
  GraphClosed
  RequirementsBound
CHECK_DEADLOCK FALSE
