CONSTANTS
  Schemas <- MCSchemas
  Fixtures <- MCFixtures
  Names <- MCNames
  Stray = "x"
  MaxDepth = 3
  MaxOps = 10
  MaxWork = 12
SPECIFICATION Spec
INVARIANTS
  TypeOK
  Certified
  VerdictDecided
  FixtureDecided
  NoStrayProperty
CHECK_DEADLOCK FALSE
