CONSTANTS
  c1 = c1
  c2 = c2
  s1 = s1
  s2 = s2
  Clients = {c1}
  PrincipalOf <- MCOnePrincipal
  Specs = {s1, s2}
  NoSpec = NoSpec
  Ops = {"apply", "delete", "observe"}
  RetryAttempts = 2
  RetireRecords = TRUE
  AnswerModes = {"operation"}
  MaxUid = 2
  MaxGen = 2
  MaxCalls = 4
SYMMETRY SymSpecs
SPECIFICATION Spec
INVARIANTS
  NotFoundMeansGone
  KeyNamesOneRequest
  UpdateTouchesOnlyNamed
  RefusedMeansNoEffect
