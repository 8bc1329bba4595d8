CONSTANTS
  c1 = c1
  c2 = c2
  s1 = s1
  s2 = s2
  Clients = {c1, c2}
  PrincipalOf <- MCOnePrincipal
  Specs = {s1}
  NoSpec = NoSpec
  Ops = {"delete","import"}
  RetryAttempts = 2
  RetireRecords = TRUE
  AnswerModes = {"direct"}
  MaxUid = 2
  MaxGen = 1
  MaxCalls = 4
SYMMETRY SymClients
SPECIFICATION Spec
INVARIANTS
  DeleteSuccessMeansGone
  DeleteEffectOnce
  CreateReturnsNoGhost
PROPERTIES
  RetriedDeleteReplays
