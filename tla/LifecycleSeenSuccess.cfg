CONSTANTS
  c1 = c1
  c2 = c2
  s1 = s1
  s2 = s2
  Clients = {c1}
  PrincipalOf <- MCOnePrincipal
  Specs = {s1}
  NoSpec = NoSpec
  Ops = {"import"}
  RetryAttempts = 1
  RetireRecords = TRUE
  AnswerModes = {"direct"}
  MaxUid = 1
  MaxGen = 1
  MaxCalls = 2
SPECIFICATION Spec
INVARIANTS
  SeenSuccessIsAccepted
