CONSTANTS
  c1 = c1
  c2 = c2
  a = a
  b = b
  m1 = m1
  m2 = m2
  Clients = {c1, c2}
  Blobs = {a, b}
  Manifests = {m1, m2}
  BlobsOf <- MCBlobsOf
  RetryAttempts = 2
  MaxSessions = 2
  MaxCalls = 2
SPECIFICATION Spec
SYMMETRY SymClients
INVARIANTS
  SuccessMeansCommitted
  AskedOnlyForAbsent
  MissingOnlyAfterLoss
CHECK_DEADLOCK FALSE
