CONSTANTS
  Alice = Alice
  Bob = Bob
  Runs = {Alice, Bob}
  ModesOf <- MCModesOf
  Disturbed = {Alice}
  Trees <- MCTrees
  Clean <- MCClean
  CommitOf <- MCCommitOf
  LedgerOf <- MCLedgerOf
  BuildOf <- MCBuildOf
  Original = "original"
  First <- MCFirst
  MaxAttempts = 2
  MaxDeployments = 3
SPECIFICATION FairSpec
INVARIANTS
  SuccessWasServed
  ExactPredecessor
  OneSuccessor
  CandidateQualified
PROPERTIES
  ReadbackEnds
CHECK_DEADLOCK FALSE
