CONSTANTS
  CtxEnds <- NoCtxEnds
  Deadlines = {0, 3}
  OverallDeadline = 5
  PollBase = 2
  PollMax = 3
  Hints = {1, 4}
  MaxTime = 9
SPECIFICATION Spec
INVARIANTS
  DeadlineBoundsCall
CHECK_DEADLOCK FALSE
