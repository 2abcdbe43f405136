SPECIFICATION FairSpec
CONSTANTS
  Runner = runner
  Nobody = nobody
  Stoppers = {s1, s2}
  WaitsForPipes = TRUE
INVARIANTS
  StopLeavesNothing
  VerdictIsFinal
PROPERTY
  StopEnds
CHECK_DEADLOCK FALSE
