SPECIFICATION FairSpec
CONSTANTS
  WaitsForPipes = TRUE
  PerStream = 2
  Total = 3
  PauseAt = 2
  MaxCancels = 2
INVARIANTS
  NoProbeLeft
  WithinLimits
PROPERTY
  ProbeEndsUnlessFull
CHECK_DEADLOCK FALSE
