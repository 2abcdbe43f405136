SPECIFICATION Spec
CONSTANTS
  Restarters = {controller, reconnect}
  Stoppers = {disable, stop}
  MaxSessions = 4
INVARIANTS StopReachesAll
 
CHECK_DEADLOCK FALSE
