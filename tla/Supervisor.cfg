\* Two tasks call start() and stop(), and any of the calls may be cancelled.
CONSTANTS
  c1 = c1
  c2 = c2
  Callers = {c1, c2}
  NoCaller = NoCaller
  RunnerTask = RunnerTask
  MaxSessions = 2
  MaxSpawns = 2
  Cancels = TRUE
SPECIFICATION Spec
INVARIANTS
  AtMostOneLiveChild
  NoOrphanChild
PROPERTIES
  StopReturnsAtRest
  StopTerminates
  StartTerminates
  ImplementsSession
