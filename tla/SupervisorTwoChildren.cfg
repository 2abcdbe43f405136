\* Three tasks, with cancellation: the class docstring's one live child.
CONSTANTS
  c1 = c1
  c2 = c2
  c3 = c3
  Callers = {c1, c2, c3}
  NoCaller = NoCaller
  RunnerTask = RunnerTask
  MaxSessions = 3
  MaxSpawns = 2
  Cancels = TRUE
SPECIFICATION Spec
INVARIANTS
  AtMostOneLiveChild
SYMMETRY CallerSymmetry
