SPECIFICATION Spec
CONSTANTS
  c1 = c1
  c2 = c2
  Clients = {c1, c2}
  NoClient = NoClient
  Rooms = {room1, room2}
  Unset = Unset
  MaxRevision = 3
  MaxFaults = 2
SYMMETRY Symmetry
INVARIANTS
  FailedChangeLeavesNoTrace
  RunningIsStored
  GateSeesRunning
  InstallWhileStopped
PROPERTIES
  StaleWritesConflict
  
