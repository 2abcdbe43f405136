SPECIFICATION Spec
CONSTANTS
  NumDests = 2
  Callers = {c1, c2}
  NoCaller = NoCaller
  Urls = {u1, u2}
  NoUrl = NoUrl
  Standby = Standby
  HasStandby = FALSE
  NoRecord = NoRecord
  StoreFails = FALSE
SYMMETRY Symmetry
INVARIANTS DisabledIsDark NoTaskIsDark ConfirmedIsStored NothingUnsaved
PROPERTIES OneTask OnAirStays
CHECK_DEADLOCK FALSE
