SPECIFICATION Spec
CONSTANTS
  NumDests = 1
  Callers = {c1, c2}
  NoCaller = NoCaller
  Urls = {u1}
  NoUrl = NoUrl
  Standby = Standby
  HasStandby = TRUE
  NoRecord = NoRecord
  StoreFails = TRUE
INVARIANTS InputIsTruthful
PROPERTIES CallsReturn
CHECK_DEADLOCK FALSE
