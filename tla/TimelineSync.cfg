\* Two agents over a hot set of one, pages of one row, a rewind and a fault.
SPECIFICATION LiveSpec
CONSTANTS
  Agents = {a, b}
  Watched = a
  HotLimit = 1
  PageSize = 1
  MaxRows = 3
  MaxEpochs = 2
  MaxViews = 3
  MaxFaults = 1
INVARIANTS
  NoGap
  ReadyIsCurrent
PROPERTIES
  CaughtUp
CHECK_DEADLOCK FALSE
