\* Two ticks that overlap, and nothing but the timer runs a schedule.
SPECIFICATION Spec
CONSTANTS
  Ids = {i, j}
  NewAgent = {}
  Keeps = {}
  Ticks = {1, 2}
  MaxTime = 2
  MaxInputs = 2
INVARIANT
  WithinMaxRuns
CHECK_DEADLOCK FALSE
