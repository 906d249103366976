\* A schedule of a running agent, and two that make an agent for each run: i archives
\* its workspace when the run ends, k keeps it.
SPECIFICATION LiveSpec
CONSTANTS
  Ids = {a, i, k}
  NewAgent = {i, k}
  Keeps = {k}
  Ticks = {1}
  MaxTime = 2
  MaxInputs = 3
INVARIANTS
  OneRunning
  SlotIffActive
  SpacesFreed
PROPERTIES
  CompletedIsFinal
  SchedulesServed
CHECK_DEADLOCK FALSE
