\* Three calls of clients and a turn that the provider begins by itself.
SPECIFICATION LiveSpec
CONSTANTS
  MaxCalls = 3
  MaxOwn = 1
INVARIANTS
  OneRun
  LifecycleHonest
PROPERTIES
  SettledIsOver
  CallsReturn
CHECK_DEADLOCK FALSE
