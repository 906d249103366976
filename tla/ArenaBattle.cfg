\* A call while another mutation runs and one waits; any two faults.
SPECIFICATION Spec
CONSTANTS
  Faults = {"proxy", "restart", "crash", "promote", "diff"}
  MaxFaults = 2
  MaxQueue = 2
INVARIANTS
  AgreesWithProxy
  CleanedUp
  NoLostUpdate
PROPERTIES
  RecordedOnce
