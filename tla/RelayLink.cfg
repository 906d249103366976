\* A client and its next connection, one dropped socket or failed dial.
SPECIFICATION LiveSpec
CONSTANTS
  MaxConns = 2
  MaxHellos = 1
  MaxFaults = 1
INVARIANTS
  ConnectedIsAttached
  SessionHonest
PROPERTIES
  LinkSettles
CHECK_DEADLOCK FALSE
