\* Clients call while the battle is being launched and after; one step fails,
\* one call is lost, or a process restarts.
SPECIFICATION FairLaunchSpec
CONSTANTS
  Faults = {"launch", "proxy", "restart", "promote", "archive", "crash"}
  MaxFaults = 1
  MaxQueue = 1
INVARIANTS
  LaunchTypeOK
  FailedLaunchCleansUp
PROPERTIES
  BattleSettles
