SPECIFICATION FairSpec
CONSTANTS
  MaxPid = 3
  Command = {1, 2}
  Operations = {"start", "stop", "restart", "install", "uninstall"}
  Managers = {"launchd", "systemd"}
  MaxCrashes = 1
INVARIANTS
  OneDaemon
  StopIsKept
PROPERTIES
  StrangersAreSpared
  UpgradeIsPickedUp
CHECK_DEADLOCK FALSE
