SPECIFICATION FairSpec
CONSTANTS
  FailuresBeforeRestart = 2
  Grace = 3
  Cooldown = 4
  BootTicks = 2
  CanHang = TRUE
  SshFails = {"down", "up"}
  Commands = {"start", "stop", "enable", "disable"}
  MaxCommands = 3
  MaxOutages = 3
INVARIANT QuietStopHolds
PROPERTY RestartsAreSpaced
PROPERTY RestartsOnlyTheFailed
PROPERTY RecoversFromOutage
