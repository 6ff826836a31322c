\* The cooldown is longer than the window; both it and the deadline still pass.
CONSTANTS
  Policies <- AllOn
  Snapshots <- StalledSnapshots
  StartupGrace = 1
  ConsecutiveUnhealthyRequired = 2
  Cooldown = 3
  RollingWindow = 0
  MaxAttempts = 1
  PostRestartTimeout = 1
  MaxClock = 3
  MaxRestarts = 2
SPECIFICATION FairSpec
INVARIANTS
  RestartRespectsCooldown
  RestartOnlyAfterFaultyStreak
PROPERTIES
  PendingRestartResolved
  DeferredRestoreResolved
