\* The window covers the whole behaviour; only Home Assistant restarts.
CONSTANTS
  Policies <- MCPolicies
  Snapshots <- StalledSnapshots
  StartupGrace = 1
  ConsecutiveUnhealthyRequired = 2
  Cooldown = 1
  RollingWindow = 3
  MaxAttempts = 1
  PostRestartTimeout = 1
  MaxClock = 3
  MaxRestarts = 2
SPECIFICATION UndisturbedSpec
INVARIANT DeviceRestartsWithinBudget
