\* The default overheat policy, and no operator while it runs.
CONSTANTS
  Policies <- KeepSafePolicies
  Snapshots <- StalledSnapshots
  StartupGrace = 1
  ConsecutiveUnhealthyRequired = 2
  Cooldown = 2
  RollingWindow = 3
  MaxAttempts = 1
  PostRestartTimeout = 1
  MaxClock = 3
  MaxRestarts = 2
SPECIFICATION SteadySpec
INVARIANT RestoreAfterOverheatWaits
