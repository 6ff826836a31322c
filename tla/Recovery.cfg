\* A restart is due at every tick; the window holds all three and the budget two.
CONSTANTS
  Policies <- MCPolicies
  Snapshots <- StoppedSnapshots
  StartupGrace = 1
  ConsecutiveUnhealthyRequired = 2
  Cooldown = 1
  RollingWindow = 2
  MaxAttempts = 2
  PostRestartTimeout = 1
  MaxClock = 2
  MaxRestarts = 3
SPECIFICATION Spec
INVARIANTS
  TypeOK
  RestartWithinBudget
  RestartRespectsCooldown
  ThermalRestoreWaitsForCooldown
  SwitchedOffMeansStopped
