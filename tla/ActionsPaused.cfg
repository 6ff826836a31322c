CONSTANTS
  p = p
  q = q
  Profiles <- ChosenProfiles
  Supported <- ChosenSupported
  Services <- ChosenServices
  Beginnings <- ChosenBeginnings
  PageDevices <- ChosenPage
  NoProfile = NoProfile
  NoReading = NoReading
  MaxCalls = 2
  MaxCoordinators = 2
  MaxChanges = 1
  MaxPolls = 1
SPECIFICATION Spec
CHECK_DEADLOCK FALSE
INVARIANTS
  PausedIsNotRestarted
