CONSTANTS
  a = a
  b = b
  here = here
  there = there
  Miners = {a, b}
  Hosts = {here, there}
  Nobody = Nobody
  NoRecord = NoRecord
  NoHost = NoHost
  FirstFleets <- ChosenFleets
  FirstNetworks <- ChosenNetworks
  MaxTasks = 2
  MaxStarted = 3
  MaxMoves = 1
SPECIFICATION Spec
CHECK_DEADLOCK FALSE
INVARIANTS
  TypeOK
  CandidatesAreUndecided
  NoStrayCoordinator
  FleetFollowsRegistry
  EndpointHealedByPoll
  NobodyStuck
  ReadyGoesOn
PROPERTIES
  RegistryIsAtomic
  ExplicitApproval
