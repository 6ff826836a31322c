CONSTANTS
  a = a
  b = b
  here = here
  there = there
  Miners = {a, b}
  Hosts = {here, there}
  Fields = {"enabled"}
  NoRecord = NoRecord
  Nothing = Nothing
  FirstFiles <- ChosenFiles
  MaxIncidents = 1
  MaxInstances = 2
  MaxChanges = 3
  MaxErrors = 0
SPECIFICATION Spec
CHECK_DEADLOCK FALSE
INVARIANTS
  IdleRegistryIsStored
