\* A probe that raises leaves the other worker behind.
CONSTANTS
  HostCounts <- MCHostCounts
  Concurrency = 2
  MaxScans = 2
SPECIFICATION Spec
INVARIANT
  NoOverlappingScans
CHECK_DEADLOCK FALSE
