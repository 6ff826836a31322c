\* Two workers; the second scan may run beside the orphans of the first.
CONSTANTS
  HostCounts <- MCHostCounts
  Concurrency = 2
  MaxScans = 2
SPECIFICATION FairSpec
INVARIANTS
  TypeOK
  CompletedCountsEndedProbes
  StatusFollowsScan
  StopEndsScan
PROPERTIES
  BoundedSpec
  StartedScanEnds
CHECK_DEADLOCK FALSE
