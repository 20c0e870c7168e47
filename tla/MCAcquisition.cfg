SPECIFICATION FairSpec
CONSTANTS
  MaxBatches = 3
  MaxConnections = 2
  MaxOutages = 2
  MaxCrashes = 1
  MaxFaults = 1
  Sizes <- MCSizes
  SpoolMax = 5
  Reserve = 1
  HasPodUid = TRUE
INVARIANTS
  FailuresCostOneBatch
  ProjectedOnce
  SpooledConnectionKnown
  EventsOnceAfterCommit
PROPERTIES
  NoStaleEvents
  CacheNeverRegresses
  ImplementsLedger
  SpoolDrains
