SPECIFICATION FairSpec
CONSTANTS
  w1 = w1
  w2 = w2
  r1 = r1
  r2 = r2
  exact = exact
  imagehash = imagehash
  Writers = {w1, w2}
  Replicas = {r1}
  Indexes = {exact}
  Elsewhere = Elsewhere
  HomeOf <- LocalAndRemote
  BatchSize = 2
  MaxXid = 3
  MaxFailures = 1
  MaxCrashes = 1
INVARIANTS
  TypeOK
  SyncInvariant
  AppliedUpToCheckpoint
  StaleHasPendingEvent
PROPERTIES
  ImplementsBlacklist
  EventuallyApplied
  StaleEventuallyCleared
CHECK_DEADLOCK FALSE
