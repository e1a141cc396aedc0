SPECIFICATION FairSpec
CONSTANTS
  r1 = r1
  Replicas = {r1}
  BatchSize = 2
  MaxBans = 2
  MaxFaults = 2
INVARIANTS
  TypeOK
  AckedIsApplied
  SignalsAreKept
  ReadyHoldsOlderBans
PROPERTIES
  EveryReplicaLearns
CHECK_DEADLOCK FALSE
