\* One process with one worker, full queues, every kind of end, liveness.
CONSTANTS
  r1 = r1  r2 = r2  w1 = w1  w2 = w2
  Replicas = {r1}
  Workers = {w1}
  UpdatesBuffer = 1
  JobsBuffer = 1
  MaxUpdates = 3
  MaxSignals = 1
  MaxStartFailures = 1
  MaxCrashes = 1
SPECIFICATION FairSpec
CHECK_DEADLOCK FALSE
INVARIANTS TypeOK PoolOutlivesItsUsers NoUpdateVanishes
PROPERTIES PipelineDelivers EveryUpdateHandled ShutdownCompletes
