SPECIFICATION FairSpec
CONSTANTS
  Key = {k1, k2, k3}
  Worker = {w1, w2}
  NoKey = noKey
INVARIANTS
  TypeOK
  OneWorkerPerKey
  QueueIsDirtyNotProcessing
  RequestedIsKept
  NobodySleepsOnWork
  DrainedWhenReturned
PROPERTIES
  IsKeyQueue
  RequestedIsProcessed
  StopEndsStart
