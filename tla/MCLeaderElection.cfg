SPECIFICATION FairSpec
CONSTANTS
  Process = {p1, p2}
  NoOne = noOne
  LeaseDuration = 5
  RenewDeadline = 2
  RetryPeriod = 1
  MaxLatency = 1
  Controllers = 1
  MaxFaults = 1
  MaxCrashes = 1
  MaxSignals = 1
INVARIANTS
  TypeOK
  AtMostOneLeader
  LeaderOwnsTheLease
PROPERTIES
  IsSuccession
  StandbyTakesOver
  StoppedProcessEnds
