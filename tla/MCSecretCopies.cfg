SPECIFICATION FairSpec
CONSTANTS
  Process = {p1, p2}
  NoProcess = noProcess
  MaxVersions = 3
  MaxChanges = 2
  MaxLosses = 1
  MaxFaults = 1
  MaxStarts = 2
INVARIANTS
  TypeOK
  QuietLeaderIsFresh
PROPERTIES
  WritesMoveForward
  RenewalArrives
CHECK_DEADLOCK FALSE
