SPECIFICATION FairSpec
CONSTANTS
  Process = {p1}
  NoProcess = noProcess
  MaxVersions = 2
  MaxChanges = 1
  MaxLosses = 0
  MaxFaults = 0
  MaxStarts = 1
PROPERTIES
  CertificateArrives
CHECK_DEADLOCK FALSE
