SPECIFICATION FairSpec
CONSTANTS
  MaxOccurrences = 3
  MaxExpiries = 1
  MaxChanges = 2
  MaxFaults = 1
  MaxCrashes = 1
INVARIANTS
  TypeOK
  MarkIsHonest
  UnreplayedIsQueued
PROPERTIES
  OccurrenceIsReplayed
  QueueSettles
CHECK_DEADLOCK FALSE
