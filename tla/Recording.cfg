SPECIFICATION FairSpec
CONSTANTS
  Line <- Lines
  Output = out
  PageLimit = 3
  ListLimit = 3
  MaxLog = 5
  MaxLines = 2
  MaxApi = 2
  MaxFault = 1
INVARIANTS
  BatchesAreWholeAndOnce
  EveryReferenceResolves
  NothingIsOverstated
  ViewIsFaithful
  RefusesOnlyLongRuns
PROPERTIES
  RecordedIsShown
CHECK_DEADLOCK FALSE
