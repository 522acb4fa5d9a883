SPECIFICATION FairSpec
CONSTANTS
  MaxSession = 3
  MaxCrash = 1
INVARIANTS
  EndedRunIsAtRest
  CompletedRunIsKept
  EverythingUnderWayIsOwned
  CurrentTurnIsLive
PROPERTIES
  ReplacedOnlyWhileWaiting
  EverythingEnds
