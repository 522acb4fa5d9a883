SPECIFICATION FairReplay
CONSTANTS
  t = t
  r = r
  u = u
  x = x
  y = y
  Path = {t, r, u}
  Content = {x, y}
  Absent = Absent
  Tracked = {t}
  Base <- IndexAndCommit
  Order <- ReadingOrder
  MaxEdit = 1
  MaxCrash = 1
INVARIANTS
  RunsInTheCheckpoint
  ReplayTellsTheRun

  
CHECK_DEADLOCK FALSE
