SPECIFICATION FairSpec
CONSTANTS
  Net = Net
  Main = Main
  Media = Media
  None = None
  MaxConns = 2
INVARIANTS
  OneCloserIsSafe
  StopReleasesAll
  JoinEnds
PROPERTIES
  StopReturns
CHECK_DEADLOCK FALSE
