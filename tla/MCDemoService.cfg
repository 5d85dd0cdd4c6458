SPECIFICATION FairSpec
CONSTANTS
  s1 = s1
  Script = {s1}
  MaxWrappers = 3
  MaxCommands = 3
INVARIANTS
  StaysReachable
PROPERTIES
  RemovesOwnFiles
  StopTakesEffect
CHECK_DEADLOCK FALSE
