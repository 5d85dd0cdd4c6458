SPECIFICATION FairSpec
CONSTANTS
  MaxCount = 3
  MaxBytes = 5
  Sizes <- MCSizes
  MaxAccepted = 6
INVARIANTS
  CountersAgree
  Bounded
  NoLostWakeup
  DrainedWhenJoined
PROPERTIES
  StopTerminates
  WindowSpec
