SPECIFICATION FairSpec
CONSTANTS
    MaxCommands = 3
    MaxCuts = 2
    MaxLapses = 1
INVARIANTS
    ResultAccounted
    OnlineWhileServing
    OfflineUnlessAbandoned
PROPERTIES
    ResultsInOrder
    StopTerminates
    CommandServed
CHECK_DEADLOCK FALSE
