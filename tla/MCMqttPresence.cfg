SPECIFICATION Spec
CONSTANTS
    MaxCommands = 0
    MaxCuts = 1
    MaxLapses = 1
INVARIANT StoppedMeansOffline
CHECK_DEADLOCK FALSE
