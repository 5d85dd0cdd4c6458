SPECIFICATION FairSpec
CONSTANTS
    MaxUpdates = 2
    MaxFaults = 2
INVARIANTS
    ConfigFresh
    GatesBelongToConnection
    StopQuiescent
PROPERTIES
    StopTerminates
    Converges
