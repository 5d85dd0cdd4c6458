SPECIFICATION Spec
CONSTANTS
    MaxUpdates = 1
    MaxFaults = 1
INVARIANT GatesClosedAfterDisconnect
