SPECIFICATION Spec
CONSTANT
    MaxRevision = 3
INVARIANT RolledBackMeansRestored
