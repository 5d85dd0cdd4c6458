SPECIFICATION FairSpec
CONSTANT
    MaxRevision = 4
INVARIANTS
    Agreement
    DurableBeforeApplied
    NeverStale
PROPERTIES
    Answered
    RegisterSpec
