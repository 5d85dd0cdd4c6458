SPECIFICATION FairSpec
CONSTANTS
    boot = boot
    Script = {boot}
    MaxSupervisors = 3
    MaxCommands = 5
INVARIANTS
    OneService
    CrashIsFlagged
PROPERTIES
    NoLaunchBeforeReboot
    StopTakesEffect
CHECK_DEADLOCK FALSE
