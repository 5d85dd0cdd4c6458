SPECIFICATION Spec
CONSTANTS
    boot = boot
    Script = {boot}
    MaxSupervisors = 2
    MaxCommands = 3
PROPERTY NoLaunchAfterCrash
CHECK_DEADLOCK FALSE
