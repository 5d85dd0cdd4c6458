SPECIFICATION Spec
CONSTANTS
  s1 = s1
  Script = {s1}
  MaxWrappers = 3
  MaxCommands = 3
INVARIANTS
  OneDemo
CHECK_DEADLOCK FALSE
