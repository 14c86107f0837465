\* Can the store and the wrapper wait for each other?
SPECIFICATION Spec
CONSTANTS
  Pids = {1, 2}
  PipeCap = 1
  MaxCycles = 1
  MaxBoots = 1
  LogFile = FALSE
  Faults = {}
INVARIANTS
  NeverBothWaiting
CHECK_DEADLOCK FALSE
