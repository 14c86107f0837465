\* Is a dead child waited for?
SPECIFICATION FairSpec
CONSTANTS
  Pids = {1, 2}
  PipeCap = 1
  MaxCycles = 1
  MaxBoots = 1
  LogFile = FALSE
  Faults = {}
PROPERTIES
  ExitDetected
CHECK_DEADLOCK FALSE
