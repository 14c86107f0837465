\* Progress of shutdown and of a maintenance cycle.
SPECIFICATION FairSpec
CONSTANTS
  Pids = {1, 2}
  PipeCap = 1
  MaxCycles = 2
  MaxBoots = 1
  LogFile = FALSE
  Faults = {"pipe", "fork", "jobcontrol"}
PROPERTIES
  ShutdownCompletes
  MaintenanceTerminates
CHECK_DEADLOCK FALSE
