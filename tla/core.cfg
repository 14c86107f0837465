\* Every fault of the environment the wrapper itself survives.
SPECIFICATION Spec
CONSTANTS
  Pids = {1, 2, 3}
  PipeCap = 1
  MaxCycles = 2
  MaxBoots = 2
  LogFile = FALSE
  Faults = {"pipe", "fork"}
INVARIANTS
  TypeOK
  OneStore
  MaintenanceExclusive
  LiveStoreRecorded
  ExitLeavesNoStore
PROPERTIES
  ImplementsSupervisor
CHECK_DEADLOCK FALSE
