\* A killed wrapper, recycled process ids and a PID file that cannot be written.
SPECIFICATION Spec
CONSTANTS
  Pids = {1, 2}
  PipeCap = 1
  MaxCycles = 1
  MaxBoots = 2
  LogFile = TRUE
  Faults = {"pipe", "fork", "pidwrite", "recycle", "crash"}
INVARIANTS
  SignalsOnlyOwnChild
  StatsConsistent
PROPERTIES
  RecordedUntilDead
CHECK_DEADLOCK FALSE
