\* Does the pruned cache always start at offset 0?
SPECIFICATION Spec
CONSTANTS
  Repos <- MCRepos
  Threshold = 2
  BufSize = 3
  MarkerSz = 3
  OffsetSz = 2
  HdrSz = 1
  EntryBuf = 3
  Faults = {}
INVARIANTS
  StartOffsetCleared
CHECK_DEADLOCK FALSE
