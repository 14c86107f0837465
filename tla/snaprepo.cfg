\* Prune and move under failing I/O and kills.
SPECIFICATION FairSpec
CONSTANTS
  Repos <- MCRepos
  Threshold = 2
  BufSize = 3
  MarkerSz = 3
  OffsetSz = 2
  HdrSz = 1
  EntryBuf = 3
  Faults = {"io", "kill"}
INVARIANTS
  CopyBeforeDamage
  NewerKept
  MarkerAtEnd
  KeepsContract
  CacheFollowsState
PROPERTIES
  Exits
CHECK_DEADLOCK FALSE
