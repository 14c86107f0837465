\* Two stores over two cycles, every step of script and revert failing.
SPECIFICATION Spec
CONSTANTS
  NumStores = 2
  MaxCycles = 2
  Faults = {"snaprepo", "silent", "abort", "noscript", "cp"}
INVARIANTS
  LostOnlyByRevertOrWipe
  ExitStatusHonest
PROPERTIES
  NeverOlder
CHECK_DEADLOCK FALSE
