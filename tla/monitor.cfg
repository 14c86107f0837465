\* Two periods of the schedule, a ring smaller than the number of matches.
SPECIFICATION Spec
CONSTANTS
  RingSize = 3
  Threshold = 2
  Window = 3
  MinSeverity = 2
  Minute = 2
  Period = 10
  Target = 5
  Guard = 4
  Interval = 6
  Poll = 2
  MaxMaint = 3
  Epoch = 10
  Last = 27
  MaxMatches = 4
  Faults = {"clock"}
INVARIANTS
  AlertExact
  NotMissed
PROPERTIES
  OncePerMinute
CHECK_DEADLOCK FALSE
