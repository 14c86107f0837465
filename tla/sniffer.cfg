SPECIFICATION Spec
CONSTANTS
  Setups <- MCSetups
  Captures <- MCCaptures
  Heard <- MCHeard
  Unset <- MCUnset
  Datagrams <- MCDatagrams
  CHAR_MAX = 1
  MaxParts = 3
  Word = 16
  MaxPackets = 3
  MaxAsked = 3
CHECK_DEADLOCK FALSE
INVARIANTS TypeOK OtidOfItsTopic DecodedWhole InOrderDecoded DumpInTime
PROPERTIES ImplementsStatsSet VerdictHonest PrintedBeforeCleared
