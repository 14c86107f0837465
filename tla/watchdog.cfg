\* Every combination of what can be watched.
SPECIFICATION Spec
CONSTANTS
  Sub = 2
  Slack = 1
  OptionSets = {{"S"}, {"R", "W"}, {"R", "M"}, {"S", "R", "D"}, {"D"}}
  CtxTimeout = 1
  MsgTimeout = 0
  SustainTqr = 1
  WildcardTqr = 0
  Linger = 1
  QueryTime = 1
  Garbage = {0}
  MaxUp = 1
  MaxLogs = 1
  Last = 11
INVARIANTS
  AlarmExact
  EndNotEarly
  NoticedInTime
CHECK_DEADLOCK FALSE
