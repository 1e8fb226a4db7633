SPECIFICATION Spec
CONSTANTS
  a = a
  b = b
  c = c
  Msg = {a, b}
  NoMsg = NoMsg
  Parent <- MCParentReply
  Noise = {}
  Closing = {}
  Recallable = {}
  Runners = {"cron", "manual"}
  Second = 1
  Thaw = 1
  Since = 0
  ManualUntils = {}
  MaxTime = 4
  OutageEnds = FALSE
  Absent = Absent
  Empty = Empty
  Torn = Torn
CHECK_DEADLOCK FALSE
PROPERTIES HardFrozenStable
