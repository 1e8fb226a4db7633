SPECIFICATION Spec
CONSTANTS
  a = a
  b = b
  c = c
  Msg = {a, b, c}
  NoMsg = NoMsg
  Parent <- MCParentReply
  Noise = {}
  Closing = {b}
  Recallable = {b}
  Runners = {"cron"}
  Second = 2
  Thaw = 2
  Since = 0
  ManualUntils = {2}
  MaxTime = 4
  OutageEnds = FALSE
  Absent = Absent
  Empty = Empty
  Torn = Torn
INVARIANTS EachMessageOnce NothingBelowWatermarkLost
PROPERTIES HardFrozenStable WatermarkMonotone
