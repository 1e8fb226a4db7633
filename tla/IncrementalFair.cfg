SPECIFICATION FairSpec
CONSTANTS
  a = a
  b = b
  c = c
  Msg = {a, b, c}
  NoMsg = NoMsg
  Parent <- MCParentNone
  Noise = {c}
  Closing = {b}
  Recallable = {}
  Runners = {"cron"}
  Second = 1
  Thaw = 1
  Since = 0
  ManualUntils = {}
  MaxTime = 2
  OutageEnds = TRUE
  Absent = Absent
  Empty = Empty
  Torn = Torn
PROPERTIES EveryMessageFiled HolesHeal IndexCatchesUp
