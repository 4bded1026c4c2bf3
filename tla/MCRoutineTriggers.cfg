CONSTANTS
  Trees = {t1, t2, huge}
  Oversized = {huge}
  Refs = {1}
  Revisions = {c1}
  Nothing = Nothing
  Order <- MCOrder
  Period = 1
  Debounce = 1
  ScanInterval = 1
  MaxCatchup = 2
  Horizon = 2
  Switchable = {"sched"}
  MaxChanges = 3
  MaxRestarts = 1
SPECIFICATION RoutinesSpec
INVARIANT TriggersSound
PROPERTIES DueTriggersRun RunsFinish
CHECK_DEADLOCK FALSE
