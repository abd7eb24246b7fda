CONSTANTS
  Users = {u1, u2}
  Outputs = {o1, o2}
  ChanCap = 1
  MaxReports = 2
SPECIFICATION FairSpec
INVARIANTS OutputsInStep PanicsOnlyDuringStart
PROPERTIES UsersDrainOrWait StatsGoroutineEnds
\* After Quit everything ends.
CHECK_DEADLOCK FALSE
