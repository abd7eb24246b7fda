CONSTANTS
  Users = {u1}
  Outputs = {o1}
  ChanCap = 1
  MaxReports = 1
SPECIFICATION FairSpec
PROPERTY ShutdownStopsWorkers
\* After Quit everything ends.
CHECK_DEADLOCK FALSE
