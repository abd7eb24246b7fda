CONSTANTS
  Recorders = {g1, g2}
  Requests <- Mixed
  ChanCap = 1
  RunnerCap = 1
  MaxRequests = 3
SPECIFICATION FairSpec
INVARIANTS EntriesAccurate ReportsConsistent RequestsConserved
PROPERTY CallersServed
\* Once the stats are closed, nothing empties the channels.
CHECK_DEADLOCK FALSE
