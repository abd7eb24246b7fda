CONSTANTS
  ChanCap = 1
  InCap = 1
SPECIFICATION FairSpec
PROPERTY ShutdownStopsReporter
\* Once Run has returned the program is over.
CHECK_DEADLOCK FALSE
