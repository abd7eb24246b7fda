CONSTANTS
  ChanCap = 1
  InCap = 1
SPECIFICATION FairSpec
INVARIANTS LateReportsBounded QuitIsAnnounced
PROPERTIES HeartbeatsGetRoom QuitReturnsUnlessFull MasterQuitEndsProgram ShutdownEndsGoroutines
\* Once Run has returned the program is over.
CHECK_DEADLOCK FALSE
