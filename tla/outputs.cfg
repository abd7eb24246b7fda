CONSTANTS
  Reports <- Mixed
  ReportInterval = 3
  Percent = 90
  MaxReports = 3
SPECIFICATION Spec
INVARIANTS SummaryAccurate TotalsAgree PercentilesCorrect OutputsAgree ErrorsSentIntact
\* The reports are bounded, and the program may be ended.
CHECK_DEADLOCK FALSE
