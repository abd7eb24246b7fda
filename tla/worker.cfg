CONSTANTS
  Timestamps = {"fresh", "old"}
  UserTotals = {1}
  MaxPool = 1
  MaxSent = 2
SPECIFICATION FairSpec
INVARIANTS TypeOK AckHandshake OnlyLastStopChanOpen ReadyMeansIdle NoLostMessage StopChanDiscipline
PROPERTIES ImplementsLifecycle StoppedGenerationDrains StopIsAnswered
\* After the shutdown, or once the master is gone, nothing is left to do.
CHECK_DEADLOCK FALSE
