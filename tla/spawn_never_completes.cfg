CONSTANTS
  Timestamps = {"fresh", "none"}
  UserTotals = {1}
  MaxPool = 1
  MaxSent = 1
SPECIFICATION FairSpec
CHECK_DEADLOCK FALSE
PROPERTY SpawningCompletes
