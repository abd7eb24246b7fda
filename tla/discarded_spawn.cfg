CONSTANTS
  Timestamps = {"fresh", "old", "none"}
  UserTotals = {1}
  MaxPool = 1
  MaxSent = 2
SPECIFICATION Spec
CHECK_DEADLOCK FALSE
PROPERTY DiscardedSpawnIsIgnored
