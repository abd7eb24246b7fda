CONSTANTS
  Weights = {0, 1, 3}
  MaxTasks = 5
  MaxPicks = 8
SPECIFICATION Spec
INVARIANTS NeverAhead CycleIsFair WeighingIsFair RunnerIsFair
\* The bounds are reached.
CHECK_DEADLOCK FALSE
