CONSTANTS
  Users = {u1, u2}
  RampUpWaiters = {u1}
  MaxThreshold = 2
  RampUpStep = 1
  MaxInt = 2
  MaxStarts = 2
  MaxDebt = 2
SPECIFICATION FairMC
INVARIANT NoBurst
PROPERTIES WaiterReleased RampUpReachesMax
\* Once the last Start is stopped every caller may end up waiting.
CHECK_DEADLOCK FALSE
