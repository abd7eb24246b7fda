--------------------------- MODULE RampUpRateLimiter ---------------------------
(***************************************************************************)
(* RampUpRateLimiter: a second goroutine per Start raises nextThreshold,   *)
(* the tokens of the next fill, by RampUpStep after each ramp-up period,   *)
(* up to MaxThreshold.                                                     *)
(***************************************************************************)
EXTENDS TokenBucket

CONSTANTS
  RampUpStep,    \* limiter.rampUpStep, which parseRampUpRate lets be negative
  MaxInt         \* the largest int64

ASSUME RampUpAssumption ==
  MaxInt \in Nat /\ MaxThreshold \in 0..MaxInt /\ RampUpStep \in -(MaxInt + 1)..MaxInt

VARIABLES
  nextThreshold,
  buckets,     \* buckets[t]: the bucket updater of the t-th Start
  updaters,    \* updaters[t]: its threshold updater
  computed,    \* computed[t]: what the t-th Start, then its updater, got from getNextThreshold
  caller       \* where the caller of Start and Stop is

rampVars == <<nextThreshold, timerId, buckets, updaters, computed, quit, caller>>
vars == <<rampVars, bucketVars, waitVars>>

Init ==
  /\ nextThreshold = 0 /\ currentThreshold = 0 /\ timerId = 0
  /\ buckets = [t \in Timers |-> "none"] /\ updaters = [t \in Timers |-> "none"]
  /\ computed = [t \in Timers |-> 0] /\ quit = {} /\ caller = "stopped"
  /\ chanClosed = FALSE /\ user = [u \in Users |-> "idle"] /\ panic = FALSE
  /\ granted = 0 /\ filled = 0

-----------------------------------------------------------------------------
\* int64 addition to a value that is not negative.
Add(a, b) == IF a + b > MaxInt THEN a + b - 2 * (MaxInt + 1) ELSE a + b

Least(a, b) == IF a < b THEN a ELSE b

\* Mutant: no test for overflow.
GetNextThreshold_NoOverflowTest(n) == Least(Add(n, RampUpStep), MaxThreshold)

GetNextThreshold(n) ==
  LET nextValue == Add(n, RampUpStep)
  IN  Least(IF nextValue < 0 THEN MaxInt ELSE nextValue, MaxThreshold)

\* The tokens are read from nextThreshold and stored in currentThreshold at once: an
\* older value would be as good a threshold.
Fill ==
  /\ currentThreshold' = nextThreshold
  /\ filled' = nextThreshold /\ granted' = 0

-----------------------------------------------------------------------------
(* The caller, who alternates Start and Stop. *)

StartId ==
  /\ ~panic /\ caller = "stopped" /\ timerId < MaxStarts
  /\ timerId' = timerId + 1
  /\ caller' = "next"
  /\ UNCHANGED <<nextThreshold, bucketVars, buckets, updaters, computed, quit, waitVars>>

\* Between the read and the store an updater of an earlier Start may store.
StartRead ==
  /\ ~panic /\ caller = "next"
  /\ computed' = [computed EXCEPT ![timerId] = GetNextThreshold(nextThreshold)]
  /\ caller' = "store"
  /\ UNCHANGED <<nextThreshold, bucketVars, timerId, buckets, updaters, quit, waitVars>>

StartStore ==
  /\ ~panic /\ caller = "store"
  /\ nextThreshold' = computed[timerId]
  /\ caller' = "current"
  /\ UNCHANGED <<bucketVars, timerId, buckets, updaters, computed, quit, waitVars>>

\* The first fill, and the two goroutines.
StartCurrent ==
  /\ ~panic /\ caller = "current"
  /\ Fill
  /\ buckets' = [buckets EXCEPT ![timerId] = "check"]
  /\ updaters' = [updaters EXCEPT ![timerId] = "check"]
  /\ caller' = "started"
  /\ UNCHANGED <<nextThreshold, timerId, computed, quit, waitVars>>

Stop ==
  /\ ~panic /\ caller = "started"
  /\ nextThreshold' = 0
  /\ quit' = quit \cup {timerId}
  /\ caller' = "stopped"
  /\ UNCHANGED <<bucketVars, timerId, buckets, updaters, computed, waitVars>>

-----------------------------------------------------------------------------
(* The bucket updater of the t-th Start. *)

BucketStep(t, from, to) ==
  /\ ~panic /\ buckets[t] = from
  /\ buckets' = [buckets EXCEPT ![t] = to]
  /\ UNCHANGED <<nextThreshold, timerId, updaters, computed, quit, caller>>

BucketCheck(t) ==
  /\ BucketStep(t, "check", IF t \in quit THEN "done" ELSE "sleep")
  /\ UNCHANGED <<bucketVars, waitVars>>

BucketWake(t) ==
  /\ BucketStep(t, "sleep", IF timerId # t THEN "done" ELSE "refill")
  /\ UNCHANGED <<bucketVars, waitVars>>

BucketRefill(t) == BucketStep(t, "refill", "close") /\ Fill /\ UNCHANGED waitVars

BucketClose(t) == BucketStep(t, "close", "make") /\ CloseChannel /\ UNCHANGED bucketVars

BucketMake(t) ==
  /\ BucketStep(t, "make", "check")
  /\ chanClosed' = FALSE
  /\ UNCHANGED <<bucketVars, user, panic>>

Bucket(t) ==
  BucketCheck(t) \/ BucketWake(t) \/ BucketRefill(t) \/ BucketClose(t) \/ BucketMake(t)

-----------------------------------------------------------------------------
(* The threshold updater of the t-th Start; getNextThreshold's read and    *)
(* the store are separate steps.                                           *)

UpdaterStep(t, from, to) ==
  /\ ~panic /\ updaters[t] = from
  /\ updaters' = [updaters EXCEPT ![t] = to]
  /\ UNCHANGED <<bucketVars, timerId, buckets, quit, caller, waitVars>>

UpdaterCheck(t) ==
  /\ UpdaterStep(t, "check", IF t \in quit THEN "done" ELSE "sleep")
  /\ UNCHANGED <<nextThreshold, computed>>

UpdaterWake(t) ==
  /\ UpdaterStep(t, "sleep", IF timerId # t THEN "done" ELSE "read")
  /\ UNCHANGED <<nextThreshold, computed>>

UpdaterRead(t) ==
  /\ UpdaterStep(t, "read", "store")
  /\ computed' = [computed EXCEPT ![t] = GetNextThreshold(nextThreshold)]
  /\ UNCHANGED nextThreshold

\* Mutant: the new threshold is computed and dropped.
UpdaterStore_Drop(t) ==
  /\ UpdaterStep(t, "store", "check")
  /\ UNCHANGED <<nextThreshold, computed>>

UpdaterStore(t) ==
  /\ UpdaterStep(t, "store", "check")
  /\ nextThreshold' = computed[t]
  /\ UNCHANGED computed

Updater(t) == UpdaterCheck(t) \/ UpdaterWake(t) \/ UpdaterRead(t) \/ UpdaterStore(t)

-----------------------------------------------------------------------------
(* Acquire *)

Acquire(u) == Take(u) /\ UNCHANGED rampVars
ReadChannel(u) == Wait(u) /\ UNCHANGED rampVars
Return(u) == Leave(u) /\ UNCHANGED rampVars

-----------------------------------------------------------------------------
Next ==
  \/ StartId \/ StartRead \/ StartStore \/ StartCurrent \/ Stop
  \/ \E t \in Timers : Bucket(t) \/ Updater(t)
  \/ \E u \in Users : Acquire(u) \/ ReadChannel(u) \/ Return(u)

Spec == Init /\ [][Next]_vars

\* A Start that has begun ends, goroutines run when they can and sleeps end.
\* No one has to call Start, Stop or Acquire.
Fairness ==
  /\ WF_vars(StartRead \/ StartStore \/ StartCurrent)
  /\ \A t \in Timers : WF_vars(Bucket(t)) /\ WF_vars(Updater(t))
  /\ \A u \in Users : WF_vars(ReadChannel(u) \/ Return(u))

FairSpec == Spec /\ Fairness

-----------------------------------------------------------------------------
(* Properties *)

\* A limiter that is not stopped reaches its maximum.
RampUpReachesMax ==
  (caller = "started") ~> (nextThreshold = MaxThreshold \/ caller # "started" \/ panic)
==============================================================================
