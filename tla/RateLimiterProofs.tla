--------------------------- MODULE RateLimiterProofs ---------------------------
(***************************************************************************)
(* Both limiters.  The stable one grants at most Threshold calls per       *)
(* refill, for any number of callers, restarts and interleavings, prompt   *)
(* timers or not.  The thresholds of the ramp-up limiter stay within their *)
(* bounds although int64 overflows and although the updater and Stop race, *)
(* and no more is granted than was filled in: for every step, maximum and  *)
(* width.                                                                  *)
(***************************************************************************)
EXTENDS StableRateLimiter, TLAPS

CONSTANTS RampUpStep, MaxInt
VARIABLES nextThreshold, buckets, updaters, computed, caller

\* The ramp-up limiter, with the same callers and bounds.
RampUp == INSTANCE RampUpRateLimiter

-----------------------------------------------------------------------------
(* The bucket of the stable limiter *)

BucketInv == currentThreshold \in Int /\ filled = Threshold /\ NoBurst

\* A new limiter has a full bucket.
LEMMA BucketInit == Init => BucketInv
BY BucketAssumption DEF Init, BucketInv, NoBurst, Threshold

\* Acquire and the refill keep the bucket balanced.
LEMMA BucketKeeps == BucketInv /\ [Next]_vars => BucketInv'
<1>. SUFFICES ASSUME BucketInv, [Next]_vars PROVE BucketInv'
  OBVIOUS
<1>. USE BucketAssumption DEF BucketInv, Threshold
<1>0. ASSUME UNCHANGED bucketVars PROVE BucketInv'
  BY <1>0 DEF bucketVars, NoBurst
<1>1. CASE Start \/ Stop
  BY <1>0, <1>1 DEF Start, Stop
<1>2. ASSUME NEW t \in Timers, Timer(t) PROVE BucketInv'
  <2>1. CASE TimerRefill(t)
    BY <2>1 DEF TimerRefill, NoBurst
  <2>2. CASE ~TimerRefill(t)
    <3>1. UNCHANGED bucketVars
      BY <1>2, <2>2 DEF Timer, TimerCheck, TimerWake, TimerClose, TimerMake
    <3>. QED BY <1>0, <3>1
  <2>. QED BY <2>1, <2>2
<1>3. ASSUME NEW u \in Users, Acquire(u) PROVE BucketInv'
  <2>1. currentThreshold' = currentThreshold - 1 /\ UNCHANGED filled
    BY <1>3 DEF Acquire, Take
  <2>2. CASE currentThreshold < 1
    <3>1. UNCHANGED granted
      BY <1>3, <2>2 DEF Acquire, Take
    <3>. QED BY <2>1, <2>2, <3>1 DEF NoBurst
  <2>3. CASE currentThreshold >= 1
    <3>1. granted' = granted + 1
      BY <1>3, <2>3 DEF Acquire, Take
    <3>. QED BY <2>1, <2>3, <3>1 DEF NoBurst
  <2>. QED BY <2>2, <2>3
<1>4. ASSUME NEW u \in Users, ReadChannel(u) \/ Return(u) PROVE BucketInv'
  BY <1>0, <1>4 DEF ReadChannel, Return, Wait, Leave
<1>5. CASE UNCHANGED vars
  BY <1>0, <1>5 DEF vars
<1>. QED BY <1>1, <1>2, <1>3, <1>4, <1>5 DEF Next

\* Acquire never lets more than Threshold callers through between two refills.
THEOREM NeverBursts == Spec => []NoBurst
<1>1. BucketInv => NoBurst
  BY DEF BucketInv
<1>. QED BY <1>1, BucketInit, BucketKeeps, PTL DEF Spec
-----------------------------------------------------------------------------
(* Types, and the channel that is closed at each refill *)

\* A limiter that can be stopped was started.
TypeInv == TypeOK /\ (started => timerId \in Timers)

\* Every step keeps the types.
LEMMA TypeStep == TypeInv /\ [Next]_vars => TypeInv'
<1>. SUFFICES ASSUME TypeInv, [Next]_vars PROVE TypeInv'
  OBVIOUS
<1>. USE BucketAssumption DEF TypeOK, TypeInv, timerVars, bucketVars, waitVars
<1>1. CASE Start
  BY <1>1 DEF Start, Timers
<1>2. CASE Stop
  BY <1>2 DEF Stop
<1>3. ASSUME NEW t \in Timers, Timer(t) PROVE TypeInv'
  <2>. USE DEF TimerStep
  <2>1. CASE TimerCheck(t) \/ TimerWake(t)
    BY <2>1 DEF TimerCheck, TimerWake
  <2>2. CASE TimerRefill(t)
    BY <2>2 DEF TimerRefill, Threshold
  <2>3. CASE TimerClose(t)
    BY <2>3 DEF TimerClose, CloseChannel
  <2>4. CASE TimerMake(t)
    BY <2>4 DEF TimerMake
  <2>. QED BY <1>3, <2>1, <2>2, <2>3, <2>4 DEF Timer
<1>4. ASSUME NEW u \in Users, Acquire(u) \/ ReadChannel(u) \/ Return(u) PROVE TypeInv'
  BY <1>4 DEF Acquire, ReadChannel, Return, Take, Wait, Leave
<1>5. CASE UNCHANGED vars
  BY <1>5 DEF vars
<1>. QED BY <1>1, <1>2, <1>3, <1>4, <1>5 DEF Next

\* A new limiter has these types.
LEMMA TypeInit == Init => TypeInv
<1>1. Init => started \in BOOLEAN /\ ~started /\ chanClosed \in BOOLEAN /\ panic \in BOOLEAN
  BY Zenon DEF Init
<1>. QED BY <1>1, BucketAssumption DEF Init, TypeInv, TypeOK, Timers, Threshold

\* Every field keeps its type, and only a quitChannel that was made is closed.
THEOREM TypeCorrect == Spec => []TypeOK
<1>1. TypeInv => TypeOK
  BY DEF TypeInv
<1>. QED BY <1>1, TypeInit, TypeStep, PTL DEF Spec

\* While only one Start was called, its timer is the only one, and the channel is
\* closed exactly until that timer replaces it.
OneTimer ==
  timerId < 2 =>
    /\ ~panic
    /\ \A t \in Timers : t > timerId => timers[t] = "none"
    /\ chanClosed => timerId = 1 /\ timers[1] = "make"

\* A step keeps this as long as there is no second Start.
LEMMA OneTimerStep == TypeInv /\ OneTimer /\ [Next]_vars => OneTimer'
<1>. SUFFICES ASSUME TypeInv, OneTimer, [Next]_vars, timerId' < 2 PROVE OneTimer'
  BY DEF OneTimer
<1>. USE BucketAssumption DEF OneTimer, TypeInv, TypeOK, Timers, bucketVars, waitVars
<1>0. ASSUME UNCHANGED <<timerVars, chanClosed, panic>> PROVE OneTimer'
  BY <1>0 DEF timerVars
<1>1. CASE Start
  BY <1>1 DEF Start
<1>2. CASE Stop
  BY <1>2 DEF Stop
<1>3. ASSUME NEW t \in Timers, Timer(t) PROVE OneTimer'
  <2>. USE DEF TimerStep
  <2>1. UNCHANGED timerId /\ timers[t] # "none"
    BY <1>3 DEF Timer, TimerCheck, TimerWake, TimerRefill, TimerClose, TimerMake
  <2>2. t = 1 /\ timerId = 1
    BY <2>1
  <2>3. CASE TimerClose(t)
    BY <2>2, <2>3 DEF TimerClose, CloseChannel
  <2>4. CASE TimerMake(t)
    BY <2>2, <2>4 DEF TimerMake
  <2>5. CASE TimerCheck(t) \/ TimerWake(t) \/ TimerRefill(t)
    BY <2>2, <2>5 DEF TimerCheck, TimerWake, TimerRefill
  <2>. QED BY <1>3, <2>3, <2>4, <2>5 DEF Timer
<1>4. ASSUME NEW u \in Users, Acquire(u) \/ ReadChannel(u) \/ Return(u) PROVE OneTimer'
  BY <1>0, <1>4, Zenon DEF Acquire, ReadChannel, Return, Take, Wait, Leave
<1>5. CASE UNCHANGED vars
  BY <1>0, <1>5, Zenon DEF vars
<1>. QED BY <1>1, <1>2, <1>3, <1>4, <1>5 DEF Next

\* Only after a second Start can broadcastChannel be closed twice.
THEOREM DoubleCloseNeedsRestart == Spec => []StartedOnceNeverPanics
<1>1. Init => OneTimer
  BY DEF Init, OneTimer
<1>2. OneTimer => StartedOnceNeverPanics
  BY DEF OneTimer, StartedOnceNeverPanics
<1>. QED BY <1>1, <1>2, TypeInit, TypeStep, OneTimerStep, PTL DEF Spec
-----------------------------------------------------------------------------
(* The thresholds of the ramp-up limiter *)

\* What RampUpRateLimiter assumes of the constants that only it has.
RampUpBounds ==
  MaxInt \in Nat /\ MaxThreshold \in 0..MaxInt /\ RampUpStep \in -(MaxInt + 1)..MaxInt

\* Whatever the step, also a negative one, getNextThreshold returns a threshold within the maximum.
LEMMA NextThresholdBound ==
  ASSUME RampUpBounds, NEW n \in 0..MaxThreshold
  PROVE  RampUp!GetNextThreshold(n) \in 0..MaxThreshold
<1>. DEFINE next == RampUp!Add(n, RampUpStep)
<1>1. next \in Int /\ next <= MaxInt
  BY DEF RampUpBounds, RampUp!Add
<1>. QED BY <1>1 DEF RampUpBounds, RampUp!GetNextThreshold, RampUp!Least

\* With a step that is not negative getNextThreshold never lowers the threshold,
\* overflow or not.
THEOREM ThresholdNeverFalls ==
  ASSUME RampUpBounds, RampUpStep >= 0, NEW n \in 0..MaxThreshold
  PROVE  n <= RampUp!GetNextThreshold(n)
BY DEF RampUpBounds, RampUp!GetNextThreshold, RampUp!Least, RampUp!Add

\* A caller inside Start, or between Start and Stop, has the number of its timer.
CallerInv == timerId \in 0..MaxStarts /\ (caller # "stopped" => timerId \in Timers)

\* Only StartId takes a new number, and only Stop lets the caller start again.
LEMMA CallerStep == CallerInv /\ [RampUp!Next]_(RampUp!vars) => CallerInv'
<1>. SUFFICES ASSUME CallerInv, [RampUp!Next]_(RampUp!vars) PROVE CallerInv'
  OBVIOUS
<1>. USE BucketAssumption DEF CallerInv, Timers
<1>1. CASE RampUp!StartId
  BY <1>1 DEF RampUp!StartId
<1>2. CASE RampUp!StartRead \/ RampUp!StartStore \/ RampUp!StartCurrent \/ RampUp!Stop
  BY <1>2 DEF RampUp!StartRead, RampUp!StartStore, RampUp!StartCurrent, RampUp!Stop
<1>3. ASSUME NEW t, RampUp!Bucket(t) \/ RampUp!Updater(t) PROVE UNCHANGED <<timerId, caller>>
  BY <1>3 DEF RampUp!Bucket, RampUp!BucketCheck, RampUp!BucketWake, RampUp!BucketRefill,
              RampUp!BucketClose, RampUp!BucketMake, RampUp!BucketStep, RampUp!Updater,
              RampUp!UpdaterCheck, RampUp!UpdaterWake, RampUp!UpdaterRead, RampUp!UpdaterStore,
              RampUp!UpdaterStep
<1>4. ASSUME NEW u, RampUp!Acquire(u) \/ RampUp!ReadChannel(u) \/ RampUp!Return(u)
      PROVE  UNCHANGED <<timerId, caller>>
  BY <1>4 DEF RampUp!Acquire, RampUp!ReadChannel, RampUp!Return, RampUp!rampVars
<1>5. CASE UNCHANGED RampUp!vars
  BY <1>5 DEF RampUp!vars, RampUp!rampVars
<1>. QED BY <1>1, <1>2, <1>3, <1>4, <1>5 DEF RampUp!Next

\* The thresholds and the bucket: what NoBurst needs to be inductive.
RampInv ==
  /\ nextThreshold \in 0..MaxThreshold
  /\ computed \in [Timers -> 0..MaxThreshold]
  /\ currentThreshold \in Int
  /\ RampUp!NoBurst

\* A new limiter has empty thresholds and an empty bucket.
LEMMA RampInit ==
  ASSUME RampUpBounds
  PROVE  RampUp!Init => RampInv
BY DEF RampUpBounds, RampUp!Timers, Timers, RampUp!Init, RampInv, RampUp!NoBurst

\* A fill takes its tokens from nextThreshold.
LEMMA FillKeeps ==
  ASSUME RampInv, RampUp!Fill, UNCHANGED <<nextThreshold, computed>>
  PROVE  RampInv'
BY DEF RampInv, RampUp!Fill, RampUp!NoBurst

\* Starts, updaters, callers and Stop keep the invariant.
LEMMA RampStep ==
  ASSUME RampUpBounds
  PROVE  CallerInv /\ RampInv /\ [RampUp!Next]_(RampUp!vars) => RampInv'
<1>. SUFFICES ASSUME CallerInv, RampInv, [RampUp!Next]_(RampUp!vars) PROVE RampInv'
  OBVIOUS
<1>. USE DEF RampUpBounds, RampUp!Timers, Timers
<1>a. ASSUME UNCHANGED <<nextThreshold, computed, RampUp!bucketVars>> PROVE RampInv'
  BY <1>a DEF RampInv, RampUp!NoBurst, RampUp!bucketVars
<1>b. ASSUME UNCHANGED RampUp!bucketVars, nextThreshold' \in 0..MaxThreshold,
             computed' \in [Timers -> 0..MaxThreshold]
      PROVE  RampInv'
  BY <1>b DEF RampInv, RampUp!NoBurst, RampUp!bucketVars
<1>1. CASE RampUp!StartId
  BY <1>a, <1>1 DEF RampUp!StartId
<1>2. CASE RampUp!StartRead \/ RampUp!StartStore
  <2>1. timerId \in Timers
    BY <1>2 DEF RampUp!StartRead, RampUp!StartStore, CallerInv
  <2>2. RampUp!GetNextThreshold(nextThreshold) \in 0..MaxThreshold
    BY NextThresholdBound DEF RampInv
  <2>3. CASE RampUp!StartRead
    BY <1>b, <2>1, <2>2, <2>3 DEF RampUp!StartRead, RampInv
  <2>4. CASE RampUp!StartStore
    BY <1>b, <2>1, <2>4 DEF RampUp!StartStore, RampInv
  <2>. QED BY <1>2, <2>3, <2>4
<1>3. CASE RampUp!StartCurrent
  BY <1>3, FillKeeps DEF RampUp!StartCurrent
<1>4. CASE RampUp!Stop
  BY <1>b, <1>4 DEF RampUp!Stop, RampInv
<1>5. ASSUME NEW t \in Timers, RampUp!Bucket(t) PROVE RampInv'
  <2>1. UNCHANGED <<nextThreshold, computed>>
    BY <1>5 DEF RampUp!Bucket, RampUp!BucketCheck, RampUp!BucketWake,
              RampUp!BucketRefill, RampUp!BucketClose, RampUp!BucketMake, RampUp!BucketStep
  <2>2. CASE RampUp!BucketRefill(t)
    BY <2>1, <2>2, FillKeeps DEF RampUp!BucketRefill
  <2>3. CASE ~RampUp!BucketRefill(t)
    BY <1>5, <1>a, <2>1, <2>3 DEF RampUp!Bucket, RampUp!BucketCheck, RampUp!BucketWake,
                                 RampUp!BucketClose, RampUp!BucketMake
  <2>. QED BY <2>2, <2>3
<1>6. ASSUME NEW t \in Timers, RampUp!Updater(t) PROVE RampInv'
  <2>1. UNCHANGED RampUp!bucketVars
    BY <1>6 DEF RampUp!Updater, RampUp!UpdaterCheck, RampUp!UpdaterWake,
              RampUp!UpdaterRead, RampUp!UpdaterStore, RampUp!UpdaterStep
  <2>2. CASE RampUp!UpdaterCheck(t) \/ RampUp!UpdaterWake(t)
    BY <1>a, <2>1, <2>2 DEF RampUp!UpdaterCheck, RampUp!UpdaterWake
  <2>3. CASE RampUp!UpdaterRead(t)
    <3>1. RampUp!GetNextThreshold(nextThreshold) \in 0..MaxThreshold
      BY NextThresholdBound DEF RampInv
    <3>2. computed' \in [Timers -> 0..MaxThreshold]
      BY <2>3, <3>1 DEF RampUp!UpdaterRead, RampInv
    <3>. QED BY <1>b, <2>1, <2>3, <3>2 DEF RampUp!UpdaterRead, RampInv
  <2>4. CASE RampUp!UpdaterStore(t)
    BY <1>b, <2>1, <2>4 DEF RampUp!UpdaterStore, RampInv
  <2>. QED BY <1>6, <2>2, <2>3, <2>4 DEF RampUp!Updater
<1>7. ASSUME NEW u \in Users, RampUp!Acquire(u) PROVE RampInv'
  <2>1. UNCHANGED <<nextThreshold, computed, filled>> /\ currentThreshold' = currentThreshold - 1
    BY <1>7 DEF RampUp!Acquire, RampUp!Take, RampUp!rampVars
  <2>2. CASE currentThreshold < 1
    <3>1. UNCHANGED granted
      BY <1>7, <2>2 DEF RampUp!Acquire, RampUp!Take, RampInv
    <3>. QED BY <2>1, <2>2, <3>1 DEF RampInv, RampUp!NoBurst
  <2>3. CASE currentThreshold >= 1
    <3>1. granted' = granted + 1
      BY <1>7, <2>3 DEF RampUp!Acquire, RampUp!Take, RampInv
    <3>. QED BY <2>1, <2>3, <3>1 DEF RampInv, RampUp!NoBurst
  <2>. QED BY <2>2, <2>3 DEF RampInv
<1>8. ASSUME NEW u \in Users, RampUp!ReadChannel(u) \/ RampUp!Return(u) PROVE RampInv'
  BY <1>a, <1>8 DEF RampUp!ReadChannel, RampUp!Return, RampUp!Wait, RampUp!Leave, RampUp!rampVars,
                   RampUp!bucketVars
<1>9. CASE UNCHANGED RampUp!vars
  BY <1>a, <1>9 DEF RampUp!vars, RampUp!rampVars, RampUp!bucketVars
<1>. QED BY <1>1, <1>2, <1>3, <1>4, <1>5, <1>6, <1>7, <1>8, <1>9 DEF RampUp!Next

\* The ramp-up limiter fills in at most its maximum, however rampUpStep overflows,
\* and grants no more than it filled in.
THEOREM RampUpNeverBursts ==
  ASSUME RampUpBounds
  PROVE  RampUp!Spec => []NoBurst
<1>1. RampInv => NoBurst
  BY DEF RampInv, NoBurst, RampUp!NoBurst
<1>2. RampUp!Init => CallerInv
  BY BucketAssumption DEF RampUp!Init, CallerInv
<1>. QED BY <1>1, <1>2, RampInit, CallerStep, RampStep, PTL DEF RampUp!Spec
================================================================================
