--------------------------- MODULE StableRateLimiter ---------------------------
(***************************************************************************)
(* StableRateLimiter: every fill of the bucket has Threshold tokens.       *)
(***************************************************************************)
EXTENDS TokenBucket

Threshold == MaxThreshold

VARIABLES
  timers,      \* timers[t]: where the goroutine of the t-th Start is
  started      \* is the caller between Start and Stop?

timerVars == <<timerId, timers, quit, started>>
vars == <<timerVars, bucketVars, waitVars>>

Init ==
  /\ currentThreshold = Threshold /\ timerId = 0
  /\ timers = [t \in Timers |-> "none"] /\ quit = {} /\ started = FALSE
  /\ chanClosed = FALSE /\ user = [u \in Users |-> "idle"] /\ panic = FALSE
  /\ granted = 0 /\ filled = Threshold

-----------------------------------------------------------------------------
(* The caller, who alternates Start and Stop. *)

Start ==
  /\ ~panic /\ ~started /\ timerId < MaxStarts
  /\ timerId' = timerId + 1
  /\ timers' = [timers EXCEPT ![timerId + 1] = "check"]
  /\ started' = TRUE
  /\ UNCHANGED <<quit, bucketVars, waitVars>>

Stop ==
  /\ ~panic /\ started
  /\ quit' = quit \cup {timerId}
  /\ started' = FALSE
  /\ UNCHANGED <<timerId, timers, bucketVars, waitVars>>

-----------------------------------------------------------------------------
(* The timer goroutine of the t-th Start. *)

TimerStep(t, from, to) ==
  /\ ~panic /\ timers[t] = from
  /\ timers' = [timers EXCEPT ![t] = to]
  /\ UNCHANGED <<timerId, quit, started>>

TimerCheck(t) ==
  /\ TimerStep(t, "check", IF t \in quit THEN "done" ELSE "sleep")
  /\ UNCHANGED <<bucketVars, waitVars>>

\* time.Sleep returns; a timer that is not the last one started quits.
TimerWake(t) ==
  /\ TimerStep(t, "sleep", IF timerId # t THEN "done" ELSE "refill")
  /\ UNCHANGED <<bucketVars, waitVars>>

\* Mutant: adds the tokens to what is left.
TimerRefill_Add(t) ==
  /\ TimerStep(t, "refill", "close")
  /\ currentThreshold' = currentThreshold + Threshold
  /\ filled' = Threshold /\ granted' = 0
  /\ UNCHANGED waitVars

TimerRefill(t) ==
  /\ TimerStep(t, "refill", "close")
  /\ currentThreshold' = Threshold
  /\ filled' = Threshold /\ granted' = 0
  /\ UNCHANGED waitVars

\* Mutant: replaces the channel without closing it.
TimerClose_NoClose(t) ==
  /\ TimerStep(t, "close", "make")
  /\ UNCHANGED <<bucketVars, waitVars>>

TimerClose(t) == TimerStep(t, "close", "make") /\ CloseChannel /\ UNCHANGED bucketVars

TimerMake(t) ==
  /\ TimerStep(t, "make", "check")
  /\ chanClosed' = FALSE
  /\ UNCHANGED <<bucketVars, user, panic>>

Timer(t) == TimerCheck(t) \/ TimerWake(t) \/ TimerRefill(t) \/ TimerClose(t) \/ TimerMake(t)

-----------------------------------------------------------------------------
(* Acquire *)

Acquire(u) == Take(u) /\ UNCHANGED timerVars
ReadChannel(u) == Wait(u) /\ UNCHANGED timerVars
Return(u) == Leave(u) /\ UNCHANGED timerVars

-----------------------------------------------------------------------------
Next ==
  \/ Start \/ Stop
  \/ \E t \in Timers : Timer(t)
  \/ \E u \in Users : Acquire(u) \/ ReadChannel(u) \/ Return(u)

Spec == Init /\ [][Next]_vars

\* Timers run when they can and sleeps end; a call of Acquire that can go on
\* goes on.  No one has to call Start, Stop or Acquire.
Fairness ==
  /\ \A t \in Timers : WF_vars(Timer(t))
  /\ \A u \in Users : WF_vars(ReadChannel(u) \/ Return(u))

FairSpec == Spec /\ Fairness

-----------------------------------------------------------------------------
(* Properties *)

\* Types of the fields of the limiter and of where its goroutines are.
TypeOK ==
  /\ currentThreshold \in Int /\ timerId \in 0..MaxStarts
  /\ timers \in [Timers -> {"none", "check", "sleep", "refill", "close", "make", "done"}]
  /\ quit \subseteq Timers /\ started \in BOOLEAN /\ chanClosed \in BOOLEAN
  /\ user \in [Users -> {"idle", "denied", "waiting", "released"}]
  /\ panic \in BOOLEAN /\ granted \in Nat /\ filled \in Nat

\* A limiter that is started once never closes a channel twice.  After a restart
\* it may: a timer of the first Start that was delayed between its look at timerId
\* and the close closes the channel that the new timer has just closed.
StartedOnceNeverPanics == timerId < 2 => ~panic
==============================================================================
