------------------------------ MODULE TokenBucket ------------------------------
(***************************************************************************)
(* What both rate limiters have: a bucket of tokens that a timer goroutine *)
(* fills again and again, the users that call Acquire, and the channel on  *)
(* which they wait when the bucket is empty.                               *)
(*                                                                         *)
(* A user waits on the channel it reads from limiter.broadcastChannel; the *)
(* timer closes that channel at each fill and installs a new one.  Only    *)
(* the installed channel can be open, so a user waits on it or has been    *)
(* released by its closing.                                                *)
(***************************************************************************)
EXTENDS Integers

CONSTANTS
  Users,         \* goroutines that call Acquire
  MaxThreshold,  \* limiter.maxThreshold; limiter.threshold of a StableRateLimiter
  MaxStarts,     \* bound: calls of Start
  MaxDebt        \* bound: how far below zero currentThreshold goes

ASSUME BucketAssumption ==
  MaxThreshold \in Nat /\ MaxStarts \in Nat /\ MaxDebt \in Nat

VARIABLES
  currentThreshold, timerId,
  quit,        \* the Starts whose quitChannel is closed
  chanClosed,  \* is limiter.broadcastChannel closed (and not yet replaced)?
  user,        \* user[u]: where u is in Acquire
  panic,       \* a closed channel was closed again
  granted,     \* history: calls of Acquire that returned false since the last fill
  filled       \* history: the tokens of the last fill

bucketVars == <<currentThreshold, granted, filled>>
waitVars == <<chanClosed, user, panic>>

Timers == 1..MaxStarts

-----------------------------------------------------------------------------
(* Acquire: an atomic decrement, then, if it went below zero, the read of  *)
(* broadcastChannel and the wait on what was read.                         *)

Take(u) ==
  /\ ~panic /\ user[u] = "idle" /\ currentThreshold > -MaxDebt
  /\ currentThreshold' = currentThreshold - 1
  /\ \/ currentThreshold < 1 /\ user' = [user EXCEPT ![u] = "denied"] /\ UNCHANGED granted
     \/ currentThreshold >= 1 /\ granted' = granted + 1 /\ UNCHANGED user
  /\ UNCHANGED <<filled, chanClosed, panic>>

Wait(u) ==
  /\ ~panic /\ user[u] = "denied"
  /\ user' = [user EXCEPT ![u] = IF chanClosed THEN "released" ELSE "waiting"]
  /\ UNCHANGED <<bucketVars, chanClosed, panic>>

Leave(u) ==
  /\ ~panic /\ user[u] = "released"
  /\ user' = [user EXCEPT ![u] = "idle"]
  /\ UNCHANGED <<bucketVars, chanClosed, panic>>

\* close(limiter.broadcastChannel): everyone who waits is released at once.
CloseChannel ==
  /\ panic' = chanClosed
  /\ chanClosed' = TRUE
  /\ user' = [u \in Users |-> IF user[u] = "waiting" THEN "released" ELSE user[u]]

-----------------------------------------------------------------------------
(* Properties *)

\* No burst: what was granted since the last fill and what is left make up that
\* fill, however callers interleave with the timers and across restarts; and a fill
\* never exceeds MaxThreshold, even when a step of the ramp overflows int64.
NoBurst ==
  /\ filled \in 0..MaxThreshold
  /\ granted = IF currentThreshold >= 0 THEN filled - currentThreshold ELSE filled
================================================================================
