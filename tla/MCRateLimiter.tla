---------------------------- MODULE MCRateLimiter ----------------------------
(***************************************************************************)
(* Both limiters in one run: a program has either, and they share the      *)
(* bucket, the channel and the callers of Acquire.                         *)
(***************************************************************************)
EXTENDS RampUpRateLimiter

CONSTANT RampUpWaiters  \* bound: callers of a ramp-up limiter that may find it empty

VARIABLES
  kind,            \* which limiter it is: "stable", "rampUp"
  timers, started  \* variables of StableRateLimiter

Stable == INSTANCE StableRateLimiter

stableOnly == <<timers, started>>
rampUpOnly == <<nextThreshold, buckets, updaters, computed, caller>>
MCVars == <<kind, stableOnly, vars>>

MCInit ==
  \/ /\ kind = "stable" /\ Stable!Init
     /\ nextThreshold = 0 /\ buckets = timers /\ updaters = timers
     /\ computed = [t \in Timers |-> 0] /\ caller = "stopped"
  \/ /\ kind = "rampUp" /\ Init
     /\ timers = buckets /\ started = FALSE

MCNext ==
  \/ kind = "stable" /\ Stable!Next /\ UNCHANGED <<kind, rampUpOnly>>
  \/ /\ kind = "rampUp" /\ Next /\ UNCHANGED <<kind, stableOnly>>
     /\ \A u \in Users \ RampUpWaiters : user'[u] = "idle"

\* The fairness of each limiter; the steps of the other are never enabled, and those
\* of Acquire are the same.
FairMC == MCInit /\ [][MCNext]_MCVars /\ Fairness /\ Stable!Fairness

-----------------------------------------------------------------------------
(* Properties *)

\* Start has returned and Stop has not been called.
Started == IF kind = "stable" THEN started ELSE caller = "started"

\* A caller who finds the bucket of either limiter empty gets out of Acquire, also if
\* the timer refills between its decrement and its read of broadcastChannel, unless
\* the limiter is stopped.
WaiterReleased ==
  \A u \in Users : (user[u] \in {"denied", "waiting"}) ~> (user[u] = "idle" \/ ~Started \/ panic)
==============================================================================
