--------------------------- MODULE WorkerLifecycle ---------------------------
(***************************************************************************)
(* What a worker promises the master about the load it generates,          *)
(* whatever messages, goroutines and channels bring it about: loads are    *)
(* numbered in the order in which they start, a load runs until it is      *)
(* stopped, the next one starts only after that, and a stopped load never  *)
(* runs again.  A load that is accepted may turn out to be out of date and *)
(* not start; the worker then takes itself for active with no load.        *)
(***************************************************************************)
EXTENDS Naturals

VARIABLES
  phase,    \* "idle", "starting" (a load is accepted), "active"
  started,  \* loads started so far
  stopped   \* loads that were told to stop

lifecycleVars == <<phase, started, stopped>>

LifecycleInit == phase = "idle" /\ started = 0 /\ stopped = {}

Accept ==
  /\ phase = "idle" /\ phase' = "starting"
  /\ UNCHANGED <<started, stopped>>

Start ==
  /\ phase = "starting" /\ phase' = "active"
  /\ started' = started + 1
  /\ UNCHANGED stopped

Discard ==
  /\ phase = "starting" /\ phase' = "active"
  /\ UNCHANGED <<started, stopped>>

Replace ==
  /\ phase = "active" /\ phase' = "starting"
  /\ stopped' = stopped \cup {started}
  /\ UNCHANGED started

Halt ==
  /\ phase = "active" /\ phase' = "idle"
  /\ stopped' = stopped \cup {started}
  /\ UNCHANGED started

LifecycleNext == Accept \/ Start \/ Discard \/ Replace \/ Halt

LifecycleSpec == LifecycleInit /\ [][LifecycleNext]_lifecycleVars
==============================================================================
