----------------------------- MODULE LocalRunner -----------------------------
(***************************************************************************)
(* Standalone mode: localRunner.run with the goroutine that hands reports  *)
(* to the outputs, either spawner with its users, the goroutine of         *)
(* requestStats as far as it reports, and the caller of Boomer.Stop and    *)
(* Boomer.Quit.                                                            *)
(*                                                                         *)
(* A report is only counted here; what it says is the subject of module    *)
(* RequestStats.  Of the rate limiter it matters who waits in Acquire and  *)
(* that its timer may refill the bucket until it has seen the Stop.        *)
(***************************************************************************)
EXTENDS Integers, FiniteSets

CONSTANTS
  Users,       \* goroutines of the users; there are r.spawnCount of them
  Outputs,     \* r.outputs
  ChanCap,     \* capacity of messageToRunnerChan
  MaxReports   \* bound: reports made

ASSUME LocalAssumption ==
  /\ IsFiniteSet(Users) /\ Users # {}
  /\ ChanCap \in Nat \ {0} /\ MaxReports \in Nat

VARIABLES
  isOldSpawnWorker, rateLimitEnabled,  \* options of the runner
  main,       \* where localRunner.run is: "outputs", "limiter", "spawn", "wait", "returned"
  quitCall,   \* where Boomer.Quit is: "no", "event", "statsClosed", "limiterStopped", "done"
  stopChan,   \* r.stopChan: "nil", "open", "closed"
  numClients, \* r.numClients
  spawner,    \* where the spawner is: "none", "check", "submit", "count", "done"
  user,       \* user[u]: where the goroutine of user u is
  limiter,    \* its timer: "off", "on", "closing" (Stop was called), "stopped"
  stats,      \* where the stats goroutine is: "select", "send", "exited"
  produced,   \* reports it made
  queue,      \* reports in messageToRunnerChan
  reporter,   \* the goroutine of run: "none", "select", "event", "done", "stop", "exited"
  taken,      \* reports it took
  wgDone,     \* has it called wg.Done()?
  out,        \* out[o]: the call output o is in: "none", "start", "event", "stop"
  seen,       \* seen[o]: calls of OnEvent that returned
  ended,      \* outputs whose OnStop returned
  panic       \* a nil channel was closed

userVars == <<stopChan, numClients, spawner, user>>
statsVars == <<stats, produced>>
reportVars == <<queue, reporter, taken, wgDone, out, seen, ended>>
options == <<isOldSpawnWorker, rateLimitEnabled>>
vars == <<options, main, quitCall, userVars, limiter, statsVars, reportVars, panic>>

Down == quitCall = "done"  \* r.shutdownChan is closed
Quitting == stopChan = "closed" \/ Down
Call(name) == [o \in Outputs |-> name]

Init ==
  /\ isOldSpawnWorker \in BOOLEAN /\ rateLimitEnabled \in BOOLEAN
  /\ main = "outputs" /\ quitCall = "no" /\ stopChan = "nil" /\ numClients = 0
  /\ spawner = "none" /\ user = [u \in Users |-> "none"] /\ limiter = "off"
  /\ stats = "select" /\ produced = 0 /\ queue = 0 /\ reporter = "none" /\ taken = 0
  /\ wgDone = FALSE /\ out = Call("start") /\ seen = [o \in Outputs |-> 0]
  /\ ended = {} /\ panic = FALSE

-----------------------------------------------------------------------------
(* The outputs: each call runs in a goroutine of its own, and outputOnStart, *)
(* outputOnEevent and outputOnStop wait for all of them.                     *)

OutputReturns(o) ==
  /\ ~panic /\ out[o] # "none"
  /\ out' = [out EXCEPT ![o] = "none"]
  /\ seen' = IF out[o] = "event" THEN [seen EXCEPT ![o] = @ + 1] ELSE seen
  /\ ended' = IF out[o] = "stop" THEN ended \cup {o} ELSE ended
  /\ UNCHANGED <<options, main, quitCall, userVars, limiter, statsVars, queue, reporter, taken,
                 wgDone, panic>>

AllReturned == out = Call("none")

-----------------------------------------------------------------------------
(* localRunner.run *)

MainStep(from, to) ==
  /\ ~panic /\ main = from /\ main' = to
  /\ UNCHANGED <<options, quitCall, statsVars, queue, taken, wgDone, out, seen, ended, panic>>

\* outputOnStart is over; the goroutine that reports is launched.
LaunchReporter ==
  /\ MainStep("outputs", "limiter") /\ AllReturned
  /\ reporter' = "select"
  /\ UNCHANGED <<userVars, limiter>>

StartLimiter ==
  /\ MainStep("limiter", "spawn")
  /\ limiter' = IF rateLimitEnabled THEN "on" ELSE limiter
  /\ UNCHANGED <<userVars, reporter>>

\* Mutant: the spawner is launched with the channel the runner had before.
StartSpawning_NoChan ==
  /\ MainStep("spawn", "wait")
  /\ numClients' = 0 /\ spawner' = "check"
  /\ UNCHANGED <<stopChan, user, limiter, reporter>>

StartSpawning ==
  /\ MainStep("spawn", "wait")
  /\ stopChan' = "open" /\ numClients' = 0 /\ spawner' = "check"
  /\ UNCHANGED <<user, limiter, reporter>>

WaitReturns ==
  /\ MainStep("wait", "returned") /\ wgDone
  /\ UNCHANGED <<userVars, limiter, reporter>>

Main == LaunchReporter \/ StartLimiter \/ StartSpawning \/ WaitReturns

-----------------------------------------------------------------------------
(* The goroutine of run that takes the reports. *)

ReporterStep(from, to) ==
  /\ ~panic /\ reporter = from /\ reporter' = to
  /\ UNCHANGED <<options, main, quitCall, userVars, limiter, statsVars, seen, ended, panic>>

TakeReport ==
  /\ ReporterStep("select", "event") /\ queue > 0
  /\ queue' = queue - 1 /\ taken' = taken + 1
  /\ out' = Call("event")
  /\ UNCHANGED wgDone

\* Mutant: does not wait for the outputs.
EventDone_NoWait ==
  /\ ReporterStep("event", "select")
  /\ UNCHANGED <<queue, taken, wgDone, out>>

EventDone ==
  /\ ReporterStep("event", "select") /\ AllReturned
  /\ UNCHANGED <<queue, taken, wgDone, out>>

\* shutdownChan is closed: EVENT_QUIT is published.
ReporterQuit ==
  /\ ReporterStep("select", "done") /\ Down
  /\ UNCHANGED <<queue, taken, wgDone, out>>

\* wg.Done(), then outputOnStop.
ReporterDone ==
  /\ ReporterStep("done", "stop")
  /\ wgDone' = TRUE
  /\ out' = Call("stop")
  /\ UNCHANGED <<queue, taken>>

ReporterExit ==
  /\ ReporterStep("stop", "exited") /\ AllReturned
  /\ UNCHANGED <<queue, taken, wgDone, out>>

Reporter == TakeReport \/ EventDone \/ ReporterQuit \/ ReporterDone \/ ReporterExit

-----------------------------------------------------------------------------
(* The stats goroutine: a tick makes a report, which then has to find room *)
(* in the channel.                                                         *)

StatsStep(from, to) ==
  /\ ~panic /\ stats = from /\ stats' = to
  /\ UNCHANGED <<options, main, quitCall, userVars, limiter, reporter, taken, wgDone, out, seen,
                 ended, panic>>

StatsTick ==
  /\ StatsStep("select", "send") /\ produced < MaxReports
  /\ produced' = produced + 1
  /\ UNCHANGED queue

StatsSend ==
  /\ StatsStep("send", "select") /\ queue < ChanCap
  /\ queue' = queue + 1
  /\ UNCHANGED produced

\* Mutant: the close is a message that a goroutine busy elsewhere misses.
StatsExit_Missed ==
  /\ StatsStep("select", "exited")
  /\ quitCall = "statsClosed"
  /\ UNCHANGED <<produced, queue>>

StatsExit ==
  /\ StatsStep("select", "exited")
  /\ quitCall \in {"statsClosed", "limiterStopped", "done"}
  /\ UNCHANGED <<produced, queue>>

Stats == StatsTick \/ StatsSend \/ StatsExit

-----------------------------------------------------------------------------
(* The spawners and their users. *)

OnlyUsers == UNCHANGED <<options, main, quitCall, limiter, statsVars, reportVars, panic>>

Spawned == {u \in Users : user[u] # "none"}

\* The select at the head of either loop.  spawnWorkers, whose
\* spawnCompleteFunc is nil here, ends when it has started every user.
SpawnerCheck ==
  /\ ~panic /\ spawner = "check"
  /\ spawner' = IF Quitting \/ (isOldSpawnWorker /\ Spawned = Users) THEN "done"
                ELSE "submit"
  /\ UNCHANGED <<stopChan, numClients, user>> /\ OnlyUsers

\* spawnWorkers starts one user goroutine.
SpawnUser ==
  /\ ~panic /\ isOldSpawnWorker /\ spawner = "submit"
  /\ \E u \in Users \ Spawned : user' = [user EXCEPT ![u] = "check"]
  /\ numClients' = numClients + 1
  /\ spawner' = "check"
  /\ UNCHANGED stopChan /\ OnlyUsers

\* newSpawnWorkers: pool.Submit takes an idle goroutine, a new one while there
\* is room, or waits.
Submit ==
  /\ ~panic /\ ~isOldSpawnWorker /\ spawner = "submit"
  /\ \E u \in Users :
       /\ \/ user[u] = "idle"
          \/ user[u] = "none" /\ \A v \in Users : user[v] # "idle"
       /\ user' = [user EXCEPT ![u] = "task"]
  /\ spawner' = "count"
  /\ UNCHANGED <<stopChan, numClients>> /\ OnlyUsers

CountRunning ==
  /\ ~panic /\ spawner = "count"
  /\ numClients' = Cardinality(Spawned)
  /\ spawner' = "check"
  /\ UNCHANGED <<stopChan, user>> /\ OnlyUsers

Spawner == SpawnerCheck \/ SpawnUser \/ Submit \/ CountRunning

UserStep(u, from, to) ==
  /\ ~panic /\ user[u] = from
  /\ user' = [user EXCEPT ![u] = to]
  /\ UNCHANGED <<stopChan, numClients, spawner>> /\ OnlyUsers

\* Mutant: looks at quit only, not at shutdownChan.
UserCheck_NoShutdown(u) ==
  UserStep(u, "check", IF stopChan = "closed" THEN "gone"
                       ELSE IF rateLimitEnabled THEN "acquire" ELSE "task")

\* The loop of a user of spawnWorkers.
UserCheck(u) ==
  UserStep(u, "check", IF Quitting THEN "gone"
                       ELSE IF rateLimitEnabled THEN "acquire" ELSE "task")

Acquire(u) == \E to \in {"task", "waiting"} : UserStep(u, "acquire", to)

\* safeRun returns.
TaskReturns(u) == UserStep(u, "task", IF isOldSpawnWorker THEN "check" ELSE "idle")

\* The pool purges goroutines that stay idle.
PurgeIdle(u) == UserStep(u, "idle", "none")

\* The timer of the limiter lets everyone who waits return from Acquire.
Refill ==
  /\ ~panic /\ limiter \in {"on", "closing"}
  /\ \E u \in Users : user[u] = "waiting"
  /\ user' = [u \in Users |-> IF user[u] = "waiting" THEN "check" ELSE user[u]]
  /\ UNCHANGED <<stopChan, numClients, spawner>> /\ OnlyUsers

TimerExit ==
  /\ ~panic /\ limiter = "closing"
  /\ limiter' = "stopped"
  /\ UNCHANGED <<options, main, quitCall, userVars, statsVars, reportVars, panic>>

-----------------------------------------------------------------------------
(* The caller.  Stop is called at most once, at any time. *)

Stop ==
  /\ ~panic /\ stopChan # "closed"
  /\ panic' = (stopChan = "nil")
  /\ stopChan' = "closed"
  /\ UNCHANGED <<options, main, quitCall, numClients, spawner, user, limiter, statsVars, reportVars>>

QuitStep(from, to) ==
  /\ ~panic /\ quitCall = from /\ quitCall' = to
  /\ UNCHANGED <<options, main, userVars, statsVars, reportVars>>

\* EVENT_QUIT, then shutdown.
Quit == QuitStep("no", "event") /\ UNCHANGED <<limiter, panic>>

CloseStats == QuitStep("event", "statsClosed") /\ UNCHANGED <<limiter, panic>>

\* A limiter that was never started has no quitChannel to close.
StopLimiter ==
  /\ QuitStep("statsClosed", "limiterStopped")
  /\ panic' = (rateLimitEnabled /\ limiter = "off")
  /\ limiter' = IF rateLimitEnabled THEN "closing" ELSE limiter

CloseShutdownChan == QuitStep("limiterStopped", "done") /\ UNCHANGED <<limiter, panic>>

Shutdown == CloseStats \/ StopLimiter \/ CloseShutdownChan

-----------------------------------------------------------------------------
Next ==
  \/ Main \/ Reporter \/ Stats \/ Spawner
  \/ \E o \in Outputs : OutputReturns(o)
  \/ \E u \in Users : UserCheck(u) \/ Acquire(u) \/ TaskReturns(u) \/ PurgeIdle(u)
  \/ Refill \/ TimerExit
  \/ Stop \/ Quit \/ Shutdown

Spec == Init /\ [][Next]_vars

\* Goroutines that can run are run, every Task.Fn and every output returns and
\* a call of Quit goes on.  No one has to call Stop or Quit, and the pool need
\* not purge.
Fairness ==
  /\ WF_vars(Main) /\ WF_vars(Reporter) /\ WF_vars(Stats) /\ WF_vars(Spawner)
  /\ \A o \in Outputs : WF_vars(OutputReturns(o))
  /\ \A u \in Users : WF_vars(UserCheck(u) \/ Acquire(u) \/ TaskReturns(u))
  /\ WF_vars(Refill) /\ WF_vars(Shutdown)

FairSpec == Spec /\ Fairness

-----------------------------------------------------------------------------
(* Properties *)

\* Types of the fields of localRunner and of where its goroutines are.
TypeOK ==
  /\ isOldSpawnWorker \in BOOLEAN /\ rateLimitEnabled \in BOOLEAN
  /\ main \in {"outputs", "limiter", "spawn", "wait", "returned"}
  /\ quitCall \in {"no", "event", "statsClosed", "limiterStopped", "done"}
  /\ stopChan \in {"nil", "open", "closed"} /\ numClients \in Nat
  /\ spawner \in {"none", "check", "submit", "count", "done"}
  /\ user \in [Users -> {"none", "check", "acquire", "waiting", "task", "idle", "gone"}]
  /\ limiter \in {"off", "on", "closing", "stopped"}
  /\ stats \in {"select", "send", "exited"} /\ produced \in Nat
  /\ queue \in 0..ChanCap /\ taken \in Nat
  /\ reporter \in {"none", "select", "event", "done", "stop", "exited"}
  /\ wgDone \in BOOLEAN /\ out \in [Outputs -> {"none", "start", "event", "stop"}]
  /\ seen \in [Outputs -> Nat] /\ ended \subseteq Outputs /\ panic \in BOOLEAN

\* The outputs go through the reports together: each has seen every report but
\* the one being handed out, and OnStop comes after all of them.
OutputsInStep ==
  \A o \in Outputs :
    /\ seen[o] = IF out[o] = "event" THEN taken - 1 ELSE taken
    /\ out[o] = "event" => reporter = "event"
    /\ out[o] = "stop" \/ o \in ended => reporter \in {"stop", "exited"}

\* Stop and Quit close nil channels only if they overtake the start of run.
PanicsOnlyDuringStart == panic => main \in {"outputs", "limiter", "spawn"}

\* Once stopChan or shutdownChan is closed the spawner ends, and every user as its
\* task returns (a pool goroutine becomes idle).  Only who waits for a bucket when
\* the timer of the limiter ends waits for ever.  The comments on the two channels
\* promise it without that exception, which ShutdownStopsWorkers refutes.
UsersDrainOrWait ==
  (Quitting /\ main = "wait") ~>
    \/ panic
    \/ /\ spawner = "done"
       /\ \A u \in Users : \/ user[u] \in {"none", "idle", "gone"}
                           \/ user[u] = "waiting" /\ limiter = "stopped"

\* Closing shutdownChan stops all running workers, as its comment promises: the
\* spawner and every goroutine of a user.
ShutdownStopsWorkers ==
  Down ~>
    panic \/ (spawner = "done" /\ \A u \in Users : user[u] \in {"none", "idle", "gone"})

\* Closing the stats ends their goroutine, unless it holds a report for a full
\* channel that the goroutine of run has stopped reading.
StatsGoroutineEnds ==
  Down ~>
    \/ stats = "exited" \/ panic
    \/ stats = "send" /\ queue = ChanCap /\ reporter \in {"done", "stop", "exited"}
==============================================================================
