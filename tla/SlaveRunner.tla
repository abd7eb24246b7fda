----------------------------- MODULE SlaveRunner -----------------------------
(***************************************************************************)
(* The worker side of the master/worker protocol: slaveRunner's listener   *)
(* (onMessage), the spawner and user goroutines that startSpawning creates *)
(* for each spawn message, and Boomer.Quit's shutdown.                     *)
(*                                                                         *)
(* Every startSpawning makes a new stopChan.  Generation g is the g-th     *)
(* stopChan with the spawner goroutine and the users that select on it;    *)
(* r.stopChan is the channel of the last generation, nil before the first. *)
(*                                                                         *)
(* The two FIFOs stand for the client's channels together with the socket, *)
(* and what is under way when the client is closed may still arrive.  Each *)
(* send of the listener is a step of its own that may come at any later    *)
(* time, as when it waits for room in toMaster; that the wait may never    *)
(* end is the subject of module Client.                                    *)
(*                                                                         *)
(* Boomer sets isOldSpawnWorker for the localRunner only, so a worker      *)
(* always spawns with newSpawnWorkers, whose loop ends by return alone:    *)
(* the call of spawnCompleteFunc after it is never reached, and with it    *)
(* neither spawning_complete nor stateRunning.                             *)
(*                                                                         *)
(* The locust master and the ants pool are not part of the repository and  *)
(* are modelled from how the code uses them.                               *)
(***************************************************************************)
EXTENDS Integers, Sequences

CONSTANTS
  Timestamps,  \* what timestamps spawn messages carry: "fresh", "old", "none"
  UserTotals,  \* totals of user_classes_count a spawn message may carry
  MaxPool,     \* bound: goroutines in a pool that has no capacity
  MaxSent      \* bound: spawn and custom messages the master sends

ASSUME ConfigAssumption ==
  /\ Timestamps \subseteq {"fresh", "old", "none"}
  /\ UserTotals \subseteq Nat
  /\ MaxPool \in Nat \ {0}
  /\ MaxSent \in Nat

VARIABLES
  \* fields of slaveRunner
  state,        \* r.state
  numClients,   \* r.numClients
  lastSpawnTs,  \* r.lastReceivedSpawnTimestamp
  waitForAck,   \* counter of r.waitForAck
  gens,         \* gens[g]: spawner and users of generation g
  closed,       \* generations whose stopChan is closed
  quitCall,     \* how far a call of Boomer.Quit is: "no", "sent", "statsClosed", "done"
  \* goroutines
  listener,     \* where the listener is: "select", the step of onMessage it does
                \* next, or "exited"
  msg,          \* the spawn message it handles
  statsUp,      \* does the stats goroutine still serve clearStatsChan?
  panic,        \* "no", or the Go runtime error that ended the process
  discarded,    \* history: has a spawn message been discarded?
  \* channels, with the connection behind them
  fromMaster, toMaster,
  \* the master
  view,         \* what the master knows of this worker
  clock,        \* largest timestamp it has put into a spawn message
  sent          \* spawn and custom messages it has sent, for the bound

runnerVars == <<state, numClients, lastSpawnTs, waitForAck, gens, closed, quitCall>>
routineVars == <<listener, msg, statsUp, panic, discarded>>
masterVars == <<view, clock, sent>>
vars == <<runnerVars, routineVars, fromMaster, toMaster, masterVars>>

stateInit     == "ready"
stateSpawning == "spawning"
stateRunning  == "running"
stateStopped  == "stopped"

Active == {stateSpawning, stateRunning}

\* A spawn message without a timestamp, or with one castToInt64 rejects.
NoTimestamp == -1

\* A message as the listener sees it.
Message == [type : {"ack", "spawn", "stop", "quit", "custom"}, users : Nat, ts : Int]

Msg(type) == [type |-> type, users |-> 0, ts |-> NoTimestamp]

\* What the worker sends, apart from stats and heartbeats.
Replies == {"client_ready", "spawning", "client_stopped", "quit"}

Generation == [pc : {"check", "submit", "count", "done"},
               size : Nat, busy : Nat, running : Nat]

Gens == DOMAIN gens
Current == Len(gens)
StopChanOpen == Current > 0 /\ Current \notin closed
Down == quitCall = "done"  \* r.shutdownChan is closed
Quitting(g) == g \in closed \/ Down
Alive == panic = "no"

Init ==
  /\ state = stateInit /\ numClients = 0 /\ lastSpawnTs = 0
  /\ waitForAck = 1 /\ toMaster = <<"client_ready">>
  /\ gens = << >> /\ closed = {} /\ quitCall = "no"
  /\ listener = "select" /\ msg = Msg("spawn") /\ statsUp = TRUE
  /\ panic = "no" /\ discarded = FALSE /\ fromMaster = << >>
  /\ view = "unknown" /\ clock = 0 /\ sent = 0

-----------------------------------------------------------------------------
(* The listener: r.onMessage, one action per case of its switch and, after  *)
(* it, one per step that has to wait for someone else.                      *)

Receive(types) ==
  /\ Alive /\ listener = "select"
  /\ fromMaster # << >>
  /\ Head(fromMaster).type \in types
  /\ fromMaster' = Tail(fromMaster)

Continue(from, to) ==
  /\ Alive /\ listener = from /\ listener' = to
  /\ UNCHANGED <<closed, quitCall, msg, statsUp, panic, fromMaster, masterVars>>

\* r.stop(): closing a nil or a closed channel is a runtime panic.
Stop ==
  /\ closed' = closed \cup {Current}
  /\ panic' = IF StopChanOpen THEN panic ELSE "close"

StartSpawning(users) ==
  /\ gens' = Append(gens, [pc |-> "check", size |-> users, busy |-> 0, running |-> 0])
  /\ numClients' = 0

Reply(m) == toMaster' = Append(toMaster, m)

\* The handler of EVENT_QUIT; r.state is never stateQuitting.
OnQuiting == Reply("quit")

\* WaitGroup.Done below zero is a runtime panic.
OnAck ==
  /\ state = stateInit /\ Receive({"ack"})
  /\ waitForAck' = waitForAck - 1
  /\ panic' = IF waitForAck = 0 THEN "ack" ELSE panic
  /\ UNCHANGED <<state, numClients, lastSpawnTs, gens, closed, quitCall, listener,
                 msg, statsUp, discarded, toMaster, masterVars>>

\* spawn while no load runs: the stats are cleared first.
OnSpawnWhenReady ==
  /\ state \notin Active /\ Receive({"spawn"})
  /\ state' = stateSpawning
  /\ listener' = "clearStats" /\ msg' = Head(fromMaster)
  /\ UNCHANGED <<numClients, lastSpawnTs, waitForAck, gens, closed, quitCall,
                 statsUp, panic, discarded, toMaster, masterVars>>

\* The stats goroutine takes the request to clear.
ClearStats ==
  /\ statsUp /\ Continue("clearStats", "onSpawn")
  /\ UNCHANGED <<state, numClients, lastSpawnTs, waitForAck, gens, discarded, toMaster>>

\* Mutant: starts the new load without stopping the previous one.
OnSpawnWhenActive_NoStop ==
  /\ state \in Active /\ Receive({"spawn"})
  /\ state' = stateSpawning
  /\ listener' = "onSpawn" /\ msg' = Head(fromMaster)
  /\ UNCHANGED <<closed, panic, numClients, lastSpawnTs, waitForAck, gens, quitCall, statsUp,
                 discarded, toMaster, masterVars>>

OnSpawnWhenActive ==
  /\ state \in Active /\ Receive({"spawn"})
  /\ state' = stateSpawning
  /\ Stop
  /\ listener' = "onSpawn" /\ msg' = Head(fromMaster)
  /\ UNCHANGED <<numClients, lastSpawnTs, waitForAck, gens, quitCall, statsUp, discarded,
                 toMaster, masterVars>>

Stale(m) == m.ts # NoTimestamp /\ m.ts <= lastSpawnTs

OnSpawnMessage ==
  /\ Continue("onSpawn", "select")
  /\ \/ /\ Stale(msg)
        /\ discarded' = TRUE
        /\ UNCHANGED <<lastSpawnTs, toMaster, gens, numClients>>
     \/ /\ ~Stale(msg)
        /\ lastSpawnTs' = IF msg.ts = NoTimestamp THEN lastSpawnTs ELSE msg.ts
        /\ Reply("spawning") /\ StartSpawning(msg.users)
        /\ UNCHANGED discarded
  /\ UNCHANGED <<state, waitForAck>>

\* Mutant: no r.stop().
OnStop_NoStop ==
  /\ state \in Active /\ Receive({"stop"})
  /\ state' = stateStopped /\ listener' = "sendStopped"
  /\ UNCHANGED <<closed, panic, numClients, lastSpawnTs, waitForAck, gens, quitCall, msg,
                 statsUp, discarded, toMaster, masterVars>>

OnStop ==
  /\ state \in Active /\ Receive({"stop"})
  /\ Stop
  /\ state' = stateStopped /\ listener' = "sendStopped"
  /\ UNCHANGED <<numClients, lastSpawnTs, waitForAck, gens, quitCall, msg, statsUp, discarded,
                 toMaster, masterVars>>

\* Mutant: the stop is not answered.
SendClientStopped_Skip ==
  /\ Continue("sendStopped", "sendReady")
  /\ UNCHANGED <<state, numClients, lastSpawnTs, waitForAck, gens, discarded, toMaster>>

SendClientStopped ==
  /\ Continue("sendStopped", "sendReady")
  /\ Reply("client_stopped")
  /\ UNCHANGED <<state, numClients, lastSpawnTs, waitForAck, gens, discarded>>

\* Mutant: waitForAck is not set again.
SendClientReadyAndWaitForAck_NoAdd ==
  /\ Continue("sendReady", "setInit")
  /\ Reply("client_ready")
  /\ UNCHANGED <<state, numClients, lastSpawnTs, waitForAck, gens, discarded>>

SendClientReadyAndWaitForAck ==
  /\ Continue("sendReady", "setInit")
  /\ waitForAck' = 1
  /\ Reply("client_ready")
  /\ UNCHANGED <<state, numClients, lastSpawnTs, gens, discarded>>

\* Mutant: stays in stateStopped.
BecomeReady_NoReset ==
  /\ Continue("setInit", "select")
  /\ UNCHANGED <<state, numClients, lastSpawnTs, waitForAck, gens, discarded, toMaster>>

\* The last step of the answer to stop: the master may have heard of client_ready.
BecomeReady ==
  /\ Continue("setInit", "select")
  /\ state' = stateInit
  /\ UNCHANGED <<numClients, lastSpawnTs, waitForAck, gens, discarded, toMaster>>

OnQuit ==
  /\ Receive({"quit"})
  /\ \/ state \in Active /\ Stop
     \/ state \notin Active /\ UNCHANGED <<closed, panic>>
  /\ listener' = "publishQuit"
  /\ UNCHANGED <<state, numClients, lastSpawnTs, waitForAck, gens, quitCall, msg, statsUp,
                 discarded, toMaster, masterVars>>

\* Mutant: enters stateQuitting, a state that onMessage has no case for.
PublishQuit_Quitting ==
  /\ Continue("publishQuit", "select")
  /\ OnQuiting
  /\ state' = "quitting"
  /\ UNCHANGED <<numClients, lastSpawnTs, waitForAck, gens, discarded>>

\* Mutant: r.state is left as it was.
PublishQuit_NoReset ==
  /\ Continue("publishQuit", "select")
  /\ OnQuiting
  /\ UNCHANGED <<state, numClients, lastSpawnTs, waitForAck, gens, discarded>>

\* EVENT_QUIT runs onQuiting.
PublishQuit ==
  /\ Continue("publishQuit", "select")
  /\ OnQuiting
  /\ state' = stateInit
  /\ UNCHANGED <<numClients, lastSpawnTs, waitForAck, gens, discarded>>

\* What the case for the current state does not name goes to onCustomMessage,
\* which at most hands it to the subscribers of Events.
OnCustomMessage ==
  /\ Receive({"custom"} \cup (IF state = stateInit THEN {} ELSE {"ack"})
                        \cup (IF state \in Active THEN {} ELSE {"stop"}))
  /\ UNCHANGED <<runnerVars, routineVars, toMaster, masterVars>>

ListenerExit ==
  /\ Down /\ Continue("select", "exited")
  /\ UNCHANGED <<state, numClients, lastSpawnTs, waitForAck, gens, discarded, toMaster>>

Listener ==
  \/ OnAck \/ OnSpawnWhenReady \/ ClearStats \/ OnSpawnWhenActive \/ OnSpawnMessage
  \/ OnStop \/ SendClientStopped \/ SendClientReadyAndWaitForAck \/ BecomeReady
  \/ OnQuit \/ PublishQuit \/ OnCustomMessage \/ ListenerExit

-----------------------------------------------------------------------------
(* The spawner of generation g: newSpawnWorkers over an ants pool. *)

SpawnerStep(g, from, to) ==
  /\ Alive /\ gens[g].pc = from
  /\ gens' = [gens EXCEPT ![g].pc = to]

OnlyGens == UNCHANGED <<state, numClients, lastSpawnTs, waitForAck, closed, quitCall,
                        routineVars, fromMaster, toMaster, masterVars>>

\* Mutant: the loop of newSpawnWorkers does not look at quit.
SpawnerCheck_NoQuit(g) ==
  /\ SpawnerStep(g, "check", IF Down THEN "done" ELSE "submit")
  /\ OnlyGens

\* The select at the head of the loop.
SpawnerCheck(g) ==
  /\ SpawnerStep(g, "check", IF Quitting(g) THEN "done" ELSE "submit")
  /\ OnlyGens

\* ants.NewPool reads a capacity of zero as no capacity.
PoolCap(g) == IF gens[g].size = 0 THEN MaxPool ELSE gens[g].size

\* pool.Submit: an idle goroutine, a new one while there is room, or wait.
Submit(g) ==
  /\ Alive /\ gens[g].pc = "submit"
  /\ \/ gens[g].busy < gens[g].running
     \/ gens[g].running < PoolCap(g)
  /\ gens' = [gens EXCEPT ![g].pc = "count", ![g].busy = @ + 1,
                ![g].running = IF gens[g].busy < @ THEN @ ELSE @ + 1]
  /\ OnlyGens

CountRunning(g) ==
  /\ SpawnerStep(g, "count", "check")
  /\ numClients' = gens[g].running
  /\ UNCHANGED <<state, lastSpawnTs, waitForAck, closed, quitCall, routineVars,
                 fromMaster, toMaster, masterVars>>

\* safeRun returns and its pool goroutine becomes idle.
TaskReturns(g) ==
  /\ Alive /\ gens[g].busy > 0
  /\ gens' = [gens EXCEPT ![g].busy = @ - 1]
  /\ OnlyGens

\* The pool purges goroutines that stay idle.
PurgeIdle(g) ==
  /\ Alive /\ gens[g].busy < gens[g].running
  /\ gens' = [gens EXCEPT ![g].running = @ - 1]
  /\ OnlyGens

Spawner(g) == SpawnerCheck(g) \/ Submit(g) \/ CountRunning(g)

-----------------------------------------------------------------------------
(* Boomer.Quit and the goroutine of requestStats. *)

\* EVENT_QUIT runs onQuiting.  Quit then waits until the client has sent the
\* message, or for three seconds, and calls shutdown, which closes the stats
\* before shutdownChan.
QuitStep(from, to) ==
  /\ Alive /\ quitCall = from
  /\ quitCall' = to
  /\ UNCHANGED <<state, numClients, lastSpawnTs, waitForAck, gens, closed,
                 routineVars, fromMaster, masterVars>>

Quit == QuitStep("no", "sent") /\ OnQuiting

CloseStats == QuitStep("sent", "statsClosed") /\ UNCHANGED toMaster

CloseShutdownChan == QuitStep("statsClosed", "done") /\ UNCHANGED toMaster

StatsExit ==
  /\ Alive /\ quitCall \in {"statsClosed", "done"} /\ statsUp
  /\ statsUp' = FALSE
  /\ UNCHANGED <<runnerVars, listener, msg, panic, discarded, fromMaster, toMaster,
                 masterVars>>

Shutdown == Quit \/ CloseStats \/ CloseShutdownChan \/ StatsExit

-----------------------------------------------------------------------------
(* The master.  It answers every client_ready with one ack, spawns only on *)
(* a worker that is ready, stops only a worker it has spawned on, and then *)
(* waits for it to become ready again.                                     *)

Send(m) == fromMaster' = Append(fromMaster, m)

OnlyMaster == UNCHANGED <<runnerVars, routineVars, toMaster>>

Age(ts) == IF ts = NoTimestamp THEN "none" ELSE IF ts > clock THEN "fresh" ELSE "old"

\* The timestamps that spawn messages carry increase.
FreshTimestamps == "old" \notin Timestamps

MasterSpawn ==
  /\ Alive /\ view \in {"ready", "active"} /\ sent < MaxSent
  /\ \E users \in UserTotals,
        ts \in {t \in {NoTimestamp} \cup 1..(clock + 1) : Age(t) \in Timestamps} :
       /\ Send([type |-> "spawn", users |-> users, ts |-> ts])
       /\ clock' = IF ts > clock THEN ts ELSE clock
  /\ view' = "active"
  /\ sent' = sent + 1
  /\ OnlyMaster

MasterStop ==
  /\ Alive /\ view = "active"
  /\ Send(Msg("stop"))
  /\ view' = "stopping"
  /\ OnlyMaster /\ UNCHANGED <<clock, sent>>

MasterQuit ==
  /\ Alive /\ view \in {"ready", "active", "stopping"}
  /\ Send(Msg("quit"))
  /\ view' = "gone"
  /\ OnlyMaster /\ UNCHANGED <<clock, sent>>

MasterCustom ==
  /\ Alive /\ view \in {"ready", "active", "stopping"} /\ sent < MaxSent
  /\ Send(Msg("custom"))
  /\ sent' = sent + 1
  /\ OnlyMaster /\ UNCHANGED <<view, clock>>

MasterReceive ==
  /\ Alive /\ toMaster # << >>
  /\ toMaster' = Tail(toMaster)
  /\ LET m == Head(toMaster) IN
       \/ /\ m = "client_ready" /\ view \in {"unknown", "stopping"}
          /\ Send(Msg("ack"))
          /\ view' = "ready"
       \/ /\ ~(m = "client_ready" /\ view \in {"unknown", "stopping"})
          /\ view' = IF m = "quit" THEN "gone" ELSE view
          /\ UNCHANGED fromMaster
  /\ UNCHANGED <<runnerVars, routineVars, clock, sent>>

Master == MasterSpawn \/ MasterStop \/ MasterQuit \/ MasterCustom \/ MasterReceive

-----------------------------------------------------------------------------
Next ==
  \/ Listener
  \/ \E g \in Gens : Spawner(g) \/ TaskReturns(g) \/ PurgeIdle(g)
  \/ Shutdown
  \/ Master

Spec == Init /\ [][Next]_vars

\* Goroutines that can run are run, and every Task.Fn returns.  Nothing is
\* assumed of the master or of the user who may call Quit.
Fairness ==
  /\ WF_vars(Listener)
  /\ WF_vars(CloseStats \/ CloseShutdownChan)
  /\ \A g \in 1..MaxSent :
       /\ WF_vars(g \in Gens /\ Spawner(g))
       /\ WF_vars(g \in Gens /\ TaskReturns(g))

FairSpec == Spec /\ Fairness

-----------------------------------------------------------------------------
(* Properties *)

\* Types of the fields of slaveRunner, of its goroutines and of the messages.
TypeOK ==
  /\ state \in {stateInit, stateSpawning, stateRunning, stateStopped}
  /\ numClients \in Nat /\ lastSpawnTs \in Nat
  /\ waitForAck \in Int
  /\ gens \in Seq(Generation) /\ closed \subseteq Nat
  /\ quitCall \in {"no", "sent", "statsClosed", "done"}
  /\ listener \in {"select", "clearStats", "onSpawn", "sendStopped", "sendReady", "setInit",
                   "publishQuit", "exited"}
  /\ msg \in Message /\ statsUp \in BOOLEAN
  /\ panic \in {"no", "close", "ack"} /\ discarded \in BOOLEAN
  /\ fromMaster \in Seq(Message)
  /\ toMaster \in Seq(Replies)
  /\ view \in {"unknown", "ready", "active", "stopping", "gone"}
  /\ clock \in Nat /\ sent \in Nat

\* r.stop() never closes a stopChan twice and never closes a nil one: the
\* listener reaches it only while the last stopChan is open.
NoDoubleClose == panic # "close"

\* waitForAck.Done() never takes the counter below zero: no ack arrives that
\* answers no client_ready since the counter was last set.
NoNegativeAck == panic # "ack"

\* Where the messages of a kind are in the two queues.
Readies == {i \in DOMAIN toMaster : toMaster[i] = "client_ready"}
Queued(type) == {i \in DOMAIN fromMaster : fromMaster[i].type = type}

\* At most one client_ready or ack is under way, it is the one waitForAck
\* counts, and a stop waits behind it: what keeps every Done() matched with an
\* Add(1).
AckHandshake ==
  /\ NoNegativeAck /\ waitForAck \in {0, 1}
  /\ \A i, j \in Readies : i = j
  /\ \A i, j \in Queued("ack") : i = j
  /\ \A i, j \in Queued("stop") : i = j
  /\ Readies = {} \/ Queued("ack") = {}
  /\ Readies # {} \/ Queued("ack") # {} => waitForAck = 1
  /\ Queued("stop") # {} => Readies = {} /\ view \in {"stopping", "gone"}
  /\ \A i \in Queued("ack"), j \in Queued("stop") : i < j
  /\ view \in {"ready", "active"} => Readies = {}

\* Only the last stopChan can be open: the goroutines of every earlier spawn
\* were told to stop before startSpawning replaced the channel.
OnlyLastStopChanOpen == Gens \ closed \subseteq {Current}

\* No load is running or starting, and the listener takes its next message in
\* stateInit: it is there, or about to set it as the last step of a stop.
Idle ==
  /\ state = stateInit \/ (state = stateStopped /\ listener = "setInit")
  /\ ~StopChanOpen

\* client_ready is sent before r.state is stateInit again.  From then on, as long
\* as the master counts this worker as ready, no load is running or starting (tasks
\* of the last one may still have to return) and what the master sends next is
\* handled in stateInit.
ReadyMeansIdle == (view = "ready" \/ Readies # {}) => Idle

\* No stop reaches the listener while no load runs and no ack while it is not in
\* stateInit: onMessage would take either for a custom message, the stop would
\* never be answered and the ack never counted.
NoLostMessage ==
  listener = "select" /\ fromMaster # << >> =>
    /\ Head(fromMaster).type = "stop" => state \in Active
    /\ Head(fromMaster).type = "ack" => state = stateInit

\* A spawn message that is not newer than the last one changes neither the
\* runner's state nor the goroutines it runs.
DiscardedSpawnIsIgnored ==
  [][ /\ fromMaster # << >> /\ Head(fromMaster).type = "spawn"
      /\ Stale(Head(fromMaster)) /\ fromMaster' = Tail(fromMaster)
      => UNCHANGED <<state, gens, closed, panic>> ]_vars

\* Once its stopChan or shutdownChan is closed, a generation's spawner returns
\* and its users stop one by one as their tasks return.
StoppedGenerationDrains ==
  \A g \in 1..MaxSent :
    (g \in Gens /\ Quitting(g)) ~>
      (~Alive \/ (g \in Gens /\ gens[g].pc = "done" /\ gens[g].busy = 0))

\* A stop message in the queue is answered by client_stopped, unless the worker
\* shuts down or panics first.  Sends end here; in the code only while the sender
\* is not stuck (see Client).
StopIsAnswered ==
  (\E i \in DOMAIN fromMaster : fromMaster[i].type = "stop") ~>
    (Down \/ ~Alive \/ \E i \in DOMAIN toMaster : toMaster[i] = "client_stopped")

\* The spawning state ends: the worker reports spawning_complete and goes on
\* to running, or is stopped.
SpawningCompletes == (state = stateSpawning) ~> (state # stateSpawning \/ Down \/ ~Alive)

\* r.state tells the listener whether it may close stopChan: between two messages
\* stopChan is open if and only if a load was started and not stopped since, and
\* stop() never panics.  Only a spawn message that is discarded breaks this.
StopChanDiscipline ==
  /\ StopChanOpen => state = stateSpawning /\ listener \in {"select", "exited"}
  /\ discarded \/ /\ NoDoubleClose
                  /\ listener = "select" /\ state \in Active => StopChanOpen

(***************************************************************************)
(* The worker keeps the promises of WorkerLifecycle: a load is a           *)
(* generation, and it is live while its stopChan is open.                  *)
(***************************************************************************)
Phase == IF listener \in {"clearStats", "onSpawn"} THEN "starting"
         ELSE IF state \in Active /\ listener # "publishQuit" THEN "active" ELSE "idle"

Lifecycle == INSTANCE WorkerLifecycle
               WITH phase <- Phase, started <- Len(gens), stopped <- closed

\* Loads start, are replaced and stop in the order that WorkerLifecycle allows,
\* whatever timestamps the spawn messages carry.
ImplementsLifecycle == Lifecycle!LifecycleSpec
==============================================================================
