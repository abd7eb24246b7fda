------------------------------- MODULE Client -------------------------------
(***************************************************************************)
(* The worker's side of the connection: the goroutines that move messages  *)
(* between the master and the runner, those of slaveRunner.run that write  *)
(* to the bounded channel toMaster, and the program that runs them and     *)
(* quits, which is either the package's Run or a user of type Boomer.      *)
(*                                                                         *)
(* Of a message to the master only its being a quit matters.  What the     *)
(* listener does with a message from the master is a sequence of steps,    *)
(* each of which may have to wait; EVENT_SPAWN and EVENT_STOP, which only  *)
(* a user may subscribe to, are left out.  Loads and acks are the subject  *)
(* of module SlaveRunner, the contents of reports of RequestStats.  Here   *)
(* the master may say anything at any time and the network may fail.       *)
(***************************************************************************)
EXTENDS Naturals, Sequences

CONSTANTS
  ChanCap,  \* capacity of toMaster
  InCap     \* capacity of fromMaster

ASSUME ClientAssumption == ChanCap \in Nat \ {0} /\ InCap \in Nat \ {0}

VARIABLES
  viaRun,      \* does the program use boomer.Run, and end when it returns?
  link,        \* does the socket still take messages?
  toMaster, fromMaster,  \* channels of the client
  sender,      \* send: "select", "socket", "quitSocket", "disconnect", "exited"
  state,       \* r.state: "init", "spawning", "stopped"
  listener,    \* steps left of the message being handled, or Exited
  reporter,    \* "none", "select", "check", "send", "exited"
  heartbeat,   \* "none", "select", "send", "exited"
  bus,         \* who holds the lock of the event bus: "free", "listener", "main"
  subscribed,  \* subscribers of EVENT_QUIT
  quitByMe, quitChan,  \* variables of Run; quitChan: "open", "closed"
  main,        \* where the program is
  late         \* history: reports sent while idle since r.state was last set

channels == <<toMaster, fromMaster>>
clientVars == <<link, sender>>
workers == <<reporter, heartbeat, late>>
busVars == <<bus, subscribed, quitByMe, quitChan>>
vars == <<viaRun, channels, clientVars, state, listener, workers, busVars, main>>

\* What the master sends.  A stop that finds the worker idle is dropped; acks and
\* custom messages are answered by no message and left out, and spawns are fresh.
FromMaster == {"spawn", "stop", "quit"}
Exited == << <<"exited">> >>

\* The program is over when Run returns, whatever its goroutines are doing.
Alive == ~(viaRun /\ main = "returned")
\* shutdown has closed the stats and the client; then the runner.
ClientClosed == main \in {"shutdown", "returned"}
Down == main = "returned"

Kind(msg) == IF msg = "quit" THEN "quit" ELSE "other"
HasRoom == Len(toMaster) < ChanCap
Put(msg) == toMaster' = Append(toMaster, Kind(msg))

\* slaveRunner.run has connected, launched the listener and told the master.
Init ==
  /\ viaRun \in BOOLEAN /\ link = TRUE
  /\ toMaster = << >> /\ fromMaster = << >> /\ sender = "select"
  /\ state = "init" /\ listener = << >>
  /\ reporter = "none" /\ heartbeat = "none"
  /\ bus = "free" /\ subscribed = {} /\ quitByMe = FALSE /\ quitChan = "open"
  /\ main = "launch" /\ late = 0

-----------------------------------------------------------------------------
(* send *)

SenderStep(from, to) ==
  /\ Alive /\ sender = from /\ sender' = to
  /\ UNCHANGED <<viaRun, link, fromMaster, state, listener, workers, busVars>>

TakeMessage ==
  /\ toMaster # << >>
  /\ SenderStep("select", IF Head(toMaster) = "quit" THEN "quitSocket" ELSE "socket")
  /\ toMaster' = Tail(toMaster)
  /\ UNCHANGED main

\* Mutant: does not signal that the quit message was sent.
SocketReturns_NoSignal ==
  /\ link \/ ClientClosed
  /\ SenderStep("socket", "select") \/ SenderStep("quitSocket", "select")
  /\ UNCHANGED <<toMaster, main>>

\* Mutant: an error ends the goroutine.
SocketReturns_StopOnError ==
  /\ link \/ ClientClosed
  /\ \/ SenderStep("socket", "select") \/ SenderStep("quitSocket", "disconnect")
     \/ SenderStep("socket", "exited")
  /\ UNCHANGED <<toMaster, main>>

\* sendMessage returns, with an error that is only logged or without; while the
\* link is down it waits, until the socket is closed.
SocketReturns ==
  /\ link \/ ClientClosed
  /\ SenderStep("socket", "select") \/ SenderStep("quitSocket", "disconnect")
  /\ UNCHANGED <<toMaster, main>>

\* disconnectedFromMaster is unbuffered: only a Quit that waits receives.
Disconnected ==
  /\ SenderStep("disconnect", "select")
  /\ main = "wait" /\ main' = "close"
  /\ UNCHANGED toMaster

SenderExit ==
  /\ SenderStep("select", "exited") /\ ClientClosed
  /\ UNCHANGED <<toMaster, main>>

LinkDown ==
  /\ Alive /\ link
  /\ link' = FALSE
  /\ UNCHANGED <<viaRun, channels, sender, state, listener, workers, busVars, main>>

-----------------------------------------------------------------------------
(* recv.  Frames that are commands, empty, unreadable, for another node or  *)
(* impossible to decode leave everything as it was.  A message that finds   *)
(* fromMaster full waits, here as if it were still in the socket.           *)

RecvMessage ==
  /\ Alive /\ link /\ ~ClientClosed /\ Len(fromMaster) < InCap
  /\ \E msg \in FromMaster : fromMaster' = Append(fromMaster, msg)
  /\ UNCHANGED <<viaRun, toMaster, clientVars, state, listener, workers, busVars, main>>

-----------------------------------------------------------------------------
(* The listener and the steps of onMessage. *)

Become(s) == <<"become", s>>
Send(msg) == <<"send", msg>>
Clear == <<"clear">>
Publish == <<"publish">>
RunHandler == <<"close quitChan">>
Unlock == <<"unlock">>

OnMessage(msg) ==
  CASE msg = "spawn" /\ state = "init" -> <<Become("spawning"), Clear, Send("spawning")>>
    [] msg = "spawn" /\ state = "spawning" -> <<Send("spawning")>>
    [] msg = "stop" /\ state = "spawning" ->
         <<Become("stopped"), Send("client_stopped"), Send("client_ready"), Become("init")>>
    [] msg = "quit" /\ state = "init" -> <<Publish>>
    [] msg = "quit" /\ state = "spawning" -> <<Publish, Become("init")>>
    [] OTHER -> << >>

ListenerFrame == UNCHANGED <<viaRun, clientVars, reporter, heartbeat, quitByMe, main>>

Listen ==
  /\ Alive /\ listener = << >> /\ fromMaster # << >>
  /\ listener' = OnMessage(Head(fromMaster))
  /\ fromMaster' = Tail(fromMaster)
  /\ UNCHANGED <<toMaster, state, late, bus, subscribed, quitChan>> /\ ListenerFrame

ListenerExit ==
  /\ Alive /\ listener = << >> /\ Down
  /\ listener' = Exited
  /\ UNCHANGED <<channels, state, late, bus, subscribed, quitChan>> /\ ListenerFrame

\* One step of the message being handled.
Step(step) ==
  /\ Alive /\ listener # << >> /\ Head(listener) = step
  /\ ListenerFrame /\ UNCHANGED fromMaster

ListenerBecomes(s) ==
  /\ Step(Become(s)) /\ listener' = Tail(listener)
  /\ state' = s /\ late' = 0
  /\ UNCHANGED <<toMaster, bus, subscribed, quitChan>>

ListenerSends(msg) ==
  /\ Step(Send(msg)) /\ HasRoom /\ Put(msg) /\ listener' = Tail(listener)
  /\ UNCHANGED <<state, late, bus, subscribed, quitChan>>

\* clearStatsChan is unbuffered and read by the stats goroutine.
ListenerClears ==
  /\ Step(Clear) /\ ~ClientClosed /\ listener' = Tail(listener)
  /\ UNCHANGED <<toMaster, state, late, bus, subscribed, quitChan>>

\* The bus calls the subscribers one after the other and holds its lock
\* meanwhile.
ListenerPublishes ==
  /\ Step(Publish) /\ bus = "free" /\ bus' = "listener"
  /\ listener' = (IF "onQuiting" \in subscribed THEN <<Send("quit")>> ELSE << >>)
                 \o (IF "Run" \in subscribed THEN <<RunHandler>> ELSE << >>)
                 \o <<Unlock>> \o Tail(listener)
  /\ UNCHANGED <<toMaster, state, late, subscribed, quitChan>>

\* Mutant: the test of quitByMe is the wrong way round.
ListenerClosesQuitChan_Inverted ==
  /\ Step(RunHandler) /\ listener' = Tail(listener)
  /\ subscribed' = subscribed \ {"Run"}
  /\ quitChan' = IF quitByMe THEN "closed" ELSE quitChan
  /\ UNCHANGED <<toMaster, state, late, bus>>

\* The subscriber of Run, called once.
ListenerClosesQuitChan ==
  /\ Step(RunHandler) /\ listener' = Tail(listener)
  /\ subscribed' = subscribed \ {"Run"}
  /\ quitChan' = IF quitByMe THEN quitChan ELSE "closed"
  /\ UNCHANGED <<toMaster, state, late, bus>>

ListenerUnlocks ==
  /\ Step(Unlock) /\ bus' = "free" /\ listener' = Tail(listener)
  /\ UNCHANGED <<toMaster, state, late, subscribed, quitChan>>

Listener ==
  \/ \E s \in {"init", "spawning", "stopped"} : ListenerBecomes(s)
  \/ \E msg \in {"spawning", "client_stopped", "client_ready", "quit"} : ListenerSends(msg)
  \/ ListenerClears \/ ListenerPublishes \/ ListenerClosesQuitChan \/ ListenerUnlocks

-----------------------------------------------------------------------------
(* The goroutine that reports and the one that sends heartbeats. *)

WorkersFrame == UNCHANGED <<viaRun, fromMaster, clientVars, state, listener, busVars, main>>

ReporterStep(from, to) ==
  /\ Alive /\ reporter = from /\ reporter' = to
  /\ UNCHANGED heartbeat /\ WorkersFrame

\* A report of the stats goroutine.  r.state is read twice and without a lock: a
\* report is dropped if it is stateInit first, or stateStopped a moment later.
TakeReport ==
  /\ ReporterStep("select", IF state = "init" THEN "select" ELSE "check")
  /\ UNCHANGED <<toMaster, late>>

\* Mutant: a worker that is stopping still reports.
CheckStopped_None == ReporterStep("check", "send") /\ UNCHANGED <<toMaster, late>>

CheckStopped ==
  /\ ReporterStep("check", IF state = "stopped" THEN "select" ELSE "send")
  /\ UNCHANGED <<toMaster, late>>

SendReport ==
  /\ HasRoom /\ ReporterStep("send", "select") /\ Put("stats")
  /\ late' = IF state = "spawning" THEN 0 ELSE late + 1

\* Mutant: an idle reporter does not look at shutdownChan.
ReporterExit_OnlyActive ==
  Down /\ state = "spawning" /\ ReporterStep("select", "exited") /\ UNCHANGED <<toMaster, late>>

\* outputOnStop, then the goroutine ends.
ReporterExit == Down /\ ReporterStep("select", "exited") /\ UNCHANGED <<toMaster, late>>

HeartbeatStep(from, to) ==
  /\ Alive /\ heartbeat = from /\ heartbeat' = to
  /\ UNCHANGED <<reporter, late>> /\ WorkersFrame

HeartbeatTick == HeartbeatStep("select", "send") /\ UNCHANGED toMaster
SendHeartbeat == HasRoom /\ HeartbeatStep("send", "select") /\ Put("heartbeat")
HeartbeatExit == Down /\ HeartbeatStep("select", "exited") /\ UNCHANGED toMaster

-----------------------------------------------------------------------------
(* The program: the end of slaveRunner.run, Run, and Boomer.Quit. *)

MainStep(from, to) ==
  /\ main = from /\ main' = to
  /\ UNCHANGED <<viaRun, fromMaster, clientVars, state, listener, late>>

LaunchGoroutines ==
  /\ MainStep("launch", "subscribe")
  /\ reporter' = "select" /\ heartbeat' = "select"
  /\ UNCHANGED <<toMaster, busVars>>

\* Subscribing takes the lock of the bus.
SubscribeOnQuiting ==
  /\ MainStep("subscribe", IF viaRun THEN "subscribeOnce" ELSE "select") /\ bus = "free"
  /\ subscribed' = subscribed \cup {"onQuiting"}
  /\ UNCHANGED <<toMaster, reporter, heartbeat, bus, quitByMe, quitChan>>

SubscribeRun ==
  /\ MainStep("subscribeOnce", "select") /\ bus = "free"
  /\ subscribed' = subscribed \cup {"Run"}
  /\ UNCHANGED <<toMaster, reporter, heartbeat, bus, quitByMe, quitChan>>

\* The listener's subscriber has closed quitChan: Run returns.
QuitByMaster ==
  /\ MainStep("select", "returned") /\ viaRun /\ quitChan = "closed"
  /\ UNCHANGED <<toMaster, reporter, heartbeat, busVars>>

\* A signal that Run waits for, or a call of Boomer.Quit.
CallQuit ==
  /\ MainStep("select", "publish")
  /\ quitByMe' = viaRun
  /\ UNCHANGED <<toMaster, reporter, heartbeat, bus, subscribed, quitChan>>

PublishQuit ==
  /\ MainStep("publish", "onQuiting") /\ bus = "free" /\ bus' = "main"
  /\ UNCHANGED <<toMaster, reporter, heartbeat, subscribed, quitByMe, quitChan>>

\* onQuiting, the subscriber of Run, which sees quitByMe, and the unlock.
QuitOnQuiting ==
  /\ MainStep("onQuiting", "wait") /\ HasRoom /\ Put("quit")
  /\ subscribed' = subscribed \ {"Run"} /\ bus' = "free"
  /\ UNCHANGED <<reporter, heartbeat, quitByMe, quitChan>>

\* Mutant: there is no timeout.
QuitTimeout_None == FALSE

\* Three seconds are over.
QuitTimeout == MainStep("wait", "close") /\ UNCHANGED <<toMaster, reporter, heartbeat, busVars>>

\* shutdown: stats and client, then the limiter and r.shutdownChan.
CloseClient == MainStep("close", "shutdown") /\ UNCHANGED <<toMaster, reporter, heartbeat, busVars>>

CloseShutdownChan ==
  MainStep("shutdown", "returned") /\ UNCHANGED <<toMaster, reporter, heartbeat, busVars>>

Main ==
  \/ LaunchGoroutines \/ SubscribeOnQuiting \/ SubscribeRun \/ QuitByMaster
  \/ PublishQuit \/ QuitOnQuiting \/ QuitTimeout \/ CloseClient \/ CloseShutdownChan

-----------------------------------------------------------------------------
Next ==
  \/ TakeMessage \/ SocketReturns \/ Disconnected \/ SenderExit \/ LinkDown
  \/ RecvMessage
  \/ Listen \/ Listener \/ ListenerExit
  \/ TakeReport \/ CheckStopped \/ SendReport \/ ReporterExit
  \/ HeartbeatTick \/ SendHeartbeat \/ HeartbeatExit
  \/ Main \/ CallQuit

Spec == Init /\ [][Next]_vars

\* The steps that end a goroutine, and those of the program; each happens once.
Final == SenderExit \/ ReporterExit \/ HeartbeatExit \/ Main

\* Goroutines that can run are run and the socket returns while the link is up.
\* Goroutines that wait for room in a channel or for the lock of the bus are
\* served in turn, and a select chooses at random among the cases that are
\* ready: strong fairness.  Strong fairness of Final is that of each of its
\* steps, as none happens twice.  No one has to call Quit, to report or to tick,
\* the master need not say anything, and the link may fail.
Fairness ==
  /\ WF_vars(TakeMessage) /\ WF_vars(SocketReturns)
  /\ WF_vars(Listen \/ ListenerExit) /\ SF_vars(Listener)
  /\ WF_vars(CheckStopped \/ SendReport) /\ SF_vars(SendHeartbeat)
  /\ SF_vars(Final)

FairSpec == Spec /\ Fairness

-----------------------------------------------------------------------------
(* Properties *)

\* Types of the channels and of where the goroutines are.
TypeOK ==
  /\ viaRun \in BOOLEAN /\ link \in BOOLEAN
  /\ toMaster \in Seq({"quit", "other"}) /\ Len(toMaster) <= ChanCap
  /\ fromMaster \in Seq(FromMaster) /\ Len(fromMaster) <= InCap
  /\ sender \in {"select", "socket", "quitSocket", "disconnect", "exited"}
  /\ state \in {"init", "spawning", "stopped"}
  /\ reporter \in {"none", "select", "check", "send", "exited"}
  /\ heartbeat \in {"none", "select", "send", "exited"}
  /\ bus \in {"free", "listener", "main"} /\ subscribed \subseteq {"onQuiting", "Run"}
  /\ quitByMe \in BOOLEAN /\ quitChan \in {"open", "closed"} /\ late \in Nat
  /\ main \in {"launch", "subscribe", "subscribeOnce", "select", "publish", "onQuiting", "wait",
               "close", "shutdown", "returned"}

\* Reports may reach the master after client_stopped and client_ready, but no more
\* than one while r.state is stateStopped, which waited for room in toMaster when
\* the stop came, and one while it is stateInit, which waited too or whose two looks
\* at r.state missed both: two in all before the next spawn.
LateReportsBounded == late <= 1

\* While Boomer.Quit waits for disconnectedFromMaster, there is a quit message
\* that will make the sender write to it.
QuitIsAnnounced ==
  main = "wait" =>
    \/ \E i \in DOMAIN toMaster : toMaster[i] = "quit"
    \/ sender \in {"quitSocket", "disconnect"}

\* The sender waits for someone to receive from disconnectedFromMaster, or for
\* a link that is down.
SenderStuck == sender = "disconnect" \/ (sender \in {"socket", "quitSocket"} /\ ~link)

\* Boomer.Quit returns, also when the master cannot be told, unless EVENT_QUIT
\* is being published and waits for room behind a sender that is stuck.
QuitReturnsUnlessFull ==
  (main = "publish") ~>
    \/ main = "returned"
    \/ main \in {"publish", "onQuiting"} /\ SenderStuck /\ ~HasRoom

\* A quit message of the master that is handled after Run has subscribed to
\* EVENT_QUIT ends the program, unless the same wait for room prevents it.
MasterQuitEndsProgram ==
  (listener # << >> /\ Head(listener) = Publish /\ "Run" \in subscribed) ~>
    \/ main = "returned"
    \/ SenderStuck /\ ~HasRoom

\* A heartbeat finds room in toMaster, however many reports and answers compete
\* with it, unless the sender is stuck or the client has been closed.
HeartbeatsGetRoom ==
  (heartbeat = "send") ~> (heartbeat # "send" \/ SenderStuck \/ ClientClosed)

\* After shutdown every goroutine has ended, the reporter with outputOnStop,
\* except those that wait for ever: for room in a channel no one reads any
\* more, for a Quit that has stopped waiting, or for the stats goroutine.  The
\* comment on shutdownChan promises it without exception, which ShutdownStopsReporter
\* refutes; these are all the exceptions there are.
ShutdownEndsGoroutines ==
  (Down /\ Alive) ~>
    /\ sender \in {"exited", "disconnect"}
    /\ listener = Exited \/ (listener # << >> /\ (~HasRoom \/ Head(listener) = Clear))
    /\ reporter = "exited" \/ (reporter = "send" /\ ~HasRoom)
    /\ heartbeat = "exited" \/ (heartbeat = "send" /\ ~HasRoom)

\* Closing shutdownChan ends the goroutine that reports, which calls OnStop of every
\* output as its last step, as the comments on shutdownChan and on Output promise.
ShutdownStopsReporter == (Down /\ Alive) ~> (reporter = "exited")

\* Boomer.Quit returns, as its timeout promises.
QuitReturns == (main = "publish") ~> (main = "returned")
=============================================================================
