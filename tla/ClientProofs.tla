----------------------------- MODULE ClientProofs -----------------------------
(***************************************************************************)
(* The goroutines around the client, for channels of any capacity and any  *)
(* behaviour of the master and the network: their types, how many reports  *)
(* can be late, and that a waiting Quit was announced.                     *)
(***************************************************************************)
EXTENDS Client, TLAPS

-----------------------------------------------------------------------------
(* Types *)

\* The channels, of which the sender, the listener and the writers share the ends.
ChannelsOK ==
  /\ toMaster \in Seq({"quit", "other"}) /\ Len(toMaster) <= ChanCap
  /\ fromMaster \in Seq(FromMaster) /\ Len(fromMaster) <= InCap

\* The flags; the provers reason about them apart.
FlagsOK ==
  viaRun \in BOOLEAN /\ link \in BOOLEAN /\ quitByMe \in BOOLEAN

\* The rest of TypeOK.
PlacesOK ==
  /\ sender \in {"select", "socket", "quitSocket", "disconnect", "exited"}
  /\ state \in {"init", "spawning", "stopped"}
  /\ reporter \in {"none", "select", "check", "send", "exited"}
  /\ heartbeat \in {"none", "select", "send", "exited"}
  /\ bus \in {"free", "listener", "main"} /\ subscribed \subseteq {"onQuiting", "Run"}
  /\ quitChan \in {"open", "closed"} /\ late \in Nat
  /\ main \in {"launch", "subscribe", "subscribeOnce", "select", "publish", "onQuiting", "wait",
               "close", "shutdown", "returned"}

\* A message put into a channel with room leaves it within its capacity.
LEMMA PutKeepsChannel ==
  ASSUME ChannelsOK, NEW msg, HasRoom, Put(msg)
  PROVE  toMaster' \in Seq({"quit", "other"}) /\ Len(toMaster') <= ChanCap
<1>1. Kind(msg) \in {"quit", "other"}
  BY DEF Kind
<1>. QED BY <1>1, ClientAssumption DEF ChannelsOK, HasRoom, Put

\* Every step keeps the types of the channels.
LEMMA ChannelsStep == ChannelsOK /\ [Next]_vars => ChannelsOK'
<1>. SUFFICES ASSUME ChannelsOK, [Next]_vars PROVE ChannelsOK'
  OBVIOUS
<1>a. ASSUME UNCHANGED channels PROVE ChannelsOK'
  BY <1>a DEF channels, ChannelsOK
<1>b. ASSUME NEW msg, HasRoom, Put(msg), UNCHANGED fromMaster PROVE ChannelsOK'
  BY <1>b, PutKeepsChannel DEF ChannelsOK
<1>1. CASE TakeMessage
  BY <1>1, ClientAssumption DEF TakeMessage, SenderStep, ChannelsOK
<1>2. CASE SocketReturns \/ Disconnected \/ SenderExit \/ LinkDown
  BY <1>a, <1>2 DEF SocketReturns, Disconnected, SenderExit, LinkDown, SenderStep, channels
<1>3. CASE RecvMessage
  BY <1>3, ClientAssumption DEF RecvMessage, ChannelsOK
<1>4. CASE Listen
  BY <1>4, ClientAssumption DEF Listen, ChannelsOK
<1>5. CASE Listener
  <2>1. ASSUME NEW msg, ListenerSends(msg) PROVE ChannelsOK'
    BY <2>1, <1>b DEF ListenerSends, Step
  <2>2. ASSUME NEW s, ListenerBecomes(s) PROVE ChannelsOK'
    BY <2>2, <1>a DEF ListenerBecomes, Step, channels
  <2>3. CASE ListenerClears \/ ListenerPublishes \/ ListenerClosesQuitChan \/ ListenerUnlocks
    BY <2>3, <1>a DEF ListenerClears, ListenerPublishes, ListenerClosesQuitChan,
                      ListenerUnlocks, Step, channels
  <2>. QED BY <1>5, <2>1, <2>2, <2>3 DEF Listener
<1>6. CASE ListenerExit
  BY <1>a, <1>6 DEF ListenerExit
<1>7. CASE TakeReport \/ CheckStopped \/ ReporterExit \/ HeartbeatTick \/ HeartbeatExit
  BY <1>a, <1>7 DEF TakeReport, CheckStopped, ReporterExit, HeartbeatTick, HeartbeatExit,
                    ReporterStep, HeartbeatStep, WorkersFrame, channels
<1>8. CASE SendReport \/ SendHeartbeat
  BY <1>b, <1>8 DEF SendReport, SendHeartbeat, ReporterStep, HeartbeatStep, WorkersFrame
<1>9. CASE Main \/ CallQuit
  <2>1. CASE QuitOnQuiting
    BY <1>b, <2>1 DEF QuitOnQuiting, MainStep
  <2>2. CASE ~QuitOnQuiting
    BY <1>a, <1>9, <2>2 DEF Main, CallQuit, LaunchGoroutines, SubscribeOnQuiting, SubscribeRun,
         QuitByMaster, PublishQuit, QuitTimeout, CloseClient, CloseShutdownChan, MainStep, channels
  <2>. QED BY <2>1, <2>2
<1>10. CASE UNCHANGED vars
  BY <1>a, <1>10 DEF vars
<1>. QED BY <1>1, <1>2, <1>3, <1>4, <1>5, <1>6, <1>7, <1>8, <1>9, <1>10 DEF Next

\* Every step keeps the flags Boolean.
LEMMA FlagsStep == FlagsOK /\ [Next]_vars => FlagsOK'
<1>. SUFFICES ASSUME FlagsOK, [Next]_vars PROVE FlagsOK'
  OBVIOUS
<1>a. ASSUME UNCHANGED <<viaRun, link, quitByMe>> PROVE FlagsOK'
  BY <1>a, Zenon DEF FlagsOK
<1>1. CASE TakeMessage \/ SocketReturns \/ Disconnected \/ SenderExit
  <2>1. UNCHANGED <<viaRun, link, workers, busVars>>
    BY <1>1, Zenon DEF TakeMessage, SocketReturns, Disconnected, SenderExit, SenderStep
  <2>. QED BY <1>a, <2>1, Zenon DEF workers, busVars
<1>2. CASE LinkDown \/ RecvMessage
  BY <1>2, Zenon DEF LinkDown, RecvMessage, clientVars, workers, busVars, FlagsOK
<1>3. CASE Listen \/ ListenerExit
  BY <1>a, <1>3, Zenon DEF Listen, ListenerExit, ListenerFrame, clientVars
<1>4. CASE Listener
  <2>1. ASSUME NEW msg, ListenerSends(msg) PROVE FlagsOK'
    BY <1>a, <2>1, Zenon DEF ListenerSends, Step, ListenerFrame, clientVars
  <2>2. ASSUME NEW s, ListenerBecomes(s) PROVE FlagsOK'
    BY <2>2, Zenon DEF ListenerBecomes, Step, ListenerFrame, clientVars, FlagsOK
  <2>3. CASE ListenerClears \/ ListenerPublishes \/ ListenerClosesQuitChan \/ ListenerUnlocks
    BY <1>a, <2>3, Zenon DEF ListenerClears, ListenerPublishes, ListenerClosesQuitChan,
                             ListenerUnlocks, Step, ListenerFrame, clientVars
  <2>. QED BY <1>4, <2>1, <2>2, <2>3, Zenon DEF Listener
<1>5. CASE TakeReport \/ CheckStopped \/ ReporterExit
  BY <1>a, <1>5, Zenon DEF TakeReport, CheckStopped, ReporterExit, ReporterStep, WorkersFrame,
                           clientVars, busVars
<1>6. CASE SendReport
  BY <1>6, Zenon DEF SendReport, ReporterStep, WorkersFrame, clientVars, busVars, FlagsOK
<1>7. CASE HeartbeatTick \/ SendHeartbeat \/ HeartbeatExit
  BY <1>a, <1>7, Zenon DEF HeartbeatTick, SendHeartbeat, HeartbeatExit, HeartbeatStep,
                           WorkersFrame, clientVars, busVars
<1>8. CASE Main
  <2>1. \E from, to : MainStep(from, to)
    BY <1>8, Zenon DEF Main, LaunchGoroutines, SubscribeOnQuiting, SubscribeRun, QuitByMaster,
         PublishQuit, QuitOnQuiting, QuitTimeout, CloseClient, CloseShutdownChan
  <2>2. UNCHANGED quitByMe
    BY <1>8, Zenon DEF Main, LaunchGoroutines, SubscribeOnQuiting, SubscribeRun, QuitByMaster,
         PublishQuit, QuitOnQuiting, QuitTimeout, CloseClient, CloseShutdownChan, busVars
  <2>. QED BY <1>a, <2>1, <2>2, Zenon DEF MainStep, clientVars
<1>9. CASE CallQuit
  BY <1>9, Zenon DEF CallQuit, MainStep, clientVars, FlagsOK
<1>10. CASE UNCHANGED vars
  BY <1>a, <1>10, Zenon DEF vars, clientVars, workers, busVars
<1>. QED BY <1>1, <1>2, <1>3, <1>4, <1>5, <1>6, <1>7, <1>8, <1>9, <1>10, Zenon DEF Next

\* Every step keeps the types of the places of the goroutines.
LEMMA PlacesStep == PlacesOK /\ [Next]_vars => PlacesOK'
<1>. SUFFICES ASSUME PlacesOK, [Next]_vars PROVE PlacesOK'
  OBVIOUS
<1>. USE DEF PlacesOK
<1>1. CASE TakeMessage \/ SocketReturns \/ Disconnected \/ SenderExit
  BY <1>1 DEF TakeMessage, SocketReturns, Disconnected, SenderExit, SenderStep, workers, busVars
<1>2. CASE LinkDown \/ RecvMessage
  BY <1>2 DEF LinkDown, RecvMessage, clientVars, workers, busVars
<1>3. CASE Listen \/ ListenerExit
  BY <1>3 DEF Listen, ListenerExit, ListenerFrame, clientVars
<1>4. CASE Listener
  <2>1. ASSUME NEW msg, ListenerSends(msg) PROVE PlacesOK'
    BY <2>1 DEF ListenerSends, Step, ListenerFrame, clientVars
  <2>2. ASSUME NEW s \in {"init", "spawning", "stopped"}, ListenerBecomes(s) PROVE PlacesOK'
    BY <2>2 DEF ListenerBecomes, Step, ListenerFrame, clientVars
  <2>3. CASE ListenerClears \/ ListenerPublishes \/ ListenerClosesQuitChan \/ ListenerUnlocks
    BY <2>3 DEF ListenerClears, ListenerPublishes, ListenerClosesQuitChan, ListenerUnlocks,
                Step, ListenerFrame, clientVars
  <2>. QED BY <1>4, <2>1, <2>2, <2>3 DEF Listener
<1>5. CASE TakeReport \/ CheckStopped \/ SendReport \/ ReporterExit
  <2>1. UNCHANGED <<sender, state, heartbeat, bus, subscribed, quitChan, main>>
    BY <1>5 DEF TakeReport, CheckStopped, SendReport, ReporterExit, ReporterStep, WorkersFrame,
                clientVars, busVars
  <2>2. reporter' \in {"select", "check", "send", "exited"}
    BY <1>5 DEF TakeReport, CheckStopped, SendReport, ReporterExit, ReporterStep
  <2>3. late' \in Nat
    BY <1>5 DEF TakeReport, CheckStopped, SendReport, ReporterExit
  <2>. QED BY <2>1, <2>2, <2>3
<1>6. CASE HeartbeatTick \/ SendHeartbeat \/ HeartbeatExit
  BY <1>6 DEF HeartbeatTick, SendHeartbeat, HeartbeatExit, HeartbeatStep, WorkersFrame,
              clientVars, busVars
<1>7. CASE Main \/ CallQuit
  BY <1>7 DEF Main, CallQuit, LaunchGoroutines, SubscribeOnQuiting, SubscribeRun, QuitByMaster,
       PublishQuit, QuitOnQuiting, QuitTimeout, CloseClient, CloseShutdownChan, MainStep,
       clientVars, busVars
<1>8. CASE UNCHANGED vars
  BY <1>8 DEF vars, clientVars, workers, busVars
<1>. QED BY <1>1, <1>2, <1>3, <1>4, <1>5, <1>6, <1>7, <1>8 DEF Next

\* The channels never exceed their capacities, and the goroutines of the client
\* and of slaveRunner.run are where the model says they can be.
THEOREM TypeCorrect == Spec => []TypeOK
<1>1. Init => ChannelsOK /\ PlacesOK
  BY ClientAssumption DEF Init, ChannelsOK, PlacesOK
<1>2. Init => FlagsOK
  BY Zenon DEF Init, FlagsOK
<1>3. ChannelsOK /\ FlagsOK /\ PlacesOK => TypeOK
  BY Zenon DEF ChannelsOK, FlagsOK, PlacesOK, TypeOK
<1>. QED BY <1>1, <1>2, <1>3, ChannelsStep, FlagsStep, PlacesStep, PTL DEF Spec

-----------------------------------------------------------------------------
(* Late reports *)

\* A report is late only while the worker is idle, and then the reporter is not
\* about to send another: it is past its second look at r.state while that is
\* stateStopped, and past both while it is stateInit.
LateInv ==
  /\ late \in {0, 1}
  /\ late = 1 => \/ state = "stopped" /\ reporter # "send"
                 \/ state = "init" /\ reporter \notin {"check", "send"}

\* The steps that write r.state, the reporter's place or the history keep it.
LEMMA LateStep == PlacesOK /\ LateInv /\ [Next]_vars => LateInv'
<1>. SUFFICES ASSUME PlacesOK, LateInv, [Next]_vars PROVE LateInv'
  OBVIOUS
<1>. USE DEF LateInv
<1>a. ASSUME UNCHANGED <<late, state, reporter>> PROVE LateInv'
  BY <1>a
<1>1. CASE TakeMessage \/ SocketReturns \/ Disconnected \/ SenderExit
  BY <1>a, <1>1 DEF TakeMessage, SocketReturns, Disconnected, SenderExit, SenderStep, workers
<1>2. CASE LinkDown \/ RecvMessage
  BY <1>a, <1>2 DEF LinkDown, RecvMessage, workers
<1>3. CASE Listen \/ ListenerExit
  BY <1>a, <1>3 DEF Listen, ListenerExit, ListenerFrame
<1>4. CASE Listener
  <2>1. ASSUME NEW msg, ListenerSends(msg) PROVE LateInv'
    BY <1>a, <2>1 DEF ListenerSends, Step, ListenerFrame
  <2>2. ASSUME NEW s, ListenerBecomes(s) PROVE LateInv'
    BY <2>2 DEF ListenerBecomes
  <2>3. CASE ListenerClears \/ ListenerPublishes \/ ListenerClosesQuitChan \/ ListenerUnlocks
    BY <1>a, <2>3 DEF ListenerClears, ListenerPublishes, ListenerClosesQuitChan,
                      ListenerUnlocks, Step, ListenerFrame
  <2>. QED BY <1>4, <2>1, <2>2, <2>3 DEF Listener
<1>5. CASE TakeReport \/ CheckStopped \/ ReporterExit
  BY <1>5 DEF TakeReport, CheckStopped, ReporterExit, ReporterStep, WorkersFrame
<1>6. CASE SendReport
  BY <1>6 DEF SendReport, ReporterStep, WorkersFrame, PlacesOK
<1>7. CASE HeartbeatTick \/ SendHeartbeat \/ HeartbeatExit
  BY <1>a, <1>7 DEF HeartbeatTick, SendHeartbeat, HeartbeatExit, HeartbeatStep, WorkersFrame
<1>8. CASE LaunchGoroutines
  BY <1>8 DEF LaunchGoroutines, MainStep
<1>9. CASE (Main /\ ~LaunchGoroutines) \/ CallQuit
  BY <1>a, <1>9 DEF Main, CallQuit, SubscribeOnQuiting, SubscribeRun, QuitByMaster,
       PublishQuit, QuitOnQuiting, QuitTimeout, CloseClient, CloseShutdownChan, MainStep, busVars
<1>10. CASE UNCHANGED vars
  BY <1>a, <1>10 DEF vars, workers
<1>. QED BY <1>1, <1>2, <1>3, <1>4, <1>5, <1>6, <1>7, <1>8, <1>9, <1>10 DEF Next

\* However long the reporter waits for room in toMaster, and although it looks at
\* r.state twice without a lock, no more than one report reaches the master while
\* the worker is stopping and no more than one while it is idle.
THEOREM LateReports == Spec => []LateReportsBounded
<1>1. Init => PlacesOK /\ LateInv
  BY DEF Init, PlacesOK, LateInv
<1>2. LateInv => LateReportsBounded
  BY DEF LateInv, LateReportsBounded
<1>. QED BY <1>1, <1>2, PlacesStep, LateStep, PTL DEF Spec

-----------------------------------------------------------------------------
(* The announced quit *)

\* A quit message in the channel stays there when another is put behind it.
LEMMA QuitStays ==
  ASSUME ChannelsOK, NEW msg, toMaster' = Append(toMaster, msg),
         \E i \in DOMAIN toMaster : toMaster[i] = "quit"
  PROVE  \E i \in DOMAIN toMaster' : toMaster'[i] = "quit"
<1>1. PICK i \in DOMAIN toMaster : toMaster[i] = "quit"
  OBVIOUS
<1>2. i \in DOMAIN toMaster' /\ toMaster'[i] = "quit"
  BY <1>1 DEF ChannelsOK
<1>. QED BY <1>2

\* A quit message that is not the first one stays there when the first is taken.
LEMMA QuitMovesUp ==
  ASSUME ChannelsOK, toMaster # << >>, toMaster' = Tail(toMaster), Head(toMaster) # "quit",
         \E i \in DOMAIN toMaster : toMaster[i] = "quit"
  PROVE  \E i \in DOMAIN toMaster' : toMaster'[i] = "quit"
<1>1. PICK i \in DOMAIN toMaster : toMaster[i] = "quit"
  OBVIOUS
<1>2. i \in 2..Len(toMaster)
  BY <1>1 DEF ChannelsOK
<1>3. (i - 1) \in DOMAIN toMaster' /\ toMaster'[i - 1] = "quit"
  BY <1>1, <1>2 DEF ChannelsOK
<1>. QED BY <1>3

\* Whoever writes to toMaster, the message that a waiting Quit has queued gets to
\* the sender, and the sender to its signal.
LEMMA AnnouncedStep == ChannelsOK /\ QuitIsAnnounced /\ [Next]_vars => QuitIsAnnounced'
<1>. SUFFICES ASSUME ChannelsOK, QuitIsAnnounced, [Next]_vars, main' = "wait"
              PROVE  \/ \E i \in DOMAIN toMaster' : toMaster'[i] = "quit"
                     \/ sender' \in {"quitSocket", "disconnect"}
  BY DEF QuitIsAnnounced
<1>. DEFINE Announced == \/ \E i \in DOMAIN toMaster : toMaster[i] = "quit"
                         \/ sender \in {"quitSocket", "disconnect"}
<1>a. ASSUME UNCHANGED <<main, toMaster, sender>> PROVE Announced'
  BY <1>a DEF QuitIsAnnounced
<1>b. ASSUME UNCHANGED <<main, sender>>, NEW msg, Put(msg) PROVE Announced'
  BY <1>b, QuitStays DEF QuitIsAnnounced, Put
<1>1. CASE TakeMessage
  <2>1. main = "wait" /\ sender = "select" /\ toMaster # << >> /\ toMaster' = Tail(toMaster)
    BY <1>1 DEF TakeMessage, SenderStep
  <2>2. CASE Head(toMaster) = "quit"
    BY <1>1, <2>2 DEF TakeMessage, SenderStep
  <2>3. CASE Head(toMaster) # "quit"
    BY <2>1, <2>3, QuitMovesUp DEF QuitIsAnnounced
  <2>. QED BY <2>2, <2>3
<1>2. CASE SocketReturns
  BY <1>2 DEF SocketReturns, SenderStep, QuitIsAnnounced
<1>3. CASE Disconnected
  BY <1>3 DEF Disconnected
<1>4. CASE SenderExit
  BY <1>4 DEF SenderExit, SenderStep, QuitIsAnnounced
<1>5. CASE LinkDown \/ RecvMessage
  BY <1>a, <1>5 DEF LinkDown, RecvMessage, clientVars, channels
<1>6. CASE Listen \/ ListenerExit
  BY <1>a, <1>6 DEF Listen, ListenerExit, ListenerFrame, clientVars, channels
<1>7. CASE Listener
  <2>1. ASSUME NEW msg, ListenerSends(msg) PROVE Announced'
    BY <1>b, <2>1 DEF ListenerSends, Step, ListenerFrame, clientVars
  <2>2. ASSUME NEW s, ListenerBecomes(s) PROVE Announced'
    BY <1>a, <2>2 DEF ListenerBecomes, Step, ListenerFrame, clientVars
  <2>3. CASE ListenerClears \/ ListenerPublishes \/ ListenerClosesQuitChan \/ ListenerUnlocks
    BY <1>a, <2>3 DEF ListenerClears, ListenerPublishes, ListenerClosesQuitChan,
                      ListenerUnlocks, Step, ListenerFrame, clientVars
  <2>. QED BY <1>7, <2>1, <2>2, <2>3 DEF Listener
<1>8. CASE TakeReport \/ CheckStopped \/ ReporterExit \/ HeartbeatTick \/ HeartbeatExit
  BY <1>a, <1>8 DEF TakeReport, CheckStopped, ReporterExit, HeartbeatTick, HeartbeatExit,
                    ReporterStep, HeartbeatStep, WorkersFrame, clientVars
<1>9. CASE SendReport \/ SendHeartbeat
  BY <1>b, <1>9 DEF SendReport, SendHeartbeat, ReporterStep, HeartbeatStep, WorkersFrame, clientVars
<1>10. CASE QuitOnQuiting
  <2>1. toMaster' = Append(toMaster, "quit")
    BY <1>10 DEF QuitOnQuiting, Put, Kind
  <2>2. Len(toMaster) + 1 \in DOMAIN toMaster' /\ toMaster'[Len(toMaster) + 1] = "quit"
    BY <2>1 DEF ChannelsOK
  <2>. QED BY <2>2
<1>11. CASE (Main /\ ~QuitOnQuiting) \/ CallQuit
  BY <1>11 DEF Main, CallQuit, LaunchGoroutines, SubscribeOnQuiting, SubscribeRun, QuitByMaster,
       PublishQuit, QuitTimeout, CloseClient, CloseShutdownChan, MainStep
<1>12. CASE UNCHANGED vars
  BY <1>a, <1>12 DEF vars, channels, clientVars
<1>. QED BY <1>1, <1>2, <1>3, <1>4, <1>5, <1>6, <1>7, <1>8, <1>9, <1>10, <1>11, <1>12 DEF Next

\* While Boomer.Quit waits, the quit message is in toMaster or with the sender,
\* which will signal disconnectedFromMaster: only the link or the timeout can
\* keep the signal from coming.
THEOREM QuitAnnounced == Spec => []QuitIsAnnounced
<1>1. Init => ChannelsOK /\ QuitIsAnnounced
  BY ClientAssumption DEF Init, ChannelsOK, QuitIsAnnounced
<1>. QED BY <1>1, ChannelsStep, AnnouncedStep, PTL DEF Spec
===============================================================================
