-------------------------- MODULE SlaveRunnerProofs --------------------------
(***************************************************************************)
(* Theorems about SlaveRunner, for every pool size, every set of user      *)
(* totals and any number of messages.                                      *)
(***************************************************************************)
EXTENDS SlaveRunner, TLAPS

(***************************************************************************)
(* Type correctness                                                        *)
(***************************************************************************)

\* Rewriting the record of one generation keeps the sequence of generations.
LEMMA GensUpdate ==
  ASSUME NEW s \in Seq(Generation), NEW g \in DOMAIN s, NEW v \in Generation
  PROVE  /\ [s EXCEPT ![g] = v] \in Seq(Generation)
         /\ Len([s EXCEPT ![g] = v]) = Len(s)
OBVIOUS

\* The fields of a generation can be set one by one.
LEMMA GenerationUpdate ==
  ASSUME NEW r \in Generation, NEW n \in Nat
  PROVE  /\ r.busy + 1 \in Nat
         /\ [r EXCEPT !.busy = n] \in Generation
         /\ [r EXCEPT !.running = n] \in Generation
BY DEF Generation

\* The state that run() leaves behind is well typed.
LEMMA TypeInit == Init => TypeOK
<1>. SUFFICES ASSUME Init PROVE TypeOK
  OBVIOUS
<1>1. gens \in Seq(Generation) /\ fromMaster \in Seq(Message)
  BY DEF Init
<1>2. toMaster \in Seq(Replies) /\ msg \in Message
  BY DEF Init, Replies, Msg, Message, NoTimestamp
<1>3. statsUp \in BOOLEAN /\ discarded \in BOOLEAN /\ closed \subseteq Nat
  BY Zenon DEF Init
<1>. QED BY <1>1, <1>2, <1>3 DEF Init, TypeOK, stateInit

\* The messages that arrive stay messages when the listener takes the first.
LEMMA ReceiveType ==
  ASSUME TypeOK, NEW types, Receive(types)
  PROVE  /\ fromMaster' \in Seq(Message)
         /\ Head(fromMaster) \in Message
BY DEF TypeOK, Receive

\* onSpawnMessage keeps the types of the fields it writes.
LEMMA SpawnMessageType ==
  ASSUME TypeOK, OnSpawnMessage
  PROVE  /\ lastSpawnTs' \in Nat /\ numClients' \in Nat
         /\ gens' \in Seq(Generation) /\ discarded' \in BOOLEAN
         /\ toMaster' \in Seq(Replies)
<1>1. CASE Stale(msg)
  BY <1>1 DEF TypeOK, OnSpawnMessage
<1>2. CASE ~Stale(msg)
  <2>1. lastSpawnTs' \in Nat
    BY <1>2 DEF TypeOK, OnSpawnMessage, Stale, Message, NoTimestamp
  <2>2. toMaster' = Append(toMaster, "spawning") /\ numClients' = 0 /\ UNCHANGED discarded
    BY <1>2 DEF OnSpawnMessage, StartSpawning, Reply
  <2>3. gens' \in Seq(Generation)
    <3>. DEFINE new == [pc |-> "check", size |-> msg.users, busy |-> 0, running |-> 0]
    <3>1. new \in Generation
      BY DEF Generation, Message, TypeOK
    <3>2. gens' = Append(gens, new)
      BY <1>2 DEF OnSpawnMessage, StartSpawning
    <3>. HIDE DEF new
    <3>. QED BY <3>1, <3>2 DEF TypeOK
  <2>. QED BY <2>1, <2>2, <2>3 DEF TypeOK, Replies
<1>. QED BY <1>1, <1>2

\* r.stop() keeps the types of the channel set and of the panic flag.
LEMMA StopType ==
  ASSUME TypeOK, Stop
  PROVE  closed' \subseteq Nat /\ panic' \in {"no", "close", "ack"}
<1>1. Len(gens) \in Nat
  BY DEF TypeOK
<1>2. closed' \subseteq Nat
  BY <1>1 DEF TypeOK, Stop, Current
<1>3. panic' \in {panic, "close"}
  BY Zenon DEF Stop
<1>. QED BY <1>2, <1>3 DEF TypeOK

\* What the listener sends is a reply.
LEMMA ReplyType ==
  ASSUME TypeOK, NEW m \in Replies, Reply(m)
  PROVE  toMaster' \in Seq(Replies)
BY DEF TypeOK, Reply

\* Every case of onMessage keeps the types.
LEMMA TypeListener == TypeOK /\ Listener => TypeOK'
<1>. SUFFICES ASSUME TypeOK, Listener PROVE TypeOK'
  OBVIOUS
<1>. USE DEF Active, stateInit, stateSpawning, stateRunning, stateStopped, runnerVars,
            masterVars
<1>1. CASE OnAck
  <2>1. panic' \in {panic, "ack"}
    BY <1>1, Zenon DEF OnAck
  <2>. QED BY <1>1, <2>1, ReceiveType DEF TypeOK, OnAck
<1>2. CASE OnSpawnWhenReady
  BY <1>2, ReceiveType DEF TypeOK, OnSpawnWhenReady
<1>3. CASE ClearStats
  BY <1>3 DEF TypeOK, ClearStats, Continue
<1>4. CASE OnSpawnWhenActive
  <2>1. Head(fromMaster) \in Message /\ fromMaster' \in Seq(Message)
    BY <1>4, ReceiveType DEF OnSpawnWhenActive
  <2>2. closed' \subseteq Nat /\ panic' \in {"no", "close", "ack"}
    BY <1>4, StopType DEF OnSpawnWhenActive
  <2>. QED BY <1>4, <2>1, <2>2 DEF TypeOK, OnSpawnWhenActive
<1>5. CASE OnSpawnMessage
  BY <1>5, SpawnMessageType DEF TypeOK, OnSpawnMessage, Continue
<1>6. CASE OnStop
  <2>1. fromMaster' \in Seq(Message)
    BY <1>6, ReceiveType DEF OnStop
  <2>2. closed' \subseteq Nat /\ panic' \in {"no", "close", "ack"}
    BY <1>6, StopType DEF OnStop
  <2>. QED BY <1>6, <2>1, <2>2 DEF TypeOK, OnStop
<1>7. CASE SendClientStopped
  <2>1. toMaster' \in Seq(Replies)
    BY <1>7, ReplyType DEF SendClientStopped, Replies
  <2>. QED BY <1>7, <2>1 DEF TypeOK, SendClientStopped, Continue
<1>8. CASE SendClientReadyAndWaitForAck
  <2>1. toMaster' \in Seq(Replies)
    BY <1>8, ReplyType DEF SendClientReadyAndWaitForAck, Replies
  <2>. QED BY <1>8, <2>1 DEF TypeOK, SendClientReadyAndWaitForAck, Continue
<1>9. CASE BecomeReady
  BY <1>9 DEF TypeOK, BecomeReady, Continue
<1>10. CASE OnQuit
  <2>1. fromMaster' \in Seq(Message)
    BY <1>10, ReceiveType DEF OnQuit
  <2>2. closed' \subseteq Nat /\ panic' \in {"no", "close", "ack"}
    BY <1>10, StopType DEF OnQuit, TypeOK
  <2>. QED BY <1>10, <2>1, <2>2 DEF TypeOK, OnQuit
<1>11. CASE PublishQuit
  <2>1. toMaster' \in Seq(Replies)
    BY <1>11, ReplyType DEF PublishQuit, OnQuiting, Replies
  <2>. QED BY <1>11, <2>1 DEF TypeOK, PublishQuit, Continue
<1>12. CASE OnCustomMessage
  <2>1. fromMaster' \in Seq(Message)
    BY <1>12, ReceiveType DEF OnCustomMessage
  <2>. QED BY <1>12, <2>1 DEF TypeOK, OnCustomMessage, routineVars
<1>13. CASE ListenerExit
  BY <1>13 DEF TypeOK, ListenerExit, Continue
<1>. QED BY <1>1, <1>2, <1>3, <1>4, <1>5, <1>6, <1>7, <1>8, <1>9, <1>10, <1>11, <1>12,
            <1>13 DEF Listener

\* The spawners, the users and the pool keep the types.
LEMMA TypeSpawner ==
  ASSUME TypeOK, NEW g \in Gens, Spawner(g) \/ TaskReturns(g) \/ PurgeIdle(g)
  PROVE  TypeOK' /\ Len(gens') = Len(gens)
<1>. USE DEF routineVars, masterVars
<1>0. gens[g] \in Generation /\ g \in DOMAIN gens
  BY DEF TypeOK, Gens
<1>1. CASE SpawnerCheck(g)
  <2>. PICK to \in {"done", "submit"} :
           gens' = [gens EXCEPT ![g].pc = to] /\ OnlyGens
    BY <1>1 DEF SpawnerCheck, SpawnerStep
  <2>. [gens[g] EXCEPT !.pc = to] \in Generation
    BY <1>0 DEF Generation
  <2>. QED BY <1>0, GensUpdate DEF TypeOK, OnlyGens
<1>2. CASE Submit(g)
  <2>. DEFINE r == IF gens[g].busy < gens[g].running THEN gens[g].running
                   ELSE gens[g].running + 1
              new1 == [gens[g] EXCEPT !.pc = "count"]
              new2 == [new1 EXCEPT !.busy = @ + 1]
              new3 == [new2 EXCEPT !.running = r]
  <2>1. new1 \in Generation
    BY <1>0 DEF Generation
  <2>. HIDE DEF new1
  <2>2. new2 \in Generation
    BY <2>1, GenerationUpdate
  <2>. USE DEF new1
  <2>3. r \in Nat
    BY <1>0 DEF Generation
  <2>4. new3 \in Generation
    BY <2>2, <2>3, GenerationUpdate
  <2>5. gens' = [gens EXCEPT ![g] = new3] /\ OnlyGens
    BY <1>0, <1>2 DEF Submit, Generation
  <2>. HIDE DEF new3
  <2>. QED BY <1>0, <2>4, <2>5, GensUpdate DEF TypeOK, OnlyGens
<1>3. CASE CountRunning(g)
  <2>1. [gens[g] EXCEPT !.pc = "check"] \in Generation /\ gens[g].running \in Nat
    BY <1>0 DEF Generation
  <2>. QED BY <1>0, <1>3, <2>1, GensUpdate DEF TypeOK, CountRunning, SpawnerStep
<1>4. CASE TaskReturns(g)
  <2>1. [gens[g] EXCEPT !.busy = @ - 1] \in Generation
    BY <1>0, <1>4 DEF TaskReturns, Generation
  <2>2. gens' = [gens EXCEPT ![g] = [gens[g] EXCEPT !.busy = @ - 1]]
    BY <1>4 DEF TaskReturns
  <2>. QED BY <1>0, <1>4, <2>1, <2>2, GensUpdate DEF TypeOK, TaskReturns, OnlyGens
<1>5. CASE PurgeIdle(g)
  <2>1. [gens[g] EXCEPT !.running = @ - 1] \in Generation
    BY <1>0, <1>5 DEF PurgeIdle, Generation
  <2>2. gens' = [gens EXCEPT ![g] = [gens[g] EXCEPT !.running = @ - 1]]
    BY <1>5 DEF PurgeIdle
  <2>. QED BY <1>0, <1>5, <2>1, <2>2, GensUpdate DEF TypeOK, PurgeIdle, OnlyGens
<1>. QED BY <1>1, <1>2, <1>3, <1>4, <1>5 DEF Spawner

\* Boomer.Quit and shutdown keep the types.
LEMMA TypeShutdown == TypeOK /\ Shutdown => TypeOK'
<1>. SUFFICES ASSUME TypeOK, Shutdown PROVE TypeOK'
  OBVIOUS
<1>. USE DEF runnerVars, routineVars, masterVars, QuitStep
<1>1. CASE Quit
  <2>1. toMaster' \in Seq(Replies)
    BY <1>1, ReplyType DEF Quit, OnQuiting, Replies
  <2>. QED BY <1>1, <2>1 DEF TypeOK, Quit
<1>2. CASE CloseStats \/ CloseShutdownChan
  BY <1>2 DEF TypeOK, CloseStats, CloseShutdownChan
<1>3. CASE StatsExit
  BY <1>3 DEF TypeOK, StatsExit
<1>. QED BY <1>1, <1>2, <1>3 DEF Shutdown

\* What the master sends, and what it takes from the worker, is well typed.
LEMMA MessageTypes ==
  /\ \A type \in {"ack", "stop", "quit", "custom"} : Msg(type) \in Message
  /\ \A users \in Nat, ts \in Int :
       [type |-> "spawn", users |-> users, ts |-> ts] \in Message
BY DEF Msg, Message, NoTimestamp

\* What a step of MasterSpawn sends.
LEMMA MasterSpawnStep ==
  ASSUME TypeOK, MasterSpawn
  PROVE  \E m \in Message :
           /\ fromMaster' = Append(fromMaster, m)
           /\ m.type = "spawn"
           /\ clock' \in Nat /\ clock <= clock' /\ m.ts <= clock'
           /\ FreshTimestamps /\ m.ts # NoTimestamp => clock < m.ts
<1>1. PICK users \in UserTotals,
           ts \in {t \in {NoTimestamp} \cup 1..(clock + 1) : Age(t) \in Timestamps} :
             /\ Send([type |-> "spawn", users |-> users, ts |-> ts])
             /\ clock' = IF ts > clock THEN ts ELSE clock
  BY DEF MasterSpawn
<1>2. users \in Nat
  BY ConfigAssumption
<1>3. clock \in Nat /\ ts \in Int /\ (FreshTimestamps /\ ts # NoTimestamp => clock < ts)
  BY DEF TypeOK, NoTimestamp, Age, FreshTimestamps
<1>. DEFINE m == [type |-> "spawn", users |-> users, ts |-> ts]
<1>4. m \in Message /\ m.type = "spawn" /\ m.ts = ts /\ fromMaster' = Append(fromMaster, m)
  BY <1>1, <1>2, <1>3, MessageTypes DEF Send
<1>5. clock' \in Nat /\ clock <= clock' /\ ts <= clock'
  BY <1>1, <1>3
<1>6. FreshTimestamps /\ ts # NoTimestamp => clock < ts
  BY <1>3
<1>. HIDE DEF m
<1>. QED BY <1>4, <1>5, <1>6

\* The master keeps the types.
LEMMA TypeMaster == TypeOK /\ Master => TypeOK'
<1>. SUFFICES ASSUME TypeOK, Master PROVE TypeOK'
  OBVIOUS
<1>. USE DEF runnerVars, routineVars, OnlyMaster, Send
<1>1. CASE MasterSpawn
  <2>1. fromMaster' \in Seq(Message) /\ clock' \in Nat
    <3>1. PICK m \in Message : fromMaster' = Append(fromMaster, m) /\ clock' \in Nat
      BY <1>1, MasterSpawnStep
    <3>. QED BY <3>1 DEF TypeOK
  <2>. QED BY <1>1, <2>1 DEF TypeOK, MasterSpawn
<1>2. CASE MasterStop
  <2>1. fromMaster' \in Seq(Message)
    BY <1>2, MessageTypes DEF TypeOK, MasterStop
  <2>. QED BY <1>2, <2>1 DEF TypeOK, MasterStop
<1>3. CASE MasterQuit
  <2>1. fromMaster' \in Seq(Message)
    BY <1>3, MessageTypes DEF TypeOK, MasterQuit
  <2>. QED BY <1>3, <2>1 DEF TypeOK, MasterQuit
<1>4. CASE MasterCustom
  <2>1. fromMaster' \in Seq(Message)
    BY <1>4, MessageTypes DEF TypeOK, MasterCustom
  <2>. QED BY <1>4, <2>1 DEF TypeOK, MasterCustom
<1>5. CASE MasterReceive
  <2>1. fromMaster' \in Seq(Message)
    <3>1. CASE fromMaster' = Append(fromMaster, Msg("ack"))
      <4>1. PICK m \in Message : fromMaster' = Append(fromMaster, m)
        BY <3>1, MessageTypes
      <4>. QED BY <4>1 DEF TypeOK
    <3>2. CASE UNCHANGED fromMaster
      BY <3>2 DEF TypeOK
    <3>. QED BY <1>5, <3>1, <3>2 DEF MasterReceive
  <2>2. toMaster' \in Seq(Replies)
    BY <1>5 DEF TypeOK, MasterReceive
  <2>3. view' \in {"ready", "gone", view}
    BY <1>5 DEF MasterReceive
  <2>. QED BY <1>5, <2>1, <2>2, <2>3 DEF TypeOK, MasterReceive
<1>. QED BY <1>1, <1>2, <1>3, <1>4, <1>5 DEF Master

\* Every step keeps the types.
LEMMA TypeStep == TypeOK /\ [Next]_vars => TypeOK'
<1>. SUFFICES ASSUME TypeOK, [Next]_vars PROVE TypeOK'
  OBVIOUS
<1>1. CASE Next
  BY <1>1, TypeListener, TypeSpawner, TypeShutdown, TypeMaster DEF Next
<1>2. CASE UNCHANGED vars
  BY <1>2 DEF vars, runnerVars, routineVars, masterVars, TypeOK
<1>. QED BY <1>1, <1>2

\* Every state of every behaviour of the worker and its master is well typed.
THEOREM TypeCorrect == Spec => []TypeOK
BY TypeInit, TypeStep, PTL DEF Spec

(***************************************************************************)
(* Queues                                                                  *)
(***************************************************************************)

\* Taking the first message shifts the others by one place.
LEMMA TailFacts ==
  ASSUME NEW S, NEW q \in Seq(S), q # << >>
  PROVE  /\ 1 \in DOMAIN q /\ Head(q) = q[1]
         /\ DOMAIN q \subseteq Nat \ {0}
         /\ \A i \in DOMAIN Tail(q) :
              i \in Nat \ {0} /\ i + 1 \in DOMAIN q /\ Tail(q)[i] = q[i + 1]
OBVIOUS

\* Sending a message leaves the others in their places.
LEMMA AppendFacts ==
  ASSUME NEW S, NEW q \in Seq(S), NEW e \in S
  PROVE  /\ \A i \in DOMAIN q : i \in Nat /\ i < Len(q) + 1
         /\ \A i \in DOMAIN Append(q, e) :
              \/ i \in DOMAIN q /\ Append(q, e)[i] = q[i]
              \/ i = Len(q) + 1 /\ Append(q, e)[i] = e
OBVIOUS

\* Where the messages are after the listener took the first one.
LEMMA QueuedTail ==
  ASSUME TypeOK, fromMaster # << >>, fromMaster' = Tail(fromMaster)
  PROVE  /\ 1 \in Queued(Head(fromMaster).type)
         /\ \A type : /\ \A i \in Queued(type) : i \in Nat \ {0}
                      /\ \A i \in Queued(type)' : i \in Nat \ {0} /\ i + 1 \in Queued(type)
                      /\ \A i \in Queued(type) : i # 1 => i - 1 \in Queued(type)'
                      /\ type # Head(fromMaster).type => 1 \notin Queued(type)
<1>1. \A i \in DOMAIN fromMaster :
        i \in Nat \ {0} /\ (i # 1 => i - 1 \in DOMAIN Tail(fromMaster)
                                     /\ Tail(fromMaster)[i - 1] = fromMaster[i])
  BY DEF TypeOK
<1>2. /\ 1 \in DOMAIN fromMaster /\ Head(fromMaster) = fromMaster[1]
      /\ \A i \in DOMAIN Tail(fromMaster) :
           i \in Nat \ {0} /\ i + 1 \in DOMAIN fromMaster
           /\ Tail(fromMaster)[i] = fromMaster[i + 1]
  BY TailFacts DEF TypeOK
<1>. QED BY <1>1, <1>2 DEF Queued

\* Where they are after the master sent another.
LEMMA QueuedSend ==
  ASSUME TypeOK, NEW m \in Message, fromMaster' = Append(fromMaster, m)
  PROVE  /\ Len(fromMaster) \in Nat
         /\ \A type : /\ \A i \in Queued(type) : i \in Nat /\ i < Len(fromMaster) + 1
                      /\ type # m.type => Queued(type)' = Queued(type)
         /\ Queued(m.type)' = Queued(m.type) \cup {Len(fromMaster) + 1}
<1>1. /\ Len(fromMaster) \in Nat
      /\ DOMAIN fromMaster' = DOMAIN fromMaster \cup {Len(fromMaster) + 1}
      /\ \A i \in DOMAIN fromMaster :
           i \in Nat /\ i < Len(fromMaster) + 1 /\ fromMaster'[i] = fromMaster[i]
      /\ fromMaster'[Len(fromMaster) + 1] = m
  BY DEF TypeOK
<1>. QED BY <1>1 DEF Queued

\* The listener and Boomer.Quit send nothing, or a reply other than client_ready.
NoReady == \/ UNCHANGED toMaster
           \/ \E r \in Replies \ {"client_ready"} : Reply(r)

\* Then the client_ready messages stay where they are.
LEMMA ReadiesReply ==
  ASSUME TypeOK, NoReady
  PROVE  Readies' = Readies
<1>1. CASE UNCHANGED toMaster
  BY <1>1 DEF Readies
<1>2. CASE \E r \in Replies \ {"client_ready"} : Reply(r)
  BY <1>2 DEF Readies, TypeOK, Reply
<1>. QED BY <1>1, <1>2 DEF NoReady

\* All steps but sendClientReadyAndWaitForAck are like that.
LEMMA OnlyOneReady ==
  /\ OnAck \/ OnSpawnWhenReady \/ ClearStats \/ OnSpawnWhenActive \/ OnSpawnMessage => NoReady
  /\ OnStop \/ SendClientStopped \/ BecomeReady \/ OnQuit \/ PublishQuit => NoReady
  /\ OnCustomMessage \/ ListenerExit \/ Shutdown => NoReady
<1>1. OnAck \/ OnSpawnWhenReady \/ ClearStats \/ OnSpawnWhenActive \/ OnSpawnMessage => NoReady
  BY DEF OnAck, OnSpawnWhenReady, ClearStats, OnSpawnWhenActive, OnSpawnMessage, NoReady,
         Replies
<1>2. OnStop \/ SendClientStopped \/ BecomeReady \/ OnQuit \/ PublishQuit => NoReady
  BY DEF OnStop, SendClientStopped, BecomeReady, OnQuit, PublishQuit, OnQuiting, NoReady,
         Replies
<1>3. OnCustomMessage \/ ListenerExit \/ Shutdown => NoReady
  BY DEF OnCustomMessage, ListenerExit, Shutdown, Quit, OnQuiting, CloseStats,
         CloseShutdownChan, StatsExit, NoReady, Replies
<1>. QED BY <1>1, <1>2, <1>3

(***************************************************************************)
(* The handshake of client_ready and ack                                   *)
(***************************************************************************)

\* A worker that answers a stop, before it has sent client_ready.
Answering == listener \in {"sendStopped", "sendReady"}

\* The handshake is inductive with what holds meanwhile: nothing of it is under
\* way and the master waits.
Handshake ==
  /\ AckHandshake
  /\ Answering => /\ Readies = {} /\ Queued("ack") = {} /\ Queued("stop") = {}
                  /\ view \in {"stopping", "gone"}

\* run() sends the one client_ready that waitForAck counts.
LEMMA HandshakeInit == Init => Handshake
<1>. SUFFICES ASSUME Init PROVE Handshake
  OBVIOUS
<1>1. \A type : Queued(type) = {}
  BY DEF Init, Queued
<1>2. Readies = {1}
  BY DEF Init, Readies
<1>. QED BY <1>1, <1>2 DEF Init, Handshake, Answering, AckHandshake, NoNegativeAck

\* Taking a message, if it is not an ack that is counted nor a stop that is
\* answered, and replying with anything but client_ready, leaves the handshake
\* as it is.
LEMMA HandshakeOther ==
  ASSUME TypeOK, Handshake, NoReady,
         UNCHANGED fromMaster \/ (fromMaster # << >> /\ fromMaster' = Tail(fromMaster)),
         UNCHANGED <<waitForAck, view>>, panic' \in {panic, "close"},
         Answering' => Answering
  PROVE  Handshake'
<1>1. Readies' = Readies
  BY ReadiesReply
<1>2. CASE UNCHANGED fromMaster
  <2>1. \A type : Queued(type)' = Queued(type)
    BY <1>2 DEF Queued
  <2>2. NoNegativeAck'
    BY DEF Handshake, AckHandshake, NoNegativeAck
  <2>. QED BY <1>1, <2>1, <2>2 DEF Handshake, AckHandshake
<1>3. CASE fromMaster # << >> /\ fromMaster' = Tail(fromMaster)
  <2>1. \A type : \A i \in Queued(type)' : i \in Nat \ {0} /\ i + 1 \in Queued(type)
    BY <1>3, QueuedTail
  <2>2. \A i, j \in Queued("ack")' : i = j
    BY <2>1 DEF Handshake, AckHandshake
  <2>3. \A i, j \in Queued("stop")' : i = j
    BY <2>1 DEF Handshake, AckHandshake
  <2>4. \A i \in Queued("ack")', j \in Queued("stop")' : i < j
    BY <2>1 DEF Handshake, AckHandshake
  <2>5. /\ Queued("ack") = {} => Queued("ack")' = {}
        /\ Queued("stop") = {} => Queued("stop")' = {}
    BY <2>1
  <2>6. NoNegativeAck'
    BY DEF Handshake, AckHandshake, NoNegativeAck
  <2>. QED BY <1>1, <2>2, <2>3, <2>4, <2>5, <2>6 DEF Handshake, AckHandshake
<1>. QED BY <1>2, <1>3

\* onAckMessage takes the one ack under way and brings the counter to zero.
LEMMA HandshakeAck == TypeOK /\ Handshake /\ OnAck => Handshake'
<1>. SUFFICES ASSUME TypeOK, Handshake, OnAck PROVE Handshake'
  OBVIOUS
<1>1. /\ fromMaster # << >> /\ fromMaster' = Tail(fromMaster) /\ Head(fromMaster).type = "ack"
      /\ ~Answering'
  BY DEF OnAck, Receive, Answering
<1>2. \A type : \A i \in Queued(type)' : i \in Nat \ {0} /\ i + 1 \in Queued(type)
  BY <1>1, QueuedTail
<1>3. 1 \in Queued("ack")
  BY <1>1, QueuedTail
<1>4. Queued("ack")' = {}
  BY <1>2, <1>3 DEF Handshake, AckHandshake
<1>5. Readies = {} /\ waitForAck = 1
  BY <1>3 DEF Handshake, AckHandshake
<1>6. Readies' = {} /\ waitForAck' = 0 /\ UNCHANGED <<panic, view>>
  BY <1>5 DEF OnAck, Readies, masterVars
<1>7. \A i, j \in Queued("stop")' : i = j
  BY <1>2 DEF Handshake, AckHandshake
<1>8. Queued("stop") = {} => Queued("stop")' = {}
  BY <1>2
<1>. QED BY <1>1, <1>4, <1>6, <1>7, <1>8 DEF Handshake, AckHandshake, NoNegativeAck

\* A stop that is answered was the only one, behind any ack.
LEMMA HandshakeStop == TypeOK /\ Handshake /\ OnStop => Handshake'
<1>. SUFFICES ASSUME TypeOK, Handshake, OnStop PROVE Handshake'
  OBVIOUS
<1>1. fromMaster # << >> /\ fromMaster' = Tail(fromMaster) /\ Head(fromMaster).type = "stop"
  BY DEF OnStop, Receive
<1>2. \A type : \A i \in Queued(type)' : i \in Nat \ {0} /\ i + 1 \in Queued(type)
  BY <1>1, QueuedTail
<1>3. 1 \in Queued("stop") /\ \A i \in Queued("ack") : i \in Nat \ {0}
  BY <1>1, QueuedTail
<1>4. Queued("stop")' = {} /\ Queued("ack")' = {}
  BY <1>2, <1>3 DEF Handshake, AckHandshake
<1>5. Readies = {} /\ view \in {"stopping", "gone"}
  BY <1>3 DEF Handshake, AckHandshake
<1>6. Readies' = {} /\ UNCHANGED <<waitForAck, view>>
  BY <1>5 DEF OnStop, Readies, masterVars
<1>7. panic' \in {panic, "close"}
  BY Zenon DEF OnStop, Stop
<1>8. view' \in {"stopping", "gone"} /\ NoNegativeAck' /\ waitForAck' \in {0, 1}
  BY <1>5, <1>6, <1>7 DEF Handshake, AckHandshake, NoNegativeAck
<1>. QED BY <1>4, <1>6, <1>8 DEF Handshake, AckHandshake

\* The answer to stop sets the counter for the client_ready it sends.
LEMMA HandshakeReady ==
  TypeOK /\ Handshake /\ SendClientReadyAndWaitForAck => Handshake'
<1>. SUFFICES ASSUME TypeOK, Handshake, SendClientReadyAndWaitForAck PROVE Handshake'
  OBVIOUS
<1>1. /\ Answering /\ ~Answering' /\ waitForAck' = 1
      /\ UNCHANGED <<fromMaster, view, panic>>
  BY DEF SendClientReadyAndWaitForAck, Continue, Answering, masterVars
<1>2. Readies = {} /\ Queued("ack") = {} /\ Queued("stop") = {} /\ view \in {"stopping", "gone"}
  BY <1>1 DEF Handshake
<1>3. \A i \in Readies' : i = Len(toMaster) + 1
  BY <1>2 DEF SendClientReadyAndWaitForAck, Reply, Readies, TypeOK
<1>4. Queued("ack")' = {} /\ Queued("stop")' = {}
  BY <1>1, <1>2 DEF Queued
<1>5. NoNegativeAck'
  BY <1>1 DEF Handshake, AckHandshake, NoNegativeAck
<1>. QED BY <1>1, <1>2, <1>3, <1>4, <1>5 DEF Handshake, AckHandshake

\* Every case of onMessage keeps the handshake.
LEMMA HandshakeListener == TypeOK /\ Handshake /\ Listener => Handshake'
<1>. SUFFICES ASSUME TypeOK, Handshake, Listener PROVE Handshake'
  OBVIOUS
<1>. USE DEF masterVars, runnerVars, routineVars
<1>1. CASE OnAck
  BY <1>1, HandshakeAck
<1>2. CASE OnStop
  BY <1>2, HandshakeStop
<1>3. CASE SendClientReadyAndWaitForAck
  BY <1>3, HandshakeReady
<1>4. CASE OnSpawnWhenReady \/ OnCustomMessage
  <2>1. /\ fromMaster # << >> /\ fromMaster' = Tail(fromMaster) /\ ~Answering'
        /\ UNCHANGED <<waitForAck, view, panic>>
    BY <1>4 DEF OnSpawnWhenReady, OnCustomMessage, Receive, Answering
  <2>. QED BY <1>4, <2>1, HandshakeOther, OnlyOneReady
<1>5. CASE OnSpawnWhenActive \/ OnQuit
  <2>1. /\ fromMaster # << >> /\ fromMaster' = Tail(fromMaster) /\ ~Answering'
        /\ UNCHANGED <<waitForAck, view>>
    BY <1>5 DEF OnSpawnWhenActive, OnQuit, Receive, Answering
  <2>2. panic' \in {panic, "close"}
    BY <1>5, Zenon DEF OnSpawnWhenActive, OnQuit, Stop
  <2>. QED BY <1>5, <2>1, <2>2, HandshakeOther, OnlyOneReady
<1>6. CASE ClearStats \/ OnSpawnMessage \/ SendClientStopped \/ BecomeReady \/ PublishQuit
           \/ ListenerExit
  <2>1. UNCHANGED <<fromMaster, waitForAck, view, panic>> /\ (Answering' => Answering)
    BY <1>6 DEF ClearStats, OnSpawnMessage, SendClientStopped, BecomeReady, PublishQuit,
                ListenerExit, Continue, Answering
  <2>. QED BY <1>6, <2>1, HandshakeOther, OnlyOneReady
<1>. QED BY <1>1, <1>2, <1>3, <1>4, <1>5, <1>6 DEF Listener

\* The spawners, the users and Boomer.Quit have no part in the handshake.
LEMMA HandshakeRest ==
  ASSUME TypeOK, Handshake,
         \/ \E g \in Gens : Spawner(g) \/ TaskReturns(g) \/ PurgeIdle(g)
         \/ Shutdown
  PROVE  Handshake'
<1>1. /\ NoReady
      /\ UNCHANGED <<fromMaster, waitForAck, view, panic, listener>>
  <2>1. CASE Shutdown
    <3>1. UNCHANGED <<fromMaster, waitForAck, view, panic, listener>>
      BY <2>1 DEF Shutdown, Quit, CloseStats, CloseShutdownChan, QuitStep, StatsExit,
                  runnerVars, routineVars, masterVars
    <3>. QED BY <2>1, <3>1, OnlyOneReady
  <2>2. CASE \E g \in Gens : Spawner(g) \/ TaskReturns(g) \/ PurgeIdle(g)
    BY <2>2 DEF Spawner, SpawnerCheck, Submit, CountRunning, TaskReturns, PurgeIdle, OnlyGens,
                NoReady, routineVars, masterVars
  <2>. QED BY <2>1, <2>2
<1>. QED BY <1>1, HandshakeOther DEF Answering

\* The master's spawn, quit and custom messages.
LEMMA HandshakeSend ==
  ASSUME TypeOK, Handshake,
         NEW m \in Message, m.type \notin {"ack", "stop"},
         fromMaster' = Append(fromMaster, m),
         UNCHANGED <<toMaster, waitForAck, panic, listener>>,
         view' \in {view, "gone"} \/ (view = "ready" /\ view' = "active")
  PROVE  Handshake'
<1>1. Queued("ack")' = Queued("ack") /\ Queued("stop")' = Queued("stop")
  BY QueuedSend
<1>2. Readies' = Readies /\ Answering' = Answering
  BY DEF Readies, Answering
<1>3. NoNegativeAck' /\ waitForAck' \in {0, 1}
  BY DEF Handshake, AckHandshake, NoNegativeAck
<1>4. Answering => view \in {"stopping", "gone"}
  BY DEF Handshake
<1>. QED BY <1>1, <1>2, <1>3, <1>4 DEF Handshake, AckHandshake

\* The master answers a client_ready once and stops only a worker it has acked.
LEMMA HandshakeMaster == TypeOK /\ Handshake /\ Master => Handshake'
<1>. SUFFICES ASSUME TypeOK, Handshake, Master PROVE Handshake'
  OBVIOUS
<1>. USE DEF runnerVars, routineVars, OnlyMaster, Send
<1>0. UNCHANGED <<waitForAck, panic, listener>> /\ Answering' = Answering
  BY DEF Master, MasterSpawn, MasterStop, MasterQuit, MasterCustom, MasterReceive, Answering
<1>1. CASE MasterSpawn
  <2>1. PICK m \in Message : fromMaster' = Append(fromMaster, m) /\ m.type = "spawn"
    BY <1>1, MasterSpawnStep
  <2>2. /\ UNCHANGED toMaster
        /\ view' = view \/ (view = "ready" /\ view' = "active")
    BY <1>1 DEF MasterSpawn
  <2>. QED BY <1>0, <2>1, <2>2, HandshakeSend
<1>2. CASE MasterStop
  <2>. DEFINE m == Msg("stop")
  <2>0. m \in Message /\ m.type = "stop" /\ fromMaster' = Append(fromMaster, m)
    BY <1>2, MessageTypes DEF MasterStop, Msg
  <2>. HIDE DEF m
  <2>1. Readies = {} /\ Queued("stop") = {} /\ ~Answering
    BY <1>2 DEF MasterStop, Handshake, AckHandshake
  <2>2. Queued("ack")' = Queued("ack") /\ \A i \in Queued("ack") : i < Len(fromMaster) + 1
    BY <2>0, QueuedSend
  <2>3. \A i \in Queued("stop")' : i = Len(fromMaster) + 1
    BY <2>0, <2>1, QueuedSend
  <2>4. Readies' = {} /\ view' = "stopping"
    BY <1>2, <2>1 DEF Readies, MasterStop
  <2>5. NoNegativeAck' /\ waitForAck' \in {0, 1}
    BY <1>0 DEF Handshake, AckHandshake, NoNegativeAck
  <2>. QED BY <1>0, <2>1, <2>2, <2>3, <2>4, <2>5 DEF Handshake, AckHandshake
<1>3. CASE MasterQuit
  <2>1. Msg("quit") \in Message /\ Msg("quit").type = "quit"
    BY MessageTypes DEF Msg
  <2>. QED BY <1>0, <1>3, <2>1, HandshakeSend DEF MasterQuit
<1>4. CASE MasterCustom
  <2>1. Msg("custom") \in Message /\ Msg("custom").type = "custom"
    BY MessageTypes DEF Msg
  <2>. QED BY <1>0, <1>4, <2>1, HandshakeSend DEF MasterCustom
<1>5. CASE MasterReceive
  <2>1. toMaster # << >> /\ toMaster' = Tail(toMaster)
    BY <1>5 DEF MasterReceive
  <2>2. \A i \in Readies' : i \in Nat \ {0} /\ i + 1 \in Readies
    BY <2>1, TailFacts DEF Readies, TypeOK
  <2>3. \A i, j \in Readies' : i = j
    BY <2>2 DEF Handshake, AckHandshake
  <2>4. Readies = {} => Readies' = {}
    BY <2>2
  <2>5. NoNegativeAck' /\ waitForAck' \in {0, 1}
    BY <1>0 DEF Handshake, AckHandshake, NoNegativeAck
  <2>6. CASE Head(toMaster) = "client_ready" /\ view \in {"unknown", "stopping"}
    <3>. DEFINE m == Msg("ack")
    <3>0. m \in Message /\ m.type = "ack" /\ fromMaster' = Append(fromMaster, m)
      BY <1>5, <2>6, MessageTypes DEF MasterReceive, Msg
    <3>. HIDE DEF m
    <3>1. 1 \in Readies
      BY <2>1, <2>6, TailFacts DEF Readies, TypeOK
    <3>2. Readies' = {} /\ ~Answering
      BY <2>2, <3>1 DEF Handshake, AckHandshake
    <3>3. Queued("ack") = {} /\ Queued("stop") = {} /\ waitForAck = 1
      BY <3>1 DEF Handshake, AckHandshake
    <3>4. Queued("stop")' = {} /\ \A i \in Queued("ack")' : i = Len(fromMaster) + 1
      BY <3>0, <3>3, QueuedSend
    <3>. QED BY <1>0, <2>5, <3>2, <3>3, <3>4 DEF Handshake, AckHandshake
  <2>7. CASE ~(Head(toMaster) = "client_ready" /\ view \in {"unknown", "stopping"})
    <3>1. UNCHANGED fromMaster /\ view' \in {view, "gone"}
      BY <1>5, <2>7 DEF MasterReceive
    <3>2. \A type : Queued(type)' = Queued(type)
      BY <3>1 DEF Queued
    <3>. QED BY <1>0, <2>3, <2>4, <2>5, <3>1, <3>2 DEF Handshake, AckHandshake
  <2>. QED BY <2>6, <2>7
<1>. QED BY <1>1, <1>2, <1>3, <1>4, <1>5 DEF Master

\* Every step keeps the handshake.
LEMMA HandshakeStep == TypeOK /\ Handshake /\ [Next]_vars => Handshake'
<1>. SUFFICES ASSUME TypeOK, Handshake, [Next]_vars PROVE Handshake'
  OBVIOUS
<1>1. CASE Listener
  BY <1>1, HandshakeListener
<1>2. CASE Master
  BY <1>2, HandshakeMaster
<1>3. CASE \/ \E g \in Gens : Spawner(g) \/ TaskReturns(g) \/ PurgeIdle(g)
           \/ Shutdown
  BY <1>3, HandshakeRest
<1>4. CASE UNCHANGED vars
  BY <1>4, HandshakeOther DEF vars, runnerVars, routineVars, masterVars, NoReady, Answering
<1>. QED BY <1>1, <1>2, <1>3, <1>4 DEF Next

\* At most one client_ready or ack is ever under way and waitForAck counts it,
\* however long the answers to stop wait for room in the channel and whatever
\* timestamps the spawn messages carry.
THEOREM HandshakeCorrect == Spec => []AckHandshake
<1>1. Handshake => AckHandshake
  BY DEF Handshake
<1>. QED BY <1>1, TypeInit, TypeStep, HandshakeInit, HandshakeStep, PTL DEF Spec

\* onAckMessage never takes the WaitGroup below zero, so it never panics.
THEOREM AckNeverPanics == Spec => []NoNegativeAck
<1>1. AckHandshake => NoNegativeAck
  BY DEF AckHandshake
<1>. QED BY <1>1, HandshakeCorrect, PTL

(***************************************************************************)
(* r.state, the listener and stopChan, whatever the timestamps             *)
(***************************************************************************)

\* Where the listener can be in each state; no worker reaches stateRunning.
ListenerAt ==
  /\ listener \in {"sendStopped", "sendReady", "setInit"} <=> state = stateStopped
  /\ listener \in {"clearStats", "onSpawn"} => state = stateSpawning
  /\ state # stateRunning

\* Inductive: no stopChan is closed before it is made, and only the last one can be
\* open, as r.state and the listener tell.
StopChans ==
  /\ ListenerAt
  /\ StopChanDiscipline
  /\ OnlyLastStopChanOpen
  /\ closed \subseteq 0..Current

\* Before the first spawn message there is no stopChan.
LEMMA StopChansInit == Init => StopChans
<1>. SUFFICES ASSUME Init PROVE StopChans
  OBVIOUS
<1>1. Gens = {} /\ Current = 0 /\ closed = {}
  BY DEF Init, Gens, Current
<1>2. ListenerAt
  BY DEF Init, ListenerAt, stateInit, stateSpawning, stateRunning, stateStopped
<1>3. StopChanDiscipline
  BY <1>1 DEF Init, StopChanDiscipline, NoDoubleClose, StopChanOpen, Active, stateInit,
              stateSpawning, stateRunning
<1>. QED BY <1>1, <1>2, <1>3 DEF StopChans, OnlyLastStopChanOpen

\* Steps that open and close no channel and move the listener between places
\* with the same meaning.
LEMMA StopChansSame ==
  ASSUME TypeOK, StopChans, UNCHANGED <<closed, discarded>>,
         gens' \in Seq(Generation), Len(gens') = Len(gens),
         NoDoubleClose => NoDoubleClose',
         \/ UNCHANGED <<state, listener>>
         \/ ~StopChanOpen /\ ListenerAt' /\ state' \notin Active
         \/ ~StopChanOpen /\ ListenerAt' /\ listener' # "select"
         \/ state' = state /\ listener = "select" /\ listener' = "exited"
  PROVE  StopChans'
<1>1. Gens' = Gens /\ Current' = Current
  BY DEF TypeOK, Gens, Current
<1>2. /\ OnlyLastStopChanOpen' /\ closed' \subseteq 0..Current'
      /\ StopChanOpen' = StopChanOpen
  BY <1>1 DEF StopChans, OnlyLastStopChanOpen, StopChanOpen
<1>3. ListenerAt'
  BY DEF StopChans, ListenerAt
<1>4. StopChanDiscipline'
  BY <1>2 DEF StopChans, StopChanDiscipline
<1>. QED BY <1>2, <1>3, <1>4 DEF StopChans

\* stop() leaves no channel open, and panics only after a discarded spawn.
LEMMA StopChansStop ==
  ASSUME TypeOK, StopChans, Stop, listener = "select", state \in Active,
         UNCHANGED <<gens, discarded>>, ListenerAt', listener' # "select"
  PROVE  StopChans'
<1>1. Gens' = Gens /\ Current' = Current /\ closed' = closed \cup {Current}
      /\ Current \in Nat
  BY DEF Gens, Current, Stop, TypeOK
<1>2. ~StopChanOpen' /\ OnlyLastStopChanOpen' /\ closed' \subseteq 0..Current'
  BY <1>1 DEF StopChanOpen, OnlyLastStopChanOpen, StopChans
<1>3. discarded \/ NoDoubleClose'
  BY Zenon DEF Stop, StopChans, StopChanDiscipline, NoDoubleClose
<1>. QED BY <1>1, <1>2, <1>3 DEF StopChans, StopChanDiscipline

\* onSpawnMessage makes the only open stopChan, or discards the message.
LEMMA StopChansSpawn == TypeOK /\ StopChans /\ OnSpawnMessage => StopChans'
<1>. SUFFICES ASSUME TypeOK, StopChans, OnSpawnMessage PROVE StopChans'
  OBVIOUS
<1>1. /\ listener = "onSpawn" /\ listener' = "select" /\ UNCHANGED <<state, closed, panic>>
      /\ state = stateSpawning
  BY DEF OnSpawnMessage, Continue, StopChans, ListenerAt
<1>2. ~StopChanOpen /\ ListenerAt'
  BY <1>1 DEF StopChans, StopChanDiscipline, ListenerAt, stateSpawning, stateStopped,
              stateRunning
<1>3. Gens = 1..Current /\ Current \in Nat
  BY DEF Gens, Current, TypeOK
<1>4. CASE Stale(msg)
  <2>1. discarded' = TRUE /\ gens' = gens
    BY <1>4 DEF OnSpawnMessage
  <2>2. Gens' = Gens /\ Current' = Current /\ StopChanOpen' = StopChanOpen
    BY <1>1, <2>1 DEF Gens, Current, StopChanOpen
  <2>. QED BY <1>1, <1>2, <2>1, <2>2 DEF StopChans, StopChanDiscipline, OnlyLastStopChanOpen
<1>5. CASE ~Stale(msg)
  <2>. DEFINE new == [pc |-> "check", size |-> msg.users, busy |-> 0, running |-> 0]
  <2>1. gens' = Append(gens, new) /\ UNCHANGED discarded
    BY <1>5 DEF OnSpawnMessage, StartSpawning
  <2>. HIDE DEF new
  <2>2. Gens' = 1..(Current + 1) /\ Current' = Current + 1
    BY <2>1 DEF TypeOK, Gens, Current
  <2>3. closed' \subseteq 0..Current' /\ StopChanOpen'
    BY <1>1, <1>3, <2>2 DEF StopChans, StopChanOpen
  <2>4. OnlyLastStopChanOpen'
    BY <1>1, <1>2, <1>3, <2>2 DEF StopChans, OnlyLastStopChanOpen, StopChanOpen
  <2>5. StopChanDiscipline'
    BY <1>1, <2>1, <2>3 DEF StopChans, StopChanDiscipline, NoDoubleClose
  <2>. QED BY <1>2, <2>3, <2>4, <2>5 DEF StopChans
<1>. QED BY <1>4, <1>5

\* Every case of onMessage keeps it.
LEMMA StopChansListener == TypeOK /\ StopChans /\ Listener => StopChans'
<1>. SUFFICES ASSUME TypeOK, StopChans, Listener PROVE StopChans'
  OBVIOUS
<1>. USE DEF masterVars, runnerVars, routineVars, Active, stateInit, stateSpawning,
            stateRunning, stateStopped
<1>1. CASE OnAck
  <2>1. UNCHANGED <<listener, gens, state, closed, discarded>>
    BY <1>1 DEF OnAck
  <2>2. NoDoubleClose => NoDoubleClose'
    <3>1. panic' \in {panic, "ack"}
      BY <1>1, Zenon DEF OnAck
    <3>. QED BY <3>1 DEF NoDoubleClose
  <2>. QED BY <2>1, <2>2, StopChansSame DEF TypeOK
<1>2. CASE OnSpawnWhenReady
  <2>1. /\ UNCHANGED <<gens, closed, discarded, panic>> /\ listener = "select"
        /\ listener' = "clearStats" /\ state' = stateSpawning /\ state \notin Active
    BY <1>2 DEF OnSpawnWhenReady, Receive
  <2>2. ~StopChanOpen /\ ListenerAt'
    BY <2>1 DEF StopChans, StopChanDiscipline, ListenerAt
  <2>. QED BY <2>1, <2>2, StopChansSame DEF TypeOK, NoDoubleClose
<1>3. CASE OnSpawnWhenActive
  <2>1. /\ Stop /\ UNCHANGED <<gens, discarded>> /\ listener = "select" /\ state \in Active
        /\ listener' = "onSpawn" /\ state' = stateSpawning
    BY <1>3 DEF OnSpawnWhenActive, Receive
  <2>. QED BY <2>1, StopChansStop DEF ListenerAt
<1>4. CASE OnSpawnMessage
  BY <1>4, StopChansSpawn
<1>5. CASE OnStop
  <2>1. /\ Stop /\ UNCHANGED <<gens, discarded>> /\ listener = "select" /\ state \in Active
        /\ listener' = "sendStopped" /\ state' = stateStopped
    BY <1>5 DEF OnStop, Receive
  <2>. QED BY <2>1, StopChansStop DEF ListenerAt
<1>6. CASE OnQuit
  <2>1. /\ UNCHANGED <<gens, discarded, state>> /\ listener = "select"
        /\ listener' = "publishQuit"
    BY <1>6 DEF OnQuit, Receive
  <2>2. ListenerAt'
    BY <2>1 DEF ListenerAt, StopChans
  <2>3. CASE state \in Active
    BY <1>6, <2>1, <2>2, <2>3, StopChansStop DEF OnQuit
  <2>4. CASE state \notin Active
    <3>1. UNCHANGED <<closed, panic>> /\ ~StopChanOpen
      BY <1>6, <2>4 DEF OnQuit, StopChans, StopChanDiscipline
    <3>. QED BY <2>1, <2>2, <3>1, StopChansSame DEF TypeOK, NoDoubleClose
  <2>. QED BY <2>3, <2>4
<1>7. CASE ClearStats \/ SendClientStopped \/ SendClientReadyAndWaitForAck \/ BecomeReady
           \/ PublishQuit
  <2>1. UNCHANGED <<gens, closed, discarded, panic>> /\ listener \notin {"select", "exited"}
    BY <1>7 DEF ClearStats, SendClientStopped, SendClientReadyAndWaitForAck, BecomeReady,
                PublishQuit, Continue
  <2>2. ~StopChanOpen /\ ListenerAt' /\ (state' \notin Active \/ listener' # "select")
    BY <1>7, <2>1 DEF ClearStats, SendClientStopped, SendClientReadyAndWaitForAck, BecomeReady,
                      PublishQuit, Continue, StopChans, StopChanDiscipline, ListenerAt
  <2>. QED BY <2>1, <2>2, StopChansSame DEF TypeOK, NoDoubleClose
<1>8. CASE OnCustomMessage
  BY <1>8, StopChansSame DEF OnCustomMessage, TypeOK, NoDoubleClose
<1>9. CASE ListenerExit
  BY <1>9, StopChansSame DEF ListenerExit, Continue, TypeOK, NoDoubleClose
<1>. QED BY <1>1, <1>2, <1>3, <1>4, <1>5, <1>6, <1>7, <1>8, <1>9 DEF Listener

\* Only the listener opens and closes a stopChan.
LEMMA OthersKeepStopChan ==
  ASSUME TypeOK,
         \/ \E g \in Gens : Spawner(g) \/ TaskReturns(g) \/ PurgeIdle(g)
         \/ Shutdown \/ Master \/ UNCHANGED vars
  PROVE  /\ UNCHANGED <<state, closed, listener, discarded, panic, lastSpawnTs, msg>>
         /\ gens' \in Seq(Generation) /\ Len(gens') = Len(gens)
<1>1. CASE \E g \in Gens : Spawner(g) \/ TaskReturns(g) \/ PurgeIdle(g)
  <2>. PICK g \in Gens : Spawner(g) \/ TaskReturns(g) \/ PurgeIdle(g)
    BY <1>1
  <2>1. gens' \in Seq(Generation) /\ Len(gens') = Len(gens)
    BY TypeSpawner DEF TypeOK
  <2>2. UNCHANGED <<state, closed, listener, discarded, panic, lastSpawnTs, msg>>
    BY DEF Spawner, SpawnerCheck, SpawnerStep, Submit, CountRunning, TaskReturns, PurgeIdle,
           OnlyGens, routineVars
  <2>. QED BY <2>1, <2>2
<1>2. CASE Shutdown \/ Master \/ UNCHANGED vars
  <2>1. UNCHANGED <<state, closed, listener, discarded, panic, lastSpawnTs, msg, gens>>
    BY <1>2 DEF Shutdown, Quit, CloseStats, CloseShutdownChan, QuitStep, StatsExit, Master,
                MasterSpawn, MasterStop, MasterQuit, MasterCustom, MasterReceive, OnlyMaster,
                vars, runnerVars, routineVars
  <2>. QED BY <2>1 DEF TypeOK
<1>. QED BY <1>1, <1>2

\* Every step keeps it.
LEMMA StopChansStep == TypeOK /\ StopChans /\ [Next]_vars => StopChans'
<1>. SUFFICES ASSUME TypeOK, StopChans, [Next]_vars PROVE StopChans'
  OBVIOUS
<1>1. CASE Listener
  BY <1>1, StopChansListener
<1>2. CASE \/ \E g \in Gens : Spawner(g) \/ TaskReturns(g) \/ PurgeIdle(g)
           \/ Shutdown \/ Master \/ UNCHANGED vars
  BY <1>2, OthersKeepStopChan, StopChansSame DEF NoDoubleClose
<1>. QED BY <1>1, <1>2 DEF Next

\* StopChans holds throughout.
LEMMA StopChansCorrect == Spec => []StopChans
BY TypeInit, TypeStep, StopChansInit, StopChansStep, PTL DEF Spec

\* Until a spawn message is discarded, r.state tells the listener exactly when
\* stopChan is open and stop() does not panic.
THEOREM StopChanCorrect == Spec => []StopChanDiscipline
<1>1. StopChans => StopChanDiscipline
  BY DEF StopChans
<1>. QED BY <1>1, StopChansCorrect, PTL

\* Whatever timestamps spawn messages carry, and however many of them overlap,
\* only the goroutines of the last startSpawning can be without a closed stopChan.
THEOREM AtMostOneLoad == Spec => []OnlyLastStopChanOpen
<1>1. StopChans => OnlyLastStopChanOpen
  BY DEF StopChans
<1>. QED BY <1>1, StopChansCorrect, PTL

(***************************************************************************)
(* When the timestamps of the spawn messages increase                      *)
(***************************************************************************)

\* A spawn message is newer than ts, if it carries a timestamp at all.
NewerThan(ts, m) == m.type = "spawn" /\ m.ts # NoTimestamp => ts < m.ts /\ m.ts <= clock

\* Inductive: nothing was discarded, because what is queued is newer than what the
\* runner has seen, and in increasing order.
TimestampsIncrease ==
  /\ ~discarded
  /\ lastSpawnTs <= clock
  /\ \A i \in DOMAIN fromMaster : NewerThan(lastSpawnTs, fromMaster[i])
  /\ \A i, j \in DOMAIN fromMaster :
       i < j /\ fromMaster[i].type = "spawn" => NewerThan(fromMaster[i].ts, fromMaster[j])
  /\ listener \in {"clearStats", "onSpawn"} =>
       /\ msg.type = "spawn" /\ NewerThan(lastSpawnTs, msg)
       /\ \A i \in DOMAIN fromMaster : NewerThan(msg.ts, fromMaster[i])

\* What taking the first message leaves of the order of the timestamps.
LEMMA TimestampsTail ==
  ASSUME TypeOK, TimestampsIncrease, fromMaster # << >>, fromMaster' = Tail(fromMaster)
  PROVE  /\ \A i \in DOMAIN fromMaster' : NewerThan(lastSpawnTs, fromMaster'[i])
         /\ \A i, j \in DOMAIN fromMaster' :
              i < j /\ fromMaster'[i].type = "spawn" =>
                NewerThan(fromMaster'[i].ts, fromMaster'[j])
         /\ NewerThan(lastSpawnTs, Head(fromMaster))
         /\ Head(fromMaster).type = "spawn" =>
              \A i \in DOMAIN fromMaster' : NewerThan(Head(fromMaster).ts, fromMaster'[i])
<1>1. /\ 1 \in DOMAIN fromMaster /\ Head(fromMaster) = fromMaster[1]
      /\ \A i \in DOMAIN fromMaster' :
           i \in Nat \ {0} /\ i + 1 \in DOMAIN fromMaster /\ fromMaster'[i] = fromMaster[i + 1]
  BY TailFacts DEF TypeOK
<1>2. \A i \in DOMAIN fromMaster' : NewerThan(lastSpawnTs, fromMaster'[i])
  BY <1>1 DEF TimestampsIncrease
<1>3. ASSUME NEW i \in DOMAIN fromMaster', NEW j \in DOMAIN fromMaster',
             i < j, fromMaster'[i].type = "spawn"
      PROVE  NewerThan(fromMaster'[i].ts, fromMaster'[j])
  <2>1. i + 1 < j + 1
    BY <1>1, <1>3
  <2>. QED BY <1>1, <1>3, <2>1 DEF TimestampsIncrease
<1>4. NewerThan(lastSpawnTs, Head(fromMaster))
  BY <1>1 DEF TimestampsIncrease
<1>5. ASSUME Head(fromMaster).type = "spawn", NEW i \in DOMAIN fromMaster'
      PROVE  NewerThan(Head(fromMaster).ts, fromMaster'[i])
  <2>1. 1 < i + 1
    BY <1>1
  <2>. QED BY <1>1, <1>5, <2>1 DEF TimestampsIncrease
<1>. QED BY <1>2, <1>3, <1>4, <1>5

\* Steps that leave the queue, the clocks and the message under way alone.
LEMMA TimestampsSame ==
  ASSUME TimestampsIncrease, UNCHANGED <<lastSpawnTs, clock, discarded, fromMaster, msg>>,
         listener' \in {"clearStats", "onSpawn"} => listener \in {"clearStats", "onSpawn"}
  PROVE  TimestampsIncrease'
BY DEF TimestampsIncrease, NewerThan

\* Sending a message, a spawn message among them.
LEMMA TimestampsSend ==
  ASSUME TypeOK, TimestampsIncrease, NEW m \in Message,
         fromMaster' = Append(fromMaster, m),
         UNCHANGED <<lastSpawnTs, listener, msg, discarded>>,
         clock' \in Nat, clock <= clock',
         m.type = "spawn" /\ m.ts # NoTimestamp => clock < m.ts /\ m.ts <= clock'
  PROVE  TimestampsIncrease'
<1>. DEFINE handling == listener \in {"clearStats", "onSpawn"}
<1>1. /\ \A i \in DOMAIN fromMaster : i \in Nat /\ i < Len(fromMaster) + 1
      /\ \A i \in DOMAIN fromMaster' :
           \/ i \in DOMAIN fromMaster /\ fromMaster'[i] = fromMaster[i]
           \/ i = Len(fromMaster) + 1 /\ fromMaster'[i] = m
  BY AppendFacts DEF TypeOK
<1>2. /\ lastSpawnTs \in Nat /\ clock \in Nat /\ m.ts \in Int /\ msg.ts \in Int
      /\ Len(fromMaster) \in Nat
      /\ \A i \in DOMAIN fromMaster : fromMaster[i].ts \in Int
  <2>1. \A k \in Message : k.ts \in Int
    BY DEF Message
  <2>2. \A i \in DOMAIN fromMaster : fromMaster[i] \in Message
    BY DEF TypeOK
  <2>. QED BY <2>1, <2>2 DEF TypeOK
<1>3. \A ts \in Int : ts <= clock => NewerThan(ts, m)'
  BY <1>2 DEF NewerThan
<1>4. ASSUME NEW ts \in Int, NEW k \in Message, NewerThan(ts, k) PROVE NewerThan(ts, k)'
  BY <1>2, <1>4 DEF NewerThan, Message
<1>5. \A i \in DOMAIN fromMaster : fromMaster[i].type = "spawn" => fromMaster[i].ts <= clock
  BY <1>2 DEF TimestampsIncrease, NewerThan, NoTimestamp
<1>6. handling => msg.ts <= clock
  BY <1>2 DEF TimestampsIncrease, NewerThan, NoTimestamp
<1>7. \A i \in DOMAIN fromMaster : fromMaster[i] \in Message
  BY DEF TypeOK
<1>8. \A i \in DOMAIN fromMaster' : NewerThan(lastSpawnTs, fromMaster[i])'
  BY <1>1, <1>2, <1>3, <1>4, <1>7 DEF TimestampsIncrease
<1>9. ASSUME NEW i \in DOMAIN fromMaster', NEW j \in DOMAIN fromMaster',
             i < j, fromMaster'[i].type = "spawn"
      PROVE  NewerThan(fromMaster[i].ts, fromMaster[j])'
  <2>1. i \in DOMAIN fromMaster /\ fromMaster'[i] = fromMaster[i]
    BY <1>1, <1>2, <1>9
  <2>2. CASE j \in DOMAIN fromMaster /\ fromMaster'[j] = fromMaster[j]
    <3>1. NewerThan(fromMaster[i].ts, fromMaster[j])
      BY <1>9, <2>1, <2>2 DEF TimestampsIncrease
    <3>. QED BY <1>2, <1>4, <1>7, <2>1, <2>2, <3>1
  <2>3. CASE fromMaster'[j] = m
    BY <1>2, <1>3, <1>5, <1>9, <2>1, <2>3
  <2>. QED BY <1>1, <2>2, <2>3
<1>10. ASSUME handling
       PROVE  /\ msg'.type = "spawn" /\ NewerThan(lastSpawnTs, msg)'
              /\ \A i \in DOMAIN fromMaster' : NewerThan(msg.ts, fromMaster[i])'
  <2>1. msg'.type = "spawn" /\ NewerThan(lastSpawnTs, msg)'
    BY <1>2, <1>4, <1>10 DEF TimestampsIncrease, TypeOK
  <2>2. \A i \in DOMAIN fromMaster' : NewerThan(msg.ts, fromMaster[i])'
    BY <1>1, <1>2, <1>3, <1>4, <1>6, <1>7, <1>10 DEF TimestampsIncrease
  <2>. QED BY <2>1, <2>2
<1>11. lastSpawnTs' <= clock' /\ ~discarded'
  BY <1>2 DEF TimestampsIncrease
<1>. QED BY <1>8, <1>9, <1>10, <1>11 DEF TimestampsIncrease

\* Every case of onMessage keeps the order; onSpawnMessage finds no message stale.
LEMMA TimestampsListener == TypeOK /\ TimestampsIncrease /\ Listener => TimestampsIncrease'
<1>. SUFFICES ASSUME TypeOK, TimestampsIncrease, Listener PROVE TimestampsIncrease'
  OBVIOUS
<1>. USE DEF masterVars, runnerVars, routineVars
<1>1. CASE OnAck \/ OnStop \/ OnQuit \/ OnCustomMessage
  <2>1. /\ fromMaster # << >> /\ fromMaster' = Tail(fromMaster)
        /\ listener' \notin {"clearStats", "onSpawn"}
        /\ UNCHANGED <<lastSpawnTs, clock, discarded>>
    BY <1>1 DEF OnAck, OnStop, OnQuit, OnCustomMessage, Receive
  <2>. QED BY <2>1, TimestampsTail DEF TimestampsIncrease, NewerThan
<1>2. CASE OnSpawnWhenReady \/ OnSpawnWhenActive
  <2>1. /\ fromMaster # << >> /\ fromMaster' = Tail(fromMaster)
        /\ Head(fromMaster).type = "spawn" /\ msg' = Head(fromMaster)
        /\ UNCHANGED <<lastSpawnTs, clock, discarded>>
    BY <1>2 DEF OnSpawnWhenReady, OnSpawnWhenActive, Receive
  <2>. QED BY <2>1, TimestampsTail DEF TimestampsIncrease, NewerThan
<1>3. CASE OnSpawnMessage
  <2>1. /\ listener = "onSpawn" /\ listener' = "select"
        /\ UNCHANGED <<fromMaster, clock>>
    BY <1>3 DEF OnSpawnMessage, Continue
  <2>2. ~Stale(msg)
    BY <2>1 DEF TypeOK, TimestampsIncrease, NewerThan, Stale, Message
  <2>3. /\ lastSpawnTs' = IF msg.ts = NoTimestamp THEN lastSpawnTs ELSE msg.ts
        /\ UNCHANGED discarded
    BY <1>3, <2>2 DEF OnSpawnMessage
  <2>. QED BY <2>1, <2>3 DEF TimestampsIncrease, NewerThan
<1>4. CASE ClearStats \/ SendClientStopped \/ SendClientReadyAndWaitForAck \/ BecomeReady
           \/ PublishQuit \/ ListenerExit
  <2>1. /\ UNCHANGED <<lastSpawnTs, clock, discarded, fromMaster, msg>>
        /\ listener' \in {"clearStats", "onSpawn"} => listener = "clearStats"
    BY <1>4 DEF ClearStats, SendClientStopped, SendClientReadyAndWaitForAck, BecomeReady,
                PublishQuit, ListenerExit, Continue
  <2>. QED BY <2>1, TimestampsSame
<1>. QED BY <1>1, <1>2, <1>3, <1>4 DEF Listener

\* The master sends spawn messages in the order of their timestamps.
LEMMA TimestampsMaster ==
  ASSUME FreshTimestamps, TypeOK, TimestampsIncrease, Master
  PROVE  TimestampsIncrease'
<1>. USE DEF Send
<1>0. UNCHANGED <<listener, lastSpawnTs, msg, discarded>>
  BY OthersKeepStopChan
<1>1. CASE MasterSpawn
  <2>1. PICK m \in Message :
          /\ fromMaster' = Append(fromMaster, m)
          /\ clock' \in Nat /\ clock <= clock' /\ m.ts <= clock'
          /\ m.ts # NoTimestamp => clock < m.ts
    BY <1>1, MasterSpawnStep
  <2>. QED BY <1>0, <2>1, TimestampsSend
<1>2. ASSUME NEW m \in Message, fromMaster' = Append(fromMaster, m),
             m.type # "spawn", UNCHANGED clock
      PROVE  TimestampsIncrease'
  <2>1. clock' \in Nat /\ clock <= clock'
    BY <1>2 DEF TypeOK
  <2>. QED BY <1>0, <1>2, <2>1, TimestampsSend
<1>3. CASE MasterStop
  BY <1>2, <1>3, MessageTypes DEF MasterStop, Msg
<1>4. CASE MasterQuit
  BY <1>2, <1>4, MessageTypes DEF MasterQuit, Msg
<1>5. CASE MasterCustom
  BY <1>2, <1>5, MessageTypes DEF MasterCustom, Msg
<1>6. CASE MasterReceive
  <2>1. CASE fromMaster' = Append(fromMaster, Msg("ack"))
    <3>1. Msg("ack") \in Message /\ Msg("ack").type = "ack"
      BY MessageTypes DEF Msg
    <3>. QED BY <1>2, <1>6, <2>1, <3>1 DEF MasterReceive
  <2>2. CASE UNCHANGED fromMaster
    BY <1>0, <1>6, <2>2, TimestampsSame DEF MasterReceive
  <2>. QED BY <1>6, <2>1, <2>2 DEF MasterReceive
<1>. QED BY <1>1, <1>3, <1>4, <1>5, <1>6 DEF Master

\* Every step keeps the order of the timestamps.
LEMMA TimestampsStep ==
  ASSUME FreshTimestamps
  PROVE  TypeOK /\ TimestampsIncrease /\ [Next]_vars => TimestampsIncrease'
<1>. SUFFICES ASSUME TypeOK, TimestampsIncrease, [Next]_vars PROVE TimestampsIncrease'
  OBVIOUS
<1>1. CASE Listener
  BY <1>1, TimestampsListener
<1>2. CASE Master
  BY <1>2, TimestampsMaster
<1>3. CASE \/ \E g \in Gens : Spawner(g) \/ TaskReturns(g) \/ PurgeIdle(g)
           \/ Shutdown \/ UNCHANGED vars
  <2>1. UNCHANGED <<listener, lastSpawnTs, msg, discarded>>
    BY <1>3, OthersKeepStopChan
  <2>2. UNCHANGED <<fromMaster, clock>>
    BY <1>3 DEF Spawner, SpawnerCheck, Submit, CountRunning, TaskReturns, PurgeIdle, OnlyGens,
                Shutdown, Quit, CloseStats, CloseShutdownChan, QuitStep, StatsExit, vars,
                masterVars
  <2>. QED BY <2>1, <2>2, TimestampsSame
<1>. QED BY <1>1, <1>2, <1>3 DEF Next

\* With increasing timestamps stop() never panics: no stopChan is closed twice and
\* no nil one is closed.
THEOREM StopNeverPanics ==
  ASSUME FreshTimestamps
  PROVE  Spec => []NoDoubleClose
<1>1. Init => TimestampsIncrease
  BY DEF Init, TimestampsIncrease
<1>2. TypeOK /\ TimestampsIncrease /\ [Next]_vars => TimestampsIncrease'
  BY TimestampsStep
<1>3. StopChanDiscipline /\ TimestampsIncrease => NoDoubleClose
  BY DEF StopChanDiscipline, TimestampsIncrease
<1>. QED BY <1>1, <1>2, <1>3, TypeInit, TypeStep, StopChanCorrect, PTL DEF Spec

(***************************************************************************)
(* No stop and no ack is lost, and a worker the master counts as ready is  *)
(* idle                                                                    *)
(***************************************************************************)

\* The next message is handled in stateInit.
Resting == state = stateInit \/ listener = "setInit"

\* Inductive: what the master knows against what is still in its queue.  It stops
\* only a worker that runs a load or will have started one when the stop arrives,
\* takes for ready only one that rests with no spawn message under way, and acks
\* only such a one.
MasterKnows ==
  /\ Queued("quit") # {} => view = "gone"
  /\ view \in {"unknown", "ready"} \/ Readies # {} => Resting /\ Queued("spawn") = {}
  /\ view = "active" => state \in Active \/ Queued("spawn") # {}
  /\ \A j \in Queued("stop") :
       /\ state \in Active \/ \E i \in Queued("spawn") : i < j
       /\ \A i \in Queued("quit") : j < i
       /\ \A i \in Queued("spawn") : i < j
  /\ \A i \in Queued("ack") : Resting /\ \A j \in Queued("spawn") : i < j
  /\ Answering => Queued("spawn") = {}
  /\ listener = "publishQuit" => view = "gone" /\ Queued("stop") = {}

\* Nothing is queued, and the worker is idle, when run() has sent client_ready.
LEMMA MasterKnowsInit == Init => MasterKnows
<1>. SUFFICES ASSUME Init PROVE MasterKnows
  OBVIOUS
<1>1. \A type : Queued(type) = {}
  BY DEF Init, Queued
<1>. QED BY <1>1 DEF Init, MasterKnows, Resting, Answering

\* Steps that leave the master's queue and its view alone.
LEMMA MasterKnowsSame ==
  ASSUME MasterKnows, UNCHANGED <<fromMaster, view>>, Readies' = Readies,
         state \in Active => state' \in Active,
         Resting => Resting',
         Answering' => Answering,
         listener' = "publishQuit" => listener = "publishQuit"
  PROVE  MasterKnows'
<1>1. \A type : Queued(type)' = Queued(type)
  BY DEF Queued
<1>. QED BY <1>1 DEF MasterKnows

\* Taking an ack or a custom message.
LEMMA MasterKnowsOther ==
  ASSUME TypeOK, MasterKnows, fromMaster # << >>, fromMaster' = Tail(fromMaster),
         Head(fromMaster).type \notin {"spawn", "stop", "quit"},
         listener = "select", UNCHANGED <<state, listener, view>>, Readies' = Readies
  PROVE  MasterKnows'
<1>1. \A t \in {"spawn", "stop", "quit"} :
        /\ \A i \in Queued(t)' : i \in Nat \ {0} /\ i + 1 \in Queued(t)
        /\ \A i \in Queued(t) : i \in Nat \ {0} /\ i - 1 \in Queued(t)'
  BY QueuedTail
<1>2. /\ Queued("spawn") = {} => Queued("spawn")' = {}
      /\ Queued("quit") = {} => Queued("quit")' = {}
      /\ Queued("spawn") # {} => Queued("spawn")' # {}
  BY <1>1
<1>3. ASSUME NEW j \in Queued("stop")'
      PROVE  /\ state' \in Active \/ \E i \in Queued("spawn")' : i < j
             /\ \A i \in Queued("quit")' : j < i
             /\ \A i \in Queued("spawn")' : i < j
  <2>1. j \in Nat \ {0} /\ j + 1 \in Queued("stop")
    BY <1>1
  <2>2. \A i \in Queued("quit")' : j < i
    BY <1>1, <2>1 DEF MasterKnows
  <2>3. \A i \in Queued("spawn")' : i < j
    BY <1>1, <2>1 DEF MasterKnows
  <2>4. CASE state \in Active
    BY <2>2, <2>3, <2>4
  <2>5. CASE \E i \in Queued("spawn") : i < j + 1
    <3>. PICK i \in Queued("spawn") : i < j + 1
      BY <2>5
    <3>1. i - 1 \in Queued("spawn")' /\ i - 1 < j
      BY <1>1, <2>1
    <3>. QED BY <2>2, <2>3, <3>1
  <2>. QED BY <2>1, <2>4, <2>5 DEF MasterKnows
<1>4. ASSUME NEW i \in Queued("ack")'
      PROVE  Resting /\ \A j \in Queued("spawn")' : i < j
  <2>1. i \in Nat \ {0} /\ i + 1 \in Queued("ack")
    BY QueuedTail
  <2>. QED BY <1>1, <2>1 DEF MasterKnows
<1>5. Resting' = Resting /\ ~Answering' /\ listener' # "publishQuit"
  BY DEF Resting, Answering
<1>. QED BY <1>2, <1>3, <1>4, <1>5 DEF MasterKnows

\* Taking a spawn message: no ack is under way, and a load starts or is replaced.
LEMMA MasterKnowsSpawn ==
  ASSUME TypeOK, MasterKnows, fromMaster # << >>, fromMaster' = Tail(fromMaster),
         Head(fromMaster).type = "spawn", listener' \in {"clearStats", "onSpawn"},
         state' \in Active, UNCHANGED view, Readies' = Readies
  PROVE  MasterKnows'
<1>1. 1 \in Queued("spawn") /\ \A i \in Queued("ack") : i \in Nat \ {0}
  BY QueuedTail
<1>2. \A t : \A i \in Queued(t)' : i \in Nat \ {0} /\ i + 1 \in Queued(t)
  BY QueuedTail
<1>3. view \notin {"unknown", "ready"} /\ Readies = {}
  BY <1>1 DEF MasterKnows
<1>4. Queued("ack") = {}
  BY <1>1 DEF MasterKnows
<1>5. Queued("ack")' = {} /\ (Queued("quit")' # {} => Queued("quit") # {})
  BY <1>2, <1>4
<1>6. \A j \in Queued("stop")' : /\ \A i \in Queued("quit")' : j < i
                                 /\ \A i \in Queued("spawn")' : i < j
  BY <1>2 DEF MasterKnows
<1>7. ~Answering' /\ listener' # "publishQuit"
  BY DEF Answering
<1>. QED BY <1>3, <1>5, <1>6, <1>7 DEF MasterKnows

\* A stop that is answered was the only one and no spawn message follows it.
LEMMA MasterKnowsStop ==
  TypeOK /\ Handshake /\ MasterKnows /\ OnStop => MasterKnows'
<1>. SUFFICES ASSUME TypeOK, Handshake, MasterKnows, OnStop PROVE MasterKnows'
  OBVIOUS
<1>1. /\ fromMaster # << >> /\ fromMaster' = Tail(fromMaster)
      /\ Head(fromMaster).type = "stop" /\ view' = view /\ listener' = "sendStopped"
  BY DEF OnStop, Receive, masterVars
<1>2. 1 \in Queued("stop") /\ \A t : \A i \in Queued(t) : i \in Nat \ {0}
  BY <1>1, QueuedTail
<1>3. \A t : \A i \in Queued(t)' : i \in Nat \ {0} /\ i + 1 \in Queued(t)
  BY <1>1, QueuedTail
<1>4. Queued("stop")' = {} /\ Queued("ack")' = {}
  BY <1>2, <1>3 DEF Handshake, AckHandshake
<1>5. Queued("spawn") = {}
  BY <1>2 DEF MasterKnows
<1>6. Queued("spawn")' = {} /\ (Queued("quit")' # {} => Queued("quit") # {})
  BY <1>3, <1>5
<1>7. view \in {"stopping", "gone"} /\ Readies = {}
  BY <1>2 DEF Handshake, AckHandshake
<1>8. Readies' = {}
  BY <1>7, ReadiesReply, OnlyOneReady
<1>. QED BY <1>1, <1>4, <1>6, <1>7, <1>8 DEF MasterKnows

\* After a quit the master has gone and no stop follows.
LEMMA MasterKnowsQuit ==
  TypeOK /\ MasterKnows /\ OnQuit => MasterKnows'
<1>. SUFFICES ASSUME TypeOK, MasterKnows, OnQuit PROVE MasterKnows'
  OBVIOUS
<1>1. /\ fromMaster # << >> /\ fromMaster' = Tail(fromMaster)
      /\ Head(fromMaster).type = "quit" /\ listener = "select"
      /\ listener' = "publishQuit" /\ UNCHANGED <<view, state>>
  BY DEF OnQuit, Receive, masterVars
<1>2. 1 \in Queued("quit") /\ \A t : \A i \in Queued(t) : i \in Nat \ {0}
  BY <1>1, QueuedTail
<1>3. \A t : \A i \in Queued(t)' : i \in Nat \ {0} /\ i + 1 \in Queued(t)
  BY <1>1, QueuedTail
<1>4. Queued("stop") = {} /\ view = "gone"
  BY <1>2 DEF MasterKnows
<1>5. Queued("stop")' = {} /\ (Queued("spawn")' # {} => Queued("spawn") # {})
  BY <1>3, <1>4
<1>6. Readies' = Readies /\ Resting' = Resting /\ ~Answering'
  BY <1>1, ReadiesReply, OnlyOneReady DEF Resting, Answering
<1>7. ASSUME NEW i \in Queued("ack")'
      PROVE  Resting /\ \A j \in Queued("spawn")' : i < j
  BY <1>3 DEF MasterKnows
<1>. QED BY <1>1, <1>4, <1>5, <1>6, <1>7 DEF MasterKnows

\* client_ready goes out with nothing of the master's under way.
LEMMA MasterKnowsReady ==
  TypeOK /\ Handshake /\ MasterKnows /\ SendClientReadyAndWaitForAck => MasterKnows'
<1>. SUFFICES ASSUME TypeOK, Handshake, MasterKnows, SendClientReadyAndWaitForAck
              PROVE  MasterKnows'
  OBVIOUS
<1>1. /\ Answering /\ listener' = "setInit" /\ UNCHANGED <<fromMaster, view, state>>
  BY DEF SendClientReadyAndWaitForAck, Continue, Answering, masterVars
<1>2. Resting' /\ ~Answering' /\ \A t : Queued(t)' = Queued(t)
  BY <1>1 DEF Resting, Answering, Queued
<1>3. /\ Queued("spawn") = {} /\ Queued("stop") = {} /\ Queued("ack") = {}
      /\ view \in {"stopping", "gone"}
  BY <1>1 DEF MasterKnows, Handshake
<1>. QED BY <1>1, <1>2, <1>3 DEF MasterKnows

\* The listener takes for a custom message only what is one.
LEMMA OnlyCustom ==
  ASSUME TypeOK, MasterKnows, OnCustomMessage
  PROVE  Head(fromMaster).type = "custom"
<1>1. /\ fromMaster # << >> /\ listener = "select"
      /\ Head(fromMaster).type \in {"custom", "ack", "stop"}
      /\ Head(fromMaster).type = "stop" => state \notin Active
      /\ Head(fromMaster).type = "ack" => state # stateInit
  BY DEF OnCustomMessage, Receive
<1>2. 1 \in DOMAIN fromMaster /\ Head(fromMaster) = fromMaster[1]
      /\ \A i \in DOMAIN fromMaster : i \in Nat \ {0}
  BY <1>1, TailFacts DEF TypeOK
<1>3. Head(fromMaster).type # "stop"
  <2>. SUFFICES ASSUME Head(fromMaster).type = "stop" PROVE FALSE
    OBVIOUS
  <2>1. 1 \in Queued("stop") /\ \A i \in Queued("spawn") : i \in Nat \ {0}
    BY <1>2 DEF Queued
  <2>2. PICK i \in Queued("spawn") : i < 1
    BY <1>1, <2>1 DEF MasterKnows
  <2>. QED BY <2>1, <2>2
<1>4. Head(fromMaster).type # "ack"
  <2>. SUFFICES ASSUME Head(fromMaster).type = "ack" PROVE FALSE
    OBVIOUS
  <2>1. 1 \in Queued("ack")
    BY <1>2 DEF Queued
  <2>. QED BY <1>1, <2>1 DEF MasterKnows, Resting
<1>. QED BY <1>1, <1>3, <1>4

\* Every case of onMessage keeps it.
LEMMA MasterKnowsListener ==
  TypeOK /\ Handshake /\ StopChans /\ MasterKnows /\ Listener => MasterKnows'
<1>. SUFFICES ASSUME TypeOK, Handshake, StopChans, MasterKnows, Listener PROVE MasterKnows'
  OBVIOUS
<1>. USE DEF runnerVars, routineVars, masterVars
<1>1. CASE OnAck \/ OnCustomMessage
  <2>1. /\ fromMaster # << >> /\ fromMaster' = Tail(fromMaster) /\ listener = "select"
        /\ UNCHANGED <<state, listener, view>>
    BY <1>1 DEF OnAck, OnCustomMessage, Receive
  <2>2. Head(fromMaster).type \in {"ack", "custom"}
    BY <1>1, OnlyCustom DEF OnAck, Receive
  <2>3. Readies' = Readies
    BY <1>1, ReadiesReply, OnlyOneReady
  <2>. QED BY <2>1, <2>2, <2>3, MasterKnowsOther
<1>2. CASE OnSpawnWhenReady \/ OnSpawnWhenActive
  <2>1. /\ fromMaster # << >> /\ fromMaster' = Tail(fromMaster)
        /\ Head(fromMaster).type = "spawn" /\ listener' \in {"clearStats", "onSpawn"}
        /\ state' \in Active /\ UNCHANGED view
    BY <1>2 DEF OnSpawnWhenReady, OnSpawnWhenActive, Receive, Active
  <2>2. Readies' = Readies
    BY <1>2, ReadiesReply, OnlyOneReady
  <2>. QED BY <2>1, <2>2, MasterKnowsSpawn
<1>3. CASE OnStop
  BY <1>3, MasterKnowsStop
<1>4. CASE OnQuit
  BY <1>4, MasterKnowsQuit
<1>5. CASE SendClientReadyAndWaitForAck
  BY <1>5, MasterKnowsReady
<1>6. CASE ClearStats \/ OnSpawnMessage \/ SendClientStopped \/ ListenerExit
  <2>1. /\ UNCHANGED <<fromMaster, view, state>>
        /\ Resting => Resting'
        /\ Answering' => Answering
        /\ listener' # "publishQuit"
    BY <1>6 DEF ClearStats, OnSpawnMessage, SendClientStopped, ListenerExit, Continue, Resting,
                Answering
  <2>2. Readies' = Readies
    BY <1>6, ReadiesReply, OnlyOneReady
  <2>. QED BY <2>1, <2>2, MasterKnowsSame
<1>7. CASE BecomeReady
  <2>1. /\ UNCHANGED <<fromMaster, view>> /\ state' = stateInit /\ state = stateStopped
        /\ ~Answering' /\ listener' # "publishQuit" /\ Resting'
    BY <1>7 DEF BecomeReady, Continue, Resting, Answering, StopChans, ListenerAt
  <2>2. Readies' = Readies /\ state \notin Active
    BY <1>7, <2>1, ReadiesReply, OnlyOneReady DEF Active, stateStopped, stateSpawning,
                                                  stateRunning
  <2>. QED BY <2>1, <2>2, MasterKnowsSame
<1>8. CASE PublishQuit
  <2>1. /\ UNCHANGED <<fromMaster, view>> /\ state' = stateInit
        /\ ~Answering' /\ listener' # "publishQuit" /\ Resting' /\ listener = "publishQuit"
    BY <1>8 DEF PublishQuit, Continue, Resting, Answering
  <2>2. Readies' = Readies /\ \A t : Queued(t)' = Queued(t)
    BY <1>8, <2>1, ReadiesReply, OnlyOneReady DEF Queued
  <2>. QED BY <2>1, <2>2 DEF MasterKnows
<1>. QED BY <1>1, <1>2, <1>3, <1>4, <1>5, <1>6, <1>7, <1>8 DEF Listener

\* The master sends a stop only behind a load, and spawns no more after it.
LEMMA MasterKnowsMaster ==
  TypeOK /\ Handshake /\ MasterKnows /\ Master => MasterKnows'
<1>. SUFFICES ASSUME TypeOK, Handshake, MasterKnows, Master PROVE MasterKnows'
  OBVIOUS
<1>. USE DEF Send
<1>0. UNCHANGED <<state, listener>> /\ Resting' = Resting /\ Answering' = Answering
  BY OthersKeepStopChan DEF Resting, Answering
<1>1. CASE MasterSpawn
  <2>1. PICK m \in Message : fromMaster' = Append(fromMaster, m) /\ m.type = "spawn"
    BY <1>1, MasterSpawnStep
  <2>2. view \in {"ready", "active"} /\ view' = "active" /\ UNCHANGED toMaster
    BY <1>1 DEF MasterSpawn, OnlyMaster
  <2>3. /\ Readies' = {} /\ Queued("stop") = {} /\ Queued("quit") = {} /\ ~Answering
        /\ listener # "publishQuit"
    BY <2>2 DEF Handshake, AckHandshake, MasterKnows, Readies
  <2>4. /\ Queued("stop")' = {} /\ Queued("quit")' = {} /\ Queued("ack")' = Queued("ack")
        /\ Queued("spawn")' = Queued("spawn") \cup {Len(fromMaster) + 1}
        /\ \A i \in Queued("ack") : i < Len(fromMaster) + 1
    BY <2>1, <2>3, QueuedSend
  <2>. QED BY <1>0, <2>2, <2>3, <2>4 DEF MasterKnows
<1>2. CASE MasterStop
  <2>. DEFINE m == Msg("stop")
  <2>1. m \in Message /\ m.type = "stop" /\ fromMaster' = Append(fromMaster, m)
    BY <1>2, MessageTypes DEF MasterStop, Msg
  <2>. HIDE DEF m
  <2>2. view = "active" /\ view' = "stopping" /\ UNCHANGED toMaster
    BY <1>2 DEF MasterStop, OnlyMaster
  <2>3. /\ Readies' = {} /\ Queued("stop") = {} /\ Queued("quit") = {}
        /\ listener # "publishQuit"
    BY <2>2 DEF Handshake, AckHandshake, MasterKnows, Readies
  <2>4. /\ Queued("quit")' = {} /\ Queued("spawn")' = Queued("spawn")
        /\ Queued("ack")' = Queued("ack") /\ Queued("stop")' = {Len(fromMaster) + 1}
        /\ \A i \in Queued("spawn") : i < Len(fromMaster) + 1
    BY <2>1, <2>3, QueuedSend
  <2>. QED BY <1>0, <2>2, <2>3, <2>4 DEF MasterKnows
<1>3. CASE MasterQuit
  <2>. DEFINE m == Msg("quit")
  <2>1. m \in Message /\ m.type = "quit" /\ fromMaster' = Append(fromMaster, m)
    BY <1>3, MessageTypes DEF MasterQuit, Msg
  <2>. HIDE DEF m
  <2>2. view' = "gone" /\ Readies' = Readies
    BY <1>3 DEF MasterQuit, OnlyMaster, Readies
  <2>3. /\ Queued("spawn")' = Queued("spawn") /\ Queued("stop")' = Queued("stop")
        /\ Queued("ack")' = Queued("ack")
        /\ Queued("quit")' = Queued("quit") \cup {Len(fromMaster) + 1}
        /\ \A i \in Queued("stop") : i < Len(fromMaster) + 1
    BY <2>1, QueuedSend
  <2>. QED BY <1>0, <2>2, <2>3 DEF MasterKnows
<1>4. CASE MasterCustom
  <2>. DEFINE m == Msg("custom")
  <2>1. m \in Message /\ m.type = "custom" /\ fromMaster' = Append(fromMaster, m)
    BY <1>4, MessageTypes DEF MasterCustom, Msg
  <2>. HIDE DEF m
  <2>2. \A t \in {"spawn", "stop", "quit", "ack"} : Queued(t)' = Queued(t)
    BY <2>1, QueuedSend
  <2>3. UNCHANGED view /\ Readies' = Readies
    BY <1>4 DEF MasterCustom, OnlyMaster, Readies
  <2>. QED BY <1>0, <2>2, <2>3 DEF MasterKnows
<1>5. CASE MasterReceive
  <2>1. toMaster # << >> /\ toMaster' = Tail(toMaster)
    BY <1>5 DEF MasterReceive
  <2>2. \A i \in Readies' : i + 1 \in Readies
    BY <2>1, TailFacts DEF Readies, TypeOK
  <2>3. CASE Head(toMaster) = "client_ready" /\ view \in {"unknown", "stopping"}
    <3>. DEFINE m == Msg("ack")
    <3>1. m \in Message /\ m.type = "ack" /\ fromMaster' = Append(fromMaster, m)
      BY <1>5, <2>3, MessageTypes DEF MasterReceive, Msg
    <3>. HIDE DEF m
    <3>2. \A t \in {"spawn", "stop", "quit"} : Queued(t)' = Queued(t)
      BY <3>1, QueuedSend
    <3>3. 1 \in Readies /\ view' = "ready"
      BY <1>5, <2>1, <2>3, TailFacts DEF Readies, TypeOK, MasterReceive
    <3>4. /\ Resting /\ Queued("spawn") = {} /\ Queued("stop") = {} /\ Queued("quit") = {}
          /\ listener # "publishQuit"
      BY <2>3, <3>3 DEF MasterKnows, Handshake, AckHandshake
    <3>. QED BY <1>0, <3>2, <3>3, <3>4 DEF MasterKnows
  <2>4. CASE ~(Head(toMaster) = "client_ready" /\ view \in {"unknown", "stopping"})
    <3>1. UNCHANGED fromMaster /\ view' \in {view, "gone"}
      BY <1>5, <2>4 DEF MasterReceive
    <3>2. \A t : Queued(t)' = Queued(t)
      BY <3>1 DEF Queued
    <3>3. Readies' # {} => Readies # {}
      BY <2>2
    <3>. QED BY <1>0, <3>1, <3>2, <3>3 DEF MasterKnows
  <2>. QED BY <2>3, <2>4
<1>. QED BY <1>1, <1>2, <1>3, <1>4, <1>5 DEF Master

\* Every step keeps it.
LEMMA MasterKnowsStep ==
  TypeOK /\ Handshake /\ StopChans /\ MasterKnows /\ [Next]_vars => MasterKnows'
<1>. SUFFICES ASSUME TypeOK, Handshake, StopChans, MasterKnows, [Next]_vars
              PROVE  MasterKnows'
  OBVIOUS
<1>1. CASE Listener
  BY <1>1, MasterKnowsListener
<1>2. CASE Master
  BY <1>2, MasterKnowsMaster
<1>3. CASE \/ \E g \in Gens : Spawner(g) \/ TaskReturns(g) \/ PurgeIdle(g)
           \/ Shutdown \/ UNCHANGED vars
  <2>1. UNCHANGED <<state, listener>>
    BY <1>3, OthersKeepStopChan
  <2>2. UNCHANGED <<fromMaster, view>> /\ NoReady
    <3>1. CASE Shutdown
      BY <3>1, OnlyOneReady DEF Shutdown, Quit, CloseStats, CloseShutdownChan, QuitStep,
                                StatsExit, masterVars
    <3>2. CASE \E g \in Gens : Spawner(g) \/ TaskReturns(g) \/ PurgeIdle(g)
      BY <3>2 DEF Spawner, SpawnerCheck, Submit, CountRunning, TaskReturns, PurgeIdle,
                  OnlyGens, NoReady, masterVars
    <3>3. CASE UNCHANGED vars
      BY <3>3 DEF vars, NoReady, masterVars
    <3>. QED BY <1>3, <3>1, <3>2, <3>3
  <2>3. Resting' = Resting /\ Answering' = Answering /\ Readies' = Readies
    BY <2>1, <2>2, ReadiesReply DEF Resting, Answering
  <2>. QED BY <2>1, <2>2, <2>3, MasterKnowsSame
<1>. QED BY <1>1, <1>2, <1>3 DEF Next

\* MasterKnows holds throughout.
LEMMA MasterKnowsCorrect == Spec => []MasterKnows
BY TypeInit, TypeStep, HandshakeInit, HandshakeStep, StopChansInit, StopChansStep,
   MasterKnowsInit, MasterKnowsStep, PTL DEF Spec

\* Whatever timestamps the spawn messages carry, no stop reaches the listener while
\* no load runs and no ack while it is not in stateInit: onMessage would swallow
\* either.
THEOREM NoMessageLost == Spec => []NoLostMessage
<1>1. ASSUME TypeOK, MasterKnows PROVE NoLostMessage
  <2>. SUFFICES ASSUME listener = "select", fromMaster # << >>
                PROVE  /\ Head(fromMaster).type = "stop" => state \in Active
                       /\ Head(fromMaster).type = "ack" => state = stateInit
    BY DEF NoLostMessage
  <2>1. 1 \in DOMAIN fromMaster /\ Head(fromMaster) = fromMaster[1]
        /\ \A i \in DOMAIN fromMaster : i \in Nat \ {0}
    BY <1>1, TailFacts DEF TypeOK
  <2>2. Head(fromMaster).type = "stop" => state \in Active
    <3>1. ~ \E i \in Queued("spawn") : i < 1
      BY <2>1 DEF Queued
    <3>2. Head(fromMaster).type = "stop" => 1 \in Queued("stop")
      BY <2>1 DEF Queued
    <3>. QED BY <1>1, <3>1, <3>2 DEF MasterKnows
  <2>3. Head(fromMaster).type = "ack" => state = stateInit
    <3>1. Head(fromMaster).type = "ack" => 1 \in Queued("ack")
      BY <2>1 DEF Queued
    <3>. QED BY <1>1, <3>1 DEF MasterKnows, Resting
  <2>. QED BY <2>2, <2>3
<1>. QED BY <1>1, TypeCorrect, MasterKnowsCorrect, PTL

\* A worker that the master takes for ready, or that has told it so, has no stopChan
\* open and handles the next message in stateInit, although client_ready goes out
\* before r.state is set.
THEOREM ReadyWorkerIsIdle == Spec => []ReadyMeansIdle
<1>1. ASSUME StopChans, MasterKnows PROVE ReadyMeansIdle
  <2>. SUFFICES ASSUME view = "ready" \/ Readies # {} PROVE Idle
    BY DEF ReadyMeansIdle
  <2>1. Resting
    BY <1>1 DEF MasterKnows
  <2>2. state = stateInit \/ (state = stateStopped /\ listener = "setInit")
    BY <1>1, <2>1 DEF Resting, StopChans, ListenerAt
  <2>3. ~StopChanOpen
    BY <1>1, <2>2 DEF StopChans, StopChanDiscipline, stateInit, stateSpawning, stateStopped
  <2>. QED BY <2>2, <2>3 DEF Idle
<1>. QED BY <1>1, StopChansCorrect, MasterKnowsCorrect, PTL

(***************************************************************************)
(* The worker implements WorkerLifecycle                                   *)
(***************************************************************************)

\* A worker that has just started is idle.
LEMMA LifecycleInitial == Init => Lifecycle!LifecycleInit
BY DEF Init, Lifecycle!LifecycleInit, Phase, Active, stateInit, stateSpawning, stateRunning

\* Steps that change neither the phase, nor the number of generations, nor the
\* closed channels.
LEMMA LifecycleStutter ==
  ASSUME Phase' = Phase, closed' = closed, Len(gens') = Len(gens)
  PROVE  UNCHANGED Lifecycle!lifecycleVars
BY DEF Lifecycle!lifecycleVars

\* Every case of onMessage is a step of the lifecycle, or none.
LEMMA LifecycleListener ==
  ASSUME TypeOK, StopChans, Listener
  PROVE  Lifecycle!LifecycleNext \/ UNCHANGED Lifecycle!lifecycleVars
<1>. USE DEF masterVars, runnerVars, routineVars, Active, stateInit, stateSpawning,
            stateRunning, stateStopped, Phase
<1>1. CASE OnAck \/ OnCustomMessage
  <2>1. Phase' = Phase /\ UNCHANGED <<gens, closed>>
    BY <1>1 DEF OnAck, OnCustomMessage
  <2>. QED BY <2>1, LifecycleStutter
<1>2. CASE OnSpawnWhenReady
  <2>1. Phase = "idle" /\ Phase' = "starting" /\ UNCHANGED <<Len(gens), closed>>
    BY <1>2 DEF OnSpawnWhenReady, Receive
  <2>. QED BY <2>1 DEF Lifecycle!LifecycleNext, Lifecycle!Accept
<1>3. CASE OnSpawnWhenActive
  <2>1. /\ Phase = "active" /\ Phase' = "starting" /\ closed' = closed \cup {Len(gens)}
        /\ UNCHANGED Len(gens)
    BY <1>3 DEF OnSpawnWhenActive, Receive, Stop, Current
  <2>. QED BY <2>1 DEF Lifecycle!LifecycleNext, Lifecycle!Replace
<1>4. CASE OnSpawnMessage
  <2>1. Phase = "starting" /\ Phase' = "active" /\ UNCHANGED closed
    BY <1>4 DEF OnSpawnMessage, Continue, StopChans, ListenerAt
  <2>2. CASE Stale(msg)
    <3>1. UNCHANGED Len(gens)
      BY <1>4, <2>2 DEF OnSpawnMessage
    <3>. QED BY <2>1, <3>1 DEF Lifecycle!LifecycleNext, Lifecycle!Discard
  <2>3. CASE ~Stale(msg)
    <3>. DEFINE new == [pc |-> "check", size |-> msg.users, busy |-> 0, running |-> 0]
    <3>1. gens' = Append(gens, new)
      BY <1>4, <2>3 DEF OnSpawnMessage, StartSpawning
    <3>. HIDE DEF new
    <3>2. Len(gens') = Len(gens) + 1
      BY <3>1 DEF TypeOK
    <3>. QED BY <2>1, <3>2 DEF Lifecycle!LifecycleNext, Lifecycle!Start
  <2>. QED BY <2>2, <2>3
<1>5. CASE OnStop
  <2>1. /\ Phase = "active" /\ Phase' = "idle" /\ closed' = closed \cup {Len(gens)}
        /\ UNCHANGED Len(gens)
    BY <1>5 DEF OnStop, Receive, Stop, Current
  <2>. QED BY <2>1 DEF Lifecycle!LifecycleNext, Lifecycle!Halt
<1>6. CASE OnQuit
  <2>1. CASE state \in Active
    <3>1. /\ Phase = "active" /\ Phase' = "idle" /\ closed' = closed \cup {Len(gens)}
          /\ UNCHANGED Len(gens)
      BY <1>6, <2>1 DEF OnQuit, Receive, Stop, Current
    <3>. QED BY <3>1 DEF Lifecycle!LifecycleNext, Lifecycle!Halt
  <2>2. CASE state \notin Active
    <3>1. Phase' = Phase /\ UNCHANGED <<gens, closed>>
      BY <1>6, <2>2 DEF OnQuit, Receive
    <3>. QED BY <3>1, LifecycleStutter
  <2>. QED BY <2>1, <2>2
<1>7. CASE ClearStats \/ SendClientStopped \/ SendClientReadyAndWaitForAck \/ BecomeReady
           \/ PublishQuit \/ ListenerExit
  <2>1. UNCHANGED <<gens, closed>>
    BY <1>7 DEF ClearStats, SendClientStopped, SendClientReadyAndWaitForAck, BecomeReady,
                PublishQuit, ListenerExit, Continue
  <2>2. Phase' = Phase
    BY <1>7 DEF ClearStats, SendClientStopped, SendClientReadyAndWaitForAck, BecomeReady,
                PublishQuit, ListenerExit, Continue, StopChans, ListenerAt
  <2>. QED BY <2>1, <2>2, LifecycleStutter
<1>. QED BY <1>1, <1>2, <1>3, <1>4, <1>5, <1>6, <1>7 DEF Listener

\* Every step of the worker is a step of the lifecycle, or none.
LEMMA LifecycleStep ==
  TypeOK /\ StopChans /\ [Next]_vars =>
    [Lifecycle!LifecycleNext]_(Lifecycle!lifecycleVars)
<1>. SUFFICES ASSUME TypeOK, StopChans, [Next]_vars
              PROVE  Lifecycle!LifecycleNext \/ UNCHANGED Lifecycle!lifecycleVars
  OBVIOUS
<1>1. CASE Listener
  BY <1>1, LifecycleListener
<1>2. CASE \/ \E g \in Gens : Spawner(g) \/ TaskReturns(g) \/ PurgeIdle(g)
           \/ Shutdown \/ Master \/ UNCHANGED vars
  <2>1. UNCHANGED <<state, closed, listener>> /\ Len(gens') = Len(gens)
    BY <1>2, OthersKeepStopChan
  <2>2. Phase' = Phase
    BY <2>1 DEF Phase
  <2>. QED BY <2>1, <2>2, LifecycleStutter
<1>. QED BY <1>1, <1>2 DEF Next

\* The worker starts, replaces, discards and stops loads only as WorkerLifecycle
\* allows, whatever timestamps the spawn messages carry.
THEOREM WorkerImplementsLifecycle == Spec => ImplementsLifecycle
<1>. SUFFICES Spec => Lifecycle!LifecycleSpec
  BY DEF ImplementsLifecycle
<1>. QED
  BY LifecycleStep, LifecycleInitial, TypeCorrect, StopChansCorrect, PTL
  DEF Spec, Lifecycle!LifecycleSpec
=============================================================================
