--------------------------- MODULE LocalRunnerProofs ---------------------------
(***************************************************************************)
(* Standalone mode for any number of users and outputs, either spawner, a  *)
(* report channel of any capacity, and Stop and Quit at any time: the      *)
(* outputs go through the reports together, and no channel that is nil is  *)
(* closed once run has started.                                            *)
(***************************************************************************)
EXTENDS LocalRunner, FiniteSetTheorems, TLAPS

\* The numbers and functions that the invariants below are about.
CountsOK ==
  /\ produced \in Nat /\ queue \in Nat /\ taken \in Nat
  /\ out \in [Outputs -> {"none", "start", "event", "stop"}]
  /\ seen \in [Outputs -> Nat]

\* The fields of the steps of users and spawners: none of the reports'.
Others == <<main, statsVars, reportVars, panic>>

\* Spawners, users and the timer leave run, the reports and the outputs alone.
LEMMA UsersFrame ==
  ASSUME \/ Spawner \/ Refill \/ TimerExit
         \/ \E u \in Users : UserCheck(u) \/ Acquire(u) \/ TaskReturns(u) \/ PurgeIdle(u)
  PROVE  UNCHANGED Others
<1>1. CASE Spawner
  BY <1>1, Zenon DEF Spawner, SpawnerCheck, SpawnUser, Submit, CountRunning, OnlyUsers, Others
<1>2. CASE Refill \/ TimerExit
  BY <1>2, Zenon DEF Refill, TimerExit, OnlyUsers, Others
<1>3. ASSUME NEW u \in Users, UserCheck(u) \/ Acquire(u) \/ TaskReturns(u) \/ PurgeIdle(u)
      PROVE  UNCHANGED Others
  <2>1. \E from, to : UserStep(u, from, to)
    BY <1>3, Zenon DEF UserCheck, Acquire, TaskReturns, PurgeIdle
  <2>. QED BY <2>1, Zenon DEF UserStep, OnlyUsers, Others
<1>. QED BY <1>1, <1>2, <1>3, Zenon

-----------------------------------------------------------------------------
(* Reports and outputs *)

\* A reporter exists once outputOnStart is over; with that the outputs stay in
\* step.
ReportInv ==
  /\ CountsOK
  /\ main = "outputs" => reporter = "none"
  /\ OutputsInStep

\* It holds when run begins ...
LEMMA ReportInit == Init => ReportInv
BY DEF Init, ReportInv, CountsOK, OutputsInStep, Call

\* ... and after every step of any goroutine.
LEMMA ReportStep == ReportInv /\ [Next]_vars => ReportInv'
<1>. SUFFICES ASSUME ReportInv, [Next]_vars PROVE ReportInv'
  OBVIOUS
<1>. USE DEF ReportInv, CountsOK
<1>a. ASSUME UNCHANGED <<main, statsVars, reportVars>> PROVE ReportInv'
  BY <1>a DEF statsVars, reportVars, OutputsInStep
<1>1. CASE Main
  <2>1. CASE LaunchReporter
    BY <2>1 DEF LaunchReporter, MainStep, statsVars, AllReturned, Call, OutputsInStep
  <2>2. CASE StartLimiter \/ StartSpawning \/ WaitReturns
    BY <2>2 DEF StartLimiter, StartSpawning, WaitReturns, MainStep, statsVars, OutputsInStep
  <2>. QED BY <1>1, <2>1, <2>2 DEF Main
<1>2. CASE Reporter
  <2>. USE DEF ReporterStep, statsVars, AllReturned, Call
  <2>1. CASE TakeReport
    <3>1. reporter = "select" /\ reporter' = "event" /\ UNCHANGED <<main, produced, stats, seen, ended>>
      BY <2>1 DEF TakeReport
    <3>2. queue' = queue - 1 /\ taken' = taken + 1 /\ queue > 0 /\ out' = [o \in Outputs |-> "event"]
      BY <2>1 DEF TakeReport
    <3>3. OutputsInStep'
      BY <3>1, <3>2 DEF OutputsInStep
    <3>. QED BY <3>1, <3>2, <3>3
  <2>2. CASE EventDone
    BY <2>2 DEF EventDone, OutputsInStep
  <2>3. CASE ReporterQuit
    BY <2>3 DEF ReporterQuit, OutputsInStep
  <2>4. CASE ReporterDone
    BY <2>4 DEF ReporterDone, OutputsInStep
  <2>5. CASE ReporterExit
    BY <2>5 DEF ReporterExit, OutputsInStep
  <2>. QED BY <1>2, <2>1, <2>2, <2>3, <2>4, <2>5 DEF Reporter
<1>3. CASE Stats
  <2>1. UNCHANGED <<main, reporter, taken, out, seen, ended>>
    BY <1>3 DEF Stats, StatsTick, StatsSend, StatsExit, StatsStep
  <2>2. produced' \in Nat /\ queue' \in Nat
    BY <1>3 DEF Stats, StatsTick, StatsSend, StatsExit, StatsStep
  <2>3. OutputsInStep'
    BY <2>1 DEF OutputsInStep
  <2>. QED BY <2>1, <2>2, <2>3
<1>4. ASSUME NEW o \in Outputs, OutputReturns(o) PROVE ReportInv'
  <2>1. UNCHANGED <<main, stats, produced, queue, reporter, taken>>
    BY <1>4 DEF OutputReturns, statsVars
  <2>2. out' = [out EXCEPT ![o] = "none"] /\ out[o] # "none"
    BY <1>4 DEF OutputReturns
  <2>3. /\ out[o] = "event" => seen' = [seen EXCEPT ![o] = @ + 1]
        /\ out[o] # "event" => seen' = seen
        /\ out[o] = "stop" => ended' = ended \cup {o}
        /\ out[o] # "stop" => ended' = ended
    BY <1>4 DEF OutputReturns
  <2>4. OutputsInStep'
    BY <2>1, <2>2, <2>3 DEF OutputsInStep
  <2>5. CountsOK'
    BY <2>1, <2>2, <2>3
  <2>. QED BY <2>1, <2>4, <2>5
<1>5. CASE Stop \/ Quit \/ Shutdown
  BY <1>a, <1>5, Zenon DEF Stop, Quit, Shutdown, CloseStats, StopLimiter, CloseShutdownChan, QuitStep
<1>6. CASE \/ Spawner \/ Refill \/ TimerExit
           \/ \E u \in Users : UserCheck(u) \/ Acquire(u) \/ TaskReturns(u) \/ PurgeIdle(u)
  BY <1>a, <1>6, UsersFrame, Zenon DEF Others
<1>7. CASE UNCHANGED vars
  BY <1>a, <1>7, Zenon DEF vars
<1>. QED BY <1>1, <1>2, <1>3, <1>4, <1>5, <1>6, <1>7, Zenon DEF Next

\* Every output has seen every report but the one being handed out, and its
\* OnStop comes after all of them.
THEOREM OutputsStayInStep == Spec => []OutputsInStep
<1>1. ReportInv => OutputsInStep
  BY DEF ReportInv
<1>. QED BY <1>1, ReportInit, ReportStep, PTL DEF Spec

-----------------------------------------------------------------------------
(* Nil channels *)

\* stopChan is made, and an enabled limiter started, before run gets to wait.
StartInv ==
  /\ rateLimitEnabled \in BOOLEAN /\ panic \in BOOLEAN
  /\ stopChan = "nil" => main \in {"outputs", "limiter", "spawn"}
  /\ rateLimitEnabled /\ limiter = "off" => main \in {"outputs", "limiter"}
  /\ PanicsOnlyDuringStart

\* Every step keeps it: run goes on only while there was no panic.
LEMMA StartStep == StartInv /\ [Next]_vars => StartInv'
<1>. SUFFICES ASSUME StartInv, [Next]_vars PROVE StartInv'
  OBVIOUS
<1>. USE DEF StartInv, PanicsOnlyDuringStart, options
<1>a. ASSUME UNCHANGED <<options, main, stopChan, limiter, panic>> PROVE StartInv'
  BY <1>a
<1>1. CASE Main
  BY <1>1 DEF Main, LaunchReporter, StartLimiter, StartSpawning, WaitReturns, MainStep, userVars
<1>2. CASE Reporter \/ Stats
  BY <1>a, <1>2, Zenon DEF Reporter, TakeReport, EventDone, ReporterQuit, ReporterDone, ReporterExit,
     ReporterStep, Stats, StatsTick, StatsSend, StatsExit, StatsStep, userVars
<1>3. CASE Spawner \/ Refill
  BY <1>a, <1>3, Zenon DEF Spawner, SpawnerCheck, SpawnUser, Submit, CountRunning, Refill, OnlyUsers
<1>4. ASSUME NEW u \in Users, UserCheck(u) \/ Acquire(u) \/ TaskReturns(u) \/ PurgeIdle(u)
      PROVE  StartInv'
  <2>1. \E from, to : UserStep(u, from, to)
    BY <1>4, Zenon DEF UserCheck, Acquire, TaskReturns, PurgeIdle
  <2>. QED BY <1>a, <2>1, Zenon DEF UserStep, OnlyUsers
<1>5. ASSUME NEW o \in Outputs, OutputReturns(o) PROVE StartInv'
  BY <1>a, <1>5, Zenon DEF OutputReturns, userVars
<1>6. CASE TimerExit
  BY <1>6 DEF TimerExit, userVars
<1>7. CASE Stop
  BY <1>7 DEF Stop
<1>8. CASE Quit \/ Shutdown
  BY <1>8 DEF Quit, Shutdown, CloseStats, StopLimiter, CloseShutdownChan, QuitStep, userVars
<1>9. CASE UNCHANGED vars
  BY <1>a, <1>9, Zenon DEF vars, userVars
<1>. QED BY <1>1, <1>2, <1>3, <1>4, <1>5, <1>6, <1>7, <1>8, <1>9, Zenon DEF Next

\* Stop and Quit close a nil channel only if they overtake the start of run.
THEOREM NoLatePanic == Spec => []PanicsOnlyDuringStart
<1>1. Init => StartInv
  BY DEF Init, StartInv, PanicsOnlyDuringStart
<1>2. StartInv => PanicsOnlyDuringStart
  BY DEF StartInv
<1>. QED BY <1>1, <1>2, StartStep, PTL DEF Spec

-----------------------------------------------------------------------------
(* Types *)

\* The steps of users and spawners keep the types.
LEMMA UserTypes ==
  ASSUME TypeOK,
         \/ Spawner \/ Refill \/ TimerExit
         \/ \E u \in Users : UserCheck(u) \/ Acquire(u) \/ TaskReturns(u) \/ PurgeIdle(u)
  PROVE  TypeOK'
<1>. USE DEF TypeOK
<1>1. CASE SpawnerCheck \/ SpawnUser \/ Submit
  BY <1>1 DEF SpawnerCheck, SpawnUser, Submit, OnlyUsers, options, statsVars, reportVars
<1>2. CASE CountRunning
  <2>1. Cardinality(Spawned) \in Nat
    BY LocalAssumption, FS_Subset, FS_CardinalityType DEF Spawned
  <2>. QED BY <1>2, <2>1 DEF CountRunning, OnlyUsers, options, statsVars, reportVars
<1>3. CASE Refill \/ TimerExit
  BY <1>3 DEF Refill, TimerExit, OnlyUsers, options, userVars, statsVars, reportVars
<1>4. ASSUME NEW u \in Users, UserCheck(u) \/ Acquire(u) \/ TaskReturns(u) \/ PurgeIdle(u)
      PROVE  TypeOK'
  <2>1. \E from, to \in {"none", "check", "acquire", "waiting", "task", "idle", "gone"} :
          UserStep(u, from, to)
    BY <1>4 DEF UserCheck, Acquire, TaskReturns, PurgeIdle
  <2>. QED BY <2>1 DEF UserStep, OnlyUsers, options, statsVars, reportVars
<1>. QED BY <1>1, <1>2, <1>3, <1>4 DEF Spawner

\* The steps of run, the reports, the outputs and the caller keep the types.
LEMMA RunTypes ==
  ASSUME TypeOK,
         \/ Main \/ Reporter \/ Stats \/ Stop \/ Quit \/ Shutdown
         \/ \E o \in Outputs : OutputReturns(o)
  PROVE  TypeOK'
<1>. USE DEF TypeOK, options, userVars, statsVars, Call
<1>1. CASE Main
  BY <1>1 DEF Main, LaunchReporter, StartLimiter, StartSpawning, WaitReturns, MainStep
<1>2. CASE Reporter
  <2>1. CASE TakeReport
    BY <2>1, LocalAssumption DEF TakeReport, ReporterStep
  <2>2. CASE EventDone \/ ReporterQuit \/ ReporterExit
    BY <2>2 DEF EventDone, ReporterQuit, ReporterExit, ReporterStep
  <2>3. CASE ReporterDone
    <3>1. wgDone' \in BOOLEAN
      BY <2>3, Zenon DEF ReporterDone
    <3>. QED BY <2>3, <3>1 DEF ReporterDone, ReporterStep
  <2>. QED BY <1>2, <2>1, <2>2, <2>3 DEF Reporter
<1>3. CASE Stats
  BY <1>3, LocalAssumption DEF Stats, StatsTick, StatsSend, StatsExit, StatsStep
<1>4. CASE Stop \/ Quit \/ Shutdown
  BY <1>4 DEF Stop, Quit, Shutdown, CloseStats, StopLimiter, CloseShutdownChan, QuitStep, reportVars
<1>5. ASSUME NEW o \in Outputs, OutputReturns(o) PROVE TypeOK'
  BY <1>5 DEF OutputReturns
<1>. QED BY <1>1, <1>2, <1>3, <1>4, <1>5

\* Every field keeps its type; the report channel holds at most its capacity.
THEOREM TypeCorrect == Spec => []TypeOK
<1>1. Init => TypeOK
  <2>1. Init => wgDone \in BOOLEAN /\ panic \in BOOLEAN
    BY Zenon DEF Init
  <2>. QED BY <2>1, LocalAssumption DEF Init, TypeOK, Call
<1>2. TypeOK /\ UNCHANGED vars => TypeOK'
  BY DEF TypeOK, vars, options, userVars, statsVars, reportVars
<1>3. TypeOK /\ [Next]_vars => TypeOK'
  BY <1>2, UserTypes, RunTypes DEF Next
<1>. QED BY <1>1, <1>3, PTL DEF Spec
================================================================================
