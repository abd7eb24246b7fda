---------------------------- MODULE RequestStats ----------------------------
(***************************************************************************)
(* requestStats: goroutines of Task.Fn record requests into two bounded    *)
(* channels, one stats goroutine logs them into entries and, at each tick  *)
(* of its ticker, strips the entries into a report for the runner.         *)
(*                                                                         *)
(* Names and methods are short sequences, so that name + method, the key   *)
(* of an entry, is concatenation.  Timestamps, the counts per second and   *)
(* content lengths are left out.                                           *)
(***************************************************************************)
EXTENDS ResponseTime, Sequences, FiniteSets, Functions

CONSTANTS
  Recorders,    \* goroutines that call RecordSuccess and RecordFailure
  Requests,     \* what they record
  ChanCap,      \* capacity of requestSuccessChan and of requestFailureChan
  RunnerCap,    \* capacity of messageToRunnerChan
  MaxRequests   \* bound: requests recorded

NoError == <<"no error">>

ASSUME StatsAssumption ==
  /\ \A r \in Requests : r.time \in Nat /\ r.err # << >>
  /\ ChanCap \in Nat \ {0} /\ RunnerCap \in Nat \ {0} /\ MaxRequests \in Nat

VARIABLES
  rec,          \* rec[g]: <<the request g is recording>>, or Idle
  success, failure,  \* requestSuccessChan, requestFailureChan
  clearing,     \* does the runner's listener wait in clearStatsChan <- true?
  pc,           \* the stats goroutine: "select", "send", "exited"
  pending,      \* the report it sends
  toRunner,     \* messageToRunnerChan
  closed,       \* is shutdownChan closed?
  entries, errors, total,
  logged,       \* history: requests logged since the last report or clear
  recorded,     \* history: requests recorded
  cleared,      \* history: requests that clearAll forgot
  reported      \* history: requests in reports the runner has taken

statsVars == <<entries, errors, total, logged, cleared>>
vars == <<rec, success, failure, clearing, pc, pending, toRunner, closed, statsVars,
          recorded, reported>>

Idle == << >>
IsFailure(r) == r.err # NoError

NewEntry == [requests |-> 0, failures |-> 0, time |-> 0, min |-> 0, max |-> 0,
             times |-> << >>]

EmptyReport == [stats |-> << >>, total |-> NewEntry, errors |-> << >>]

Init ==
  /\ rec = [g \in Recorders |-> Idle] /\ success = << >> /\ failure = << >>
  /\ clearing = FALSE /\ pc = "select" /\ pending = EmptyReport /\ toRunner = << >>
  /\ closed = FALSE /\ entries = << >> /\ errors = << >> /\ total = NewEntry
  /\ logged = << >> /\ recorded = 0 /\ cleared = 0 /\ reported = 0

-----------------------------------------------------------------------------
(* statsEntry *)

\* The value of a Go map at a key it may not have.
Get(map, key, default) == IF key \in DOMAIN map THEN map[key] ELSE default
Put(map, key, value) == [k \in DOMAIN map \cup {key} |-> IF k = key THEN value ELSE map[k]]

\* A map of counts: a key it does not have starts with one.
Increment(map, key) == Put(map, key, Get(map, key, 0) + 1)

Smaller(a, b) == IF a < b THEN a ELSE b
Larger(a, b) == IF a < b THEN b ELSE a

\* Mutant: the smallest response time stays zero.
Log_MinStaysZero(e, t) ==
  [e EXCEPT !.requests = @ + 1, !.time = @ + t, !.min = Smaller(@, t),
            !.max = Larger(@, t), !.times = Increment(@, RoundedResponseTime(t))]

\* log and logResponseTime: a minimum of zero counts as none.
Log(e, t) ==
  [e EXCEPT !.requests = @ + 1, !.time = @ + t,
            !.min = IF @ = 0 THEN t ELSE Smaller(@, t),
            !.max = Larger(@, t), !.times = Increment(@, RoundedResponseTime(t))]

LogError(e) == [e EXCEPT !.failures = @ + 1]

Key(r) == r.name \o r.method
ErrorKey(r) == r.method \o r.name \o r.err

-----------------------------------------------------------------------------
(* RecordSuccess and RecordFailure: a send that waits for room. *)

Record(g) ==
  /\ rec[g] = Idle
  /\ recorded + Cardinality({h \in Recorders : rec[h] # Idle}) < MaxRequests
  /\ \E r \in Requests : rec' = [rec EXCEPT ![g] = <<r>>]
  /\ UNCHANGED <<success, failure, clearing, pc, pending, toRunner, closed, statsVars,
                 recorded, reported>>

RecordReturns(g) ==
  /\ rec[g] # Idle
  /\ \/ /\ IsFailure(rec[g][1]) /\ Len(failure) < ChanCap
        /\ failure' = failure \o rec[g] /\ UNCHANGED success
     \/ /\ ~IsFailure(rec[g][1]) /\ Len(success) < ChanCap
        /\ success' = success \o rec[g] /\ UNCHANGED failure
  /\ rec' = [rec EXCEPT ![g] = Idle]
  /\ recorded' = recorded + 1
  /\ UNCHANGED <<clearing, pc, pending, toRunner, closed, statsVars, reported>>

-----------------------------------------------------------------------------
(* The stats goroutine: one action per case of its select. *)

OnlyStats == UNCHANGED <<rec, pending, toRunner, closed, recorded, reported>>

LogSuccess ==
  /\ pc = "select" /\ success # << >>
  /\ LET r == Head(success) IN
       /\ total' = Log(total, r.time)
       /\ entries' = Put(entries, Key(r), Log(Get(entries, Key(r), NewEntry), r.time))
       /\ logged' = Append(logged, r)
  /\ success' = Tail(success)
  /\ UNCHANGED <<failure, clearing, pc, errors, cleared>> /\ OnlyStats

LogFailure ==
  /\ pc = "select" /\ failure # << >>
  /\ LET r == Head(failure) IN
       /\ total' = LogError(Log(total, r.time))
       /\ entries' = Put(entries, Key(r),
                         LogError(Log(Get(entries, Key(r), NewEntry), r.time)))
       /\ errors' = Increment(errors, ErrorKey(r))
       /\ logged' = Append(logged, r)
  /\ failure' = Tail(failure)
  /\ UNCHANGED <<success, clearing, pc, cleared>> /\ OnlyStats

ClearAll ==
  /\ pc = "select" /\ clearing
  /\ clearing' = FALSE
  /\ total' = NewEntry /\ entries' = << >> /\ errors' = << >>
  /\ logged' = << >> /\ cleared' = cleared + Len(logged)
  /\ UNCHANGED <<success, failure, pc>> /\ OnlyStats

\* Mutant: forgets to start a new map of errors.
Tick_KeepErrors ==
  /\ pc = "select"
  /\ pending' = [stats |-> entries, total |-> total, errors |-> errors]
  /\ entries' = [k \in DOMAIN entries |-> NewEntry]
  /\ total' = NewEntry
  /\ pc' = "send" /\ logged' = << >>
  /\ UNCHANGED <<rec, success, failure, clearing, toRunner, closed, cleared, errors,
                 recorded, reported>>

\* Mutant: the total is reported but not stripped.
Tick_KeepTotal ==
  /\ pc = "select"
  /\ pending' = [stats |-> entries, total |-> total, errors |-> errors]
  /\ entries' = [k \in DOMAIN entries |-> NewEntry]
  /\ errors' = << >>
  /\ pc' = "send" /\ logged' = << >>
  /\ UNCHANGED <<rec, success, failure, clearing, toRunner, closed, cleared, total,
                 recorded, reported>>

\* collectReportData: the entries stay, reset; those without requests are left
\* out of the report.
Tick ==
  /\ pc = "select"
  /\ LET hit == {k \in DOMAIN entries : ~(entries[k].requests = 0 /\ entries[k].failures = 0)}
     IN  pending' = [stats |-> [k \in hit |-> entries[k]], total |-> total, errors |-> errors]
  /\ entries' = [k \in DOMAIN entries |-> NewEntry]
  /\ total' = NewEntry /\ errors' = << >>
  /\ pc' = "send" /\ logged' = << >>
  /\ UNCHANGED <<rec, success, failure, clearing, toRunner, closed, cleared, recorded,
                 reported>>

\* Mutant: does not go back to its select.
SendReport_Stay ==
  /\ pc = "send" /\ Len(toRunner) < RunnerCap
  /\ toRunner' = Append(toRunner, pending)
  /\ pending' = EmptyReport
  /\ UNCHANGED <<rec, success, failure, clearing, pc, closed, statsVars, recorded, reported>>

SendReport ==
  /\ pc = "send" /\ Len(toRunner) < RunnerCap
  /\ toRunner' = Append(toRunner, pending)
  /\ pending' = EmptyReport
  /\ pc' = "select"
  /\ UNCHANGED <<rec, success, failure, clearing, closed, statsVars, recorded, reported>>

Exit ==
  /\ pc = "select" /\ closed
  /\ pc' = "exited"
  /\ UNCHANGED <<rec, success, failure, clearing, pending, toRunner, closed, statsVars,
                 recorded, reported>>

-----------------------------------------------------------------------------
(* The runner: its listener asks for a clear, its reporting goroutine takes *)
(* the reports, shutdown closes the stats.                                  *)

AskToClear ==
  /\ ~clearing
  /\ clearing' = TRUE
  /\ UNCHANGED <<rec, success, failure, pc, pending, toRunner, closed, statsVars, recorded,
                 reported>>

TakeReport ==
  /\ toRunner # << >>
  /\ reported' = reported + Head(toRunner).total.requests
  /\ toRunner' = Tail(toRunner)
  /\ UNCHANGED <<rec, success, failure, clearing, pc, pending, closed, statsVars, recorded>>

Close ==
  /\ ~closed
  /\ closed' = TRUE
  /\ UNCHANGED <<rec, success, failure, clearing, pc, pending, toRunner, statsVars,
                 recorded, reported>>

-----------------------------------------------------------------------------
Next ==
  \/ \E g \in Recorders : Record(g) \/ RecordReturns(g)
  \/ LogSuccess \/ LogFailure \/ ClearAll \/ Tick \/ SendReport \/ Exit
  \/ AskToClear \/ TakeReport \/ Close

Spec == Init /\ [][Next]_vars

\* A select of Go chooses at random among the cases that are ready, and the
\* goroutines that wait for room in a channel are served in turn: strong
\* fairness.  No one has to record, to clear or to close, and the runner need not
\* take a report: its reporting goroutine may itself wait for room in toMaster.
Fairness ==
  /\ \A g \in Recorders : SF_vars(RecordReturns(g))
  /\ SF_vars(LogSuccess) /\ SF_vars(LogFailure) /\ SF_vars(ClearAll) /\ SF_vars(Tick)
  /\ SF_vars(Exit)
  /\ WF_vars(SendReport)

FairSpec == Spec /\ Fairness

-----------------------------------------------------------------------------
(* Properties *)

Times(log, s) == {log[i].time : i \in s}

\* The reference: what an entry should say about the requests at the positions s
\* of a log.
Summarizes(e, log, s) ==
  /\ e.requests = Cardinality(s)
  /\ e.failures = Cardinality({i \in s : IsFailure(log[i])})
  /\ e.time = SumFunction([i \in s |-> log[i].time])
  /\ e.max \in Times(log, s) \cup {0} /\ \A t \in Times(log, s) : t <= e.max
  /\ DOMAIN e.times = {RoundedResponseTime(t) : t \in Times(log, s)}
  /\ \A key \in DOMAIN e.times :
       e.times[key] = Cardinality({i \in s : RoundedResponseTime(log[i].time) = key})
  /\ s = {} => e.min = 0
  /\ s # {} /\ 0 \notin Times(log, s) =>
       e.min \in Times(log, s) /\ \A t \in Times(log, s) : e.min <= t

Of(key) == {i \in DOMAIN logged : Key(logged[i]) = key}

\* At any time the total and every entry say what was logged since the last
\* report or clear, nothing twice and nothing missing.  Only the minimum may be
\* hidden: it takes a time of zero for no time at all.
EntriesAccurate ==
  /\ Summarizes(total, logged, DOMAIN logged)
  /\ \A i \in DOMAIN logged : Key(logged[i]) \in DOMAIN entries
  /\ \A k \in DOMAIN entries : Summarizes(entries[k], logged, Of(k))

\* A report is consistent in itself: the errors account for the failures and
\* the entries for the total.
Consistent(report) ==
  /\ SumFunction(report.errors) = report.total.failures
  /\ SumFunction([k \in DOMAIN report.stats |-> report.stats[k].requests]) = report.total.requests
  /\ SumFunction([k \in DOMAIN report.stats |-> report.stats[k].time]) = report.total.time

\* Every report on its way to the runner is consistent.
ReportsConsistent ==
  /\ Consistent(pending)
  /\ \A i \in DOMAIN toRunner : Consistent(toRunner[i])

\* Every request recorded is in exactly one place: a channel, the current
\* entries, one report, or what clearAll forgot.
RequestsConserved ==
  recorded = Len(success) + Len(failure) + total.requests + cleared + pending.total.requests
             + SumFunction([i \in DOMAIN toRunner |-> toRunner[i].total.requests]) + reported

\* The stats goroutine holds a report that finds no room.
RunnerBusy == pc = "send" /\ Len(toRunner) = RunnerCap

\* A call of RecordSuccess or RecordFailure returns, and the listener that asked
\* for a clear goes on, unless the stats are closed or the runner, whose reporting
\* goroutine may wait behind a stuck connection, takes no more reports at all.
CallersServed ==
  \/ <>[]RunnerBusy
  \/ /\ \A g \in Recorders : (rec[g] # Idle) ~> (rec[g] = Idle \/ closed)
     /\ clearing ~> (~clearing \/ closed)
=============================================================================
