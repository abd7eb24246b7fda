------------------------------ MODULE Outputs ------------------------------
(***************************************************************************)
(* The outputs.  The reporting goroutine of a runner queues a report for   *)
(* the master and hands it to every output at once; it takes the next      *)
(* report when all of them are done.  Here there are two: one that keeps   *)
(* the summary allStats (ConsoleOutput or JsonFileOutput: their OnEvent    *)
(* differs only in what it writes) and the PrometheusPusherOutput.  The    *)
(* client's send goroutine serialises the queued reports meanwhile, and    *)
(* shares the maps of errors with the summary.                             *)
(*                                                                         *)
(* A name is a number, ordered like the names of the code.  Of the counts  *)
(* per second only the seconds are kept: the code uses their number.  User *)
(* counts, content lengths and averages are left out, as is the wording of *)
(* the table and of the files.  convertData cannot fail on the data that   *)
(* the stats goroutine and the runner put together.                        *)
(***************************************************************************)
EXTENDS Integers, FiniteSetsExt, SequencesExt, Functions

CONSTANTS
  Reports,      \* what collectReportData may return, seconds counted from its start
  ReportInterval,  \* slaveReportInterval, in seconds
  Percent,      \* OutputOps.PercentTime
  MaxReports    \* bound: reports

\* A finite map of counts.
IsCount(map) == map \in [DOMAIN map -> Nat \ {0}] /\ IsFiniteSet(DOMAIN map)

\* An entry has at least one request, and counts every request by its time.
IsEntry(e) ==
  /\ e \in [name : Nat, method : STRING, requests : Nat \ {0}, failures : Nat, time : Nat,
            min : Nat, max : Nat, times : {e.times}, secs : SUBSET Nat, failSecs : SUBSET Nat]
  /\ IsCount(e.times) /\ DOMAIN e.times \subseteq Nat /\ SumFunction(e.times) = e.requests
  /\ IsFiniteSet(e.secs) /\ IsFiniteSet(e.failSecs)

\* What requestStats guarantees of a report (RequestStats!ReportsConsistent); there
\* is one entry for each name and method.
IsReport(r) ==
  /\ r \in [stats : {r.stats}, total : [requests : Nat, failures : Nat], errors : {r.errors}]
  /\ IsFiniteSet(r.stats) /\ IsCount(r.errors)
  /\ \A e \in r.stats : IsEntry(e)
  /\ \A e, f \in r.stats : e.name = f.name /\ e.method = f.method => e = f
  /\ r.total.requests = SumFunction([e \in r.stats |-> e.requests])
  /\ r.total.failures = SumFunction([e \in r.stats |-> e.failures])
  /\ r.total.failures = SumFunction(r.errors)

ASSUME ReportAssumption ==
  /\ ReportInterval \in Nat \ {0} /\ Percent \in 0..100 /\ MaxReports \in Nat
  /\ \A r \in Reports : IsReport(r)

VARIABLES
  kind,         \* the output that keeps the summary: "console" or "json"
  reports,      \* the reports handed to the outputs
  errs,         \* errs[i]: the maps of errors of report i, as they are now
  step,         \* the summarising output: "build", "errors", "done"
  todo,         \* errors of the report that it has still to merge
  rows,         \* the current data it shows
  summary,      \* allStats, but for its errors
  owner,        \* allStats.Errors: owner[k] is the report whose map it holds for k
  pushing,      \* has the Prometheus output still to push the report?
  gauges,       \* its gauge vectors
  sending,      \* is the sender serialising a report?
  sent,         \* sent[i]: the errors of report i on the wire, and how many reports
                \* the outputs had been given when they were read
  lines,        \* the real time file: the requests on each line
  totalFile,    \* the total file: <<requests>>, or NoFile
  ended         \* has the program been ended by an output?

outputVars == <<step, todo, rows, summary, owner>>
senderVars == <<sending, sent>>
fileVars == <<lines, totalFile, ended>>
vars == <<kind, reports, errs, outputVars, pushing, gauges, senderVars, fileVars>>

NoFile == << >>
NoSummary == [stats |-> << >>, total |-> [requests |-> 0, failures |-> 0],
              requests |-> 0, failures |-> 0, rps |-> 0]

Init ==
  /\ kind \in {"console", "json"} /\ reports = << >> /\ errs = << >>
  /\ step = "done" /\ todo = {} /\ rows = << >> /\ summary = NoSummary /\ owner = << >>
  /\ pushing = FALSE /\ gauges = << >> /\ sending = FALSE /\ sent = << >>
  /\ lines = << >> /\ totalFile = NoFile /\ ended = FALSE

-----------------------------------------------------------------------------
(* What is derived from an entry. *)

\* The requests that took at most t.
UpTo(times, t) == SumFunctionOnSet(times, {u \in DOMAIN times : u <= t})

\* Mutant: the walk stops one request late.
AtPosition_OffByOne(pos, times) ==
  LET hit == {t \in DOMAIN times : pos <= UpTo(times, t)}
  IN  IF hit = {} THEN 0 ELSE Min(hit)

\* The loop over the sorted response times: the first at which the requests
\* counted so far are more than pos.
AtPosition(pos, times) ==
  LET hit == {t \in DOMAIN times : pos < UpTo(times, t)}
  IN  IF hit = {} THEN 0 ELSE Min(hit)

GetMedianResponseTime(n, times) == AtPosition((n - 1) \div 2, times)
GetPercentResponseTime(n, times, p) == AtPosition(((n - 1) * p) \div 100, times)

\* One second is taken off when there are more than two.
GetCurrentRps(n, secs) ==
  LET count == IF Cardinality(secs) > 2 THEN Cardinality(secs) - 1 ELSE Cardinality(secs)
  IN  IF count = 0 THEN 0 ELSE n \div count

GetCurrentFailPerSec(n, secs) == IF secs = {} THEN 0 ELSE n \div Cardinality(secs)

\* deserializeStatsEntry: an entry with what is derived from it.
Derive(e) ==
  [name |-> e.name, method |-> e.method, requests |-> e.requests, failures |-> e.failures,
   time |-> e.time, min |-> e.min, max |-> e.max, times |-> e.times,
   secs |-> e.secs, failSecs |-> e.failSecs,
   median |-> GetMedianResponseTime(e.requests, e.times),
   percent |-> GetPercentResponseTime(e.requests, e.times, Percent),
   p95 |-> GetPercentResponseTime(e.requests, e.times, 95),
   rps |-> GetCurrentRps(e.requests, e.secs),
   failPerSec |-> GetCurrentFailPerSec(e.failures, e.failSecs)]

\* The items of a report, in the order of a Go map: any.
ConvertData(report) ==
  {[i \in DOMAIN order |-> Derive(order[i])] : order \in SetToSeqs(report.stats)}

\* The body of the loops of sortOutput.
Exchange(s, j) ==
  IF s[j].name < s[j - 1].name THEN [s EXCEPT ![j] = s[j - 1], ![j - 1] = s[j]] ELSE s

\* Mutant: the bound of the inner loop is one short.
Bubble_OffByOne(s, n) ==
  LET after[j \in 1..n] == IF j = 1 THEN s ELSE Exchange(after[j - 1], j)
  IN  after[IF n = 1 THEN 1 ELSE n - 1]

\* The inner loop: the largest of the first n names gets to place n.
Bubble(s, n) ==
  LET after[j \in 1..n] == IF j = 1 THEN s ELSE Exchange(after[j - 1], j)
  IN  after[n]

\* sortOutput: bubble sort by name.
SortOutput(stats) ==
  LET pass[i \in 0..Len(stats)] ==
        IF i = 0 THEN stats ELSE Bubble(pass[i - 1], Len(stats) - i + 1)
  IN  pass[Len(stats)]

-----------------------------------------------------------------------------
(* The summary *)

\* An item of the report is added to the row of its name, whatever its method.
Merge(a, o) ==
  Derive([a EXCEPT !.requests = @ + o.requests, !.failures = @ + o.failures,
                   !.time = @ + o.time, !.max = Max({@, o.max}), !.min = Min({@, o.min}),
                   !.times = @ (+) o.times,
                   !.secs = @ \cup o.secs, !.failSecs = @ \cup o.failSecs])

AddRow(stats, o) ==
  LET hit == {i \in DOMAIN stats : stats[i].name = o.name}
  IN  IF hit = {} THEN Append(stats, o) ELSE [stats EXCEPT ![Min(hit)] = Merge(@, o)]

\* The loop over the items of the report.
AddRows(stats, items) ==
  LET after[i \in 0..Len(items)] ==
        IF i = 0 THEN stats ELSE AddRow(after[i - 1], items[i])
  IN  after[Len(items)]

\* The requests, failures and requests per second of all rows.
Requests(stats) == SumFunction([i \in DOMAIN stats |-> stats[i].requests])
Failures(stats) == SumFunction([i \in DOMAIN stats |-> stats[i].failures])
Rps(stats) == SumFunction([i \in DOMAIN stats |-> stats[i].rps])

\* Mutant: the counts of the summary are not set back to zero.
Totals_NoReset(stats, total) ==
  [stats |-> stats,
   total |-> [requests |-> summary.total.requests + total.requests,
              failures |-> summary.total.failures + total.failures],
   requests |-> summary.requests + Requests(stats),
   failures |-> summary.failures + Failures(stats),
   rps |-> Rps(stats)]

\* The end of buildAllStats: TotalStats grows with the totals of the reports, the
\* other counts are added up from the rows.
Totals(stats, total) ==
  [stats |-> stats,
   total |-> [requests |-> summary.total.requests + total.requests,
              failures |-> summary.total.failures + total.failures],
   requests |-> Requests(stats),
   failures |-> Failures(stats),
   rps |-> Rps(stats)]

\* Mutant: rows and items are the same objects: every item is shown as its row.
Shown_Summary(current, stats) ==
  [i \in DOMAIN current |-> CHOOSE a \in ToSet(stats) : a.name = current[i].name]

\* The items to show.  One that has just become a row of the summary is that row:
\* another item of its name in the same report has been added to it.
Shown(current, stats) ==
  LET becameRow(i) == /\ \A a \in ToSet(summary.stats) : a.name # current[i].name
                      /\ \A j \in 1..(i - 1) : current[j].name # current[i].name
  IN  [i \in DOMAIN current |->
         IF becameRow(i) THEN CHOOSE a \in ToSet(stats) : a.name = current[i].name
         ELSE current[i]]

\* OnEvent up to the errors: convertData, sortOutput, buildAllStats, sortOutput.
BuildAllStats ==
  /\ step = "build" /\ ~ended
  /\ \E items \in ConvertData(Last(reports)) :
       LET current == SortOutput(items)
           stats == SortOutput(AddRows(summary.stats, current))
       IN  /\ rows' = Shown(current, stats)
           /\ summary' = Totals(stats, Last(reports).total)
  /\ step' = "errors" /\ todo' = DOMAIN Last(reports).errors
  /\ UNCHANGED <<kind, reports, errs, owner, pushing, gauges, senderVars, fileVars>>

Put(map, key, value) == [k \in DOMAIN map \cup {key} |-> IF k = key THEN value ELSE map[k]]

\* Mutant: a new error is added to itself.
MergeError_Twice(k) ==
  /\ step = "errors" /\ k \in todo /\ ~ended
  /\ LET n == Len(reports)
         o == IF k \in DOMAIN owner THEN owner[k] ELSE n
     IN  /\ errs' = [errs EXCEPT ![o][k] = @ + errs[n][k]]
         /\ owner' = Put(owner, k, o)
  /\ todo' = todo \ {k}
  /\ UNCHANGED <<kind, reports, step, rows, summary, pushing, gauges, senderVars, fileVars>>

\* The first map for an error becomes the summary's own; later counts are added
\* into it.
MergeError(k) ==
  /\ step = "errors" /\ k \in todo /\ ~ended
  /\ LET n == Len(reports) IN
       \/ /\ k \in DOMAIN owner
          /\ errs' = [errs EXCEPT ![owner[k]][k] = @ + errs[n][k]]
          /\ UNCHANGED owner
       \/ /\ k \notin DOMAIN owner
          /\ owner' = Put(owner, k, n)
          /\ UNCHANGED errs
  /\ todo' = todo \ {k}
  /\ UNCHANGED <<kind, reports, step, rows, summary, pushing, gauges, senderVars, fileVars>>

\* The map that MergeError writes is one that the sender iterates over: the Go
\* runtime may notice, and then ends the program.
ConcurrentMapFault ==
  /\ step = "errors" /\ sending /\ ~ended
  /\ \E k \in todo \cap DOMAIN owner : owner[k] = Len(sent) + 1
  /\ ended' = TRUE
  /\ UNCHANGED <<kind, reports, errs, outputVars, pushing, gauges, senderVars, lines, totalFile>>

\* ConsoleOutput prints the rows and the summary.
Render ==
  /\ kind = "console" /\ step = "errors" /\ todo = {} /\ ~ended
  /\ step' = "done"
  /\ UNCHANGED <<kind, reports, errs, todo, rows, summary, owner, pushing, gauges,
                 senderVars, fileVars>>

\* WriteTextToFile: the old file is removed first; log.Fatal if there can be no
\* new one.  Its errors of Remove and WriteString, which it ignores, are left out.
WriteTotal ==
  \/ totalFile' = <<summary.requests>> /\ UNCHANGED ended
  \/ totalFile' = NoFile /\ ended' = TRUE

\* AppendLineToFile: a failure is only logged.
AppendLine ==
  \/ lines' = Append(lines, Requests(rows))
  \/ UNCHANGED lines

\* JsonFileOutput with both paths set: a line for the rows, the file of the summary.
WriteFiles ==
  /\ kind = "json" /\ step = "errors" /\ todo = {} /\ ~ended
  /\ AppendLine /\ WriteTotal
  /\ step' = "done"
  /\ UNCHANGED <<kind, reports, errs, todo, rows, summary, owner, pushing, gauges, senderVars>>

Labels(e) == <<e.method, e.name>>

\* PrometheusPusherOutput: a gauge for each name and method of the report; the
\* others keep their values.
PushGauges ==
  /\ pushing /\ ~ended
  /\ \E items \in ConvertData(Last(reports)) :
       gauges' = [x \in DOMAIN gauges \cup {Labels(o) : o \in ToSet(items)} |->
                    IF \E o \in ToSet(items) : Labels(o) = x
                    THEN CHOOSE o \in ToSet(items) : Labels(o) = x
                    ELSE gauges[x]]
  /\ pushing' = FALSE
  /\ UNCHANGED <<kind, reports, errs, outputVars, senderVars, fileVars>>

-----------------------------------------------------------------------------
(* The runner and the client *)

\* The seconds of the n-th report; the last one may also be the first of the next.
At(n, e) == [e EXCEPT !.secs = {ReportInterval * n + s : s \in @},
                      !.failSecs = {ReportInterval * n + s : s \in @}]

\* The reporting goroutine queues a report for the master and starts the outputs.
HandOver ==
  /\ step = "done" /\ ~pushing /\ ~ended /\ Len(reports) < MaxReports
  /\ \E r \in Reports :
       /\ reports' = Append(reports, [r EXCEPT !.stats = {At(Len(reports), e) : e \in @}])
       /\ errs' = Append(errs, r.errors)
  /\ step' = "build" /\ pushing' = TRUE
  /\ UNCHANGED <<kind, todo, rows, summary, owner, gauges, senderVars, fileVars>>

\* The send goroutine serialises the reports in their order.  A map it reads while
\* it is written to has the old value or the new one.
StartSerializing ==
  /\ ~sending /\ ~ended /\ Len(sent) < Len(reports)
  /\ sending' = TRUE
  /\ UNCHANGED <<kind, reports, errs, outputVars, pushing, gauges, sent, fileVars>>

Serialize ==
  /\ sending /\ ~ended
  /\ sent' = Append(sent, [errors |-> errs[Len(sent) + 1], given |-> Len(reports)])
  /\ sending' = FALSE
  /\ UNCHANGED <<kind, reports, errs, outputVars, pushing, gauges, fileVars>>

-----------------------------------------------------------------------------
Next ==
  \/ HandOver \/ BuildAllStats \/ ConcurrentMapFault \/ Render \/ WriteFiles \/ PushGauges
  \/ \E k \in todo : MergeError(k)
  \/ StartSerializing \/ Serialize

Spec == Init /\ [][Next]_vars

-----------------------------------------------------------------------------
(* Properties *)

\* The reports that are in the rows of the summary.
Built == 1..(IF step = "build" THEN Len(reports) - 1 ELSE Len(reports))

\* The entries of a name in these reports.
Entries(name) == {x \in Built \X UNION {reports[i].stats : i \in Built} :
                    x[2] \in reports[x[1]].stats /\ x[2].name = name}

Names == {e.name : e \in UNION {reports[i].stats : i \in Built}}

\* How often a report names an error, and the reports merged for it.
Occurrences(i, k) == IF k \in DOMAIN reports[i].errors THEN reports[i].errors[k] ELSE 0
Merged(k) == Built \ (IF k \in todo THEN {Len(reports)} ELSE {})

\* The summary has one row for each name, in their order, that says of all the
\* reports what an entry says of one; its errors are those of all the reports.
SummaryAccurate ==
  /\ \A i, j \in DOMAIN summary.stats : i < j => summary.stats[i].name < summary.stats[j].name
  /\ {a.name : a \in ToSet(summary.stats)} = Names
  /\ \A a \in ToSet(summary.stats) :
       LET all == Entries(a.name) IN
         /\ a.requests = SumFunction([x \in all |-> x[2].requests])
         /\ a.failures = SumFunction([x \in all |-> x[2].failures])
         /\ a.time = SumFunction([x \in all |-> x[2].time])
         /\ a.min = Min({x[2].min : x \in all}) /\ a.max = Max({x[2].max : x \in all})
         /\ a.secs = UNION {x[2].secs : x \in all}
  /\ \A k \in (UNION {DOMAIN reports[i].errors : i \in Built}) \ todo :
       errs[owner[k]][k] = SumFunction([i \in Merged(k) |-> Occurrences(i, k)])

\* The two counts of the requests that the summary keeps agree with each other and
\* with the reports; so do those of the failures.
TotalsAgree ==
  /\ summary.requests = summary.total.requests /\ summary.failures = summary.total.failures
  /\ summary.requests = SumFunction([i \in Built |-> reports[i].total.requests])
  /\ summary.failures = SumFunction([i \in Built |-> reports[i].total.failures])

\* v is the response time at a position among all requests of a name: at most pos
\* of them were quicker, and more than pos as quick.
IsAtPosition(v, pos, name) ==
  /\ SumFunction([x \in Entries(name) |-> UpTo(x[2].times, v - 1)]) <= pos
  /\ SumFunction([x \in Entries(name) |-> UpTo(x[2].times, v)]) > pos

\* The median and the percentiles in the summary are those of all the requests of
\* the reports, not of the last one.
PercentilesCorrect ==
  \A a \in ToSet(summary.stats) :
    /\ IsAtPosition(a.median, (a.requests - 1) \div 2, a.name)
    /\ IsAtPosition(a.percent, ((a.requests - 1) * Percent) \div 100, a.name)
    /\ IsAtPosition(a.p95, ((a.requests - 1) * 95) \div 100, a.name)

\* Does a report have two methods of this name?
Shared(i, name) == Cardinality({e \in reports[i].stats : e.name = name}) > 1

\* When all outputs are done with a report, the gauges and the rows show its own
\* data, the rows only for the names that occur once in it; and if there never was
\* another such name, the lines of the real time file account for the total file.
OutputsAgree ==
  step = "done" /\ ~pushing /\ reports # << >> /\ ~ended =>
    /\ \A e \in Last(reports).stats :
         /\ gauges[Labels(e)].requests = e.requests
         /\ ~Shared(Len(reports), e.name) => gauges[Labels(e)] \in ToSet(rows)
    /\ /\ Len(lines) = Len(reports)
       /\ \A i \in DOMAIN reports : \A e \in reports[i].stats : ~Shared(i, e.name)
       => totalFile = <<SumFunction(lines)>>

\* The errors of a report reach the master as they were collected, unless the
\* sender is late and the report was the first with that error: then later
\* reports have been added to it.
ErrorsSentIntact ==
  \A i \in DOMAIN sent : \A k \in DOMAIN sent[i].errors :
    LET first == \A j \in 1..(i - 1) : Occurrences(j, k) = 0 IN
      /\ sent[i].errors[k] >= Occurrences(i, k)
      /\ sent[i].given = i \/ ~first => sent[i].errors[k] = Occurrences(i, k)
      /\ sent[i].errors[k] <= SumFunction([j \in 1..sent[i].given |-> Occurrences(j, k)])
=============================================================================
