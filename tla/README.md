# A TLA+ verification of boomer

boomer is a load generator in Go. It runs users (goroutines that call `Task.Fn`
over and over), records what the users report, and works either for a locust
master (distributed mode, `slaveRunner`) or on its own (standalone mode,
`localRunner`). Its parts are goroutines that talk over Go channels, close
channels to broadcast, and share fields without locks. These modules model those
protocols, and the arithmetic of the reports, and check what a test that sleeps
two seconds and looks cannot reach.

## The system

| part | state it keeps | operations | talks to |
|---|---|---|---|
| `slaveRunner` (runner.go) | `state`, `stopChan`, `numClients`, `waitForAck`, `lastReceivedSpawnTimestamp` | `onMessage` on ack, spawn, stop, quit, custom; reports, heartbeats, `shutdown` | master through the client's channels; stats by `clearStatsChan`; spawners and users by `stopChan` and `shutdownChan` |
| spawners (runner.go) | an ants pool or a counter of goroutines | `newSpawnWorkers` (default), `spawnWorkers` (standalone option) | read `stopChan`, `shutdownChan`; write `numClients`; `Acquire` |
| `localRunner` (runner.go) | the same, and the outputs | `run`, `stop`, `shutdown` | outputs, stats, limiter |
| `requestStats` (stats.go) | entries, errors, total | log, clear, tick, close | users by two bounded channels, the runner by a third |
| rate limiters (ratelimiter.go) | `currentThreshold`, `nextThreshold`, `timerId`, `broadcastChannel`, `quitChannel` | `Start`, timers, `Acquire`, `Stop` | users |
| task sets (taskset.go, legacy.go) and `runner.getTask` | weights | add, pick | users |
| client (client_gomq.go) | two channels of 100 messages, `disconnectedFromMaster` | `recv`, `send`, `close` | master, runner, `Boomer.Quit` |
| outputs (output.go) | the global `allStats`, two files, gauges | `OnStart`, `OnEvent`, `OnStop` | runner; the maps of a report are shared with the client |
| event bus (events.go) | subscribers, a lock | subscribe, publish | `Boomer.Quit`, `Run`, listener, `onQuiting` |
| `Boomer` (boomer.go) | mode, options | `Run`, `RecordSuccess`, `RecordFailure`, `Stop`, `Quit` | both runners |

What is hard here: closing a channel that is nil or closed ends the process
(`stopChan`, `broadcastChannel`, `shutdownChan`); `WaitGroup.Done` below zero
does too; the goroutines of an old spawn run on beside those of the new one;
`r.state` and `r.numClients` are shared without locks; goroutines block on
channels whose other end may already have left; a publish holds the lock of the
bus while a subscriber waits for room in a channel; timers of an earlier `Start`
wake up after a later one; a report is read by the sender while the outputs merge
it. `PROJECT.json` lists each hazard at its line with the properties that cover it.

What makes each part correct:

- worker: a stop is answered, a load runs at most until it is stopped or
  replaced, no channel is closed twice, the ack counter stays matched, a worker
  that says it is ready is idle;
- connection: heartbeats get out, at most two reports follow a stop (one while the
  worker answers it, one after that), a quit from either side ends the program, and
  then the goroutines end;
- standalone: the outputs get the reports in step, Stop and Quit end the users, Quit
  ends the goroutines of the stats;
- limiters: no burst, everyone who waits while the limiter runs is released, the
  ramp reaches its maximum;
- stats: every request is counted exactly once, a report is consistent, keys of
  the response times are close to the times and in their order;
- outputs: the summary says of all reports what a report says of one, also in its
  percentiles, and every output and the master are told the same;
- task sets: each task is picked as often as its weight says, smoothly.

## Modules

`SlaveRunner` models a worker with its master. Generation `g` is the `g`-th
`stopChan` with the spawner and the pool that select on it; `closed` is the set
of generations whose channel is closed. The listener is one action per case of
`onMessage` and, after it, one per step in which it may be held up: clearing the
stats, handling the spawn message, each send, the last assignment of `r.state`. So
`client_stopped`, `client_ready` and `stateInit` are three steps of the answer to a
stop, the master may ack between the last two, and `stateStopped` is seen. A spawn
message whose timestamp is too old is discarded in `OnSpawnMessage`, after the load
was stopped, as in the code; `discarded` remembers it. A worker always
uses `newSpawnWorkers`: `Boomer.Run` passes `isOldSpawnWorker` to the
`localRunner` only, so no action sends `spawning_complete` or sets
`stateRunning`. The two queues stand for the client's channels and the socket, in
order and without a bound. A send that has to wait is a step that comes late; one
that waits for ever, behind a sender that is stuck, is left to `Client`, so
`StopIsAnswered` holds only as long as the sender goes on. Messages under way when the
client is closed may still arrive, which allows more behaviours than the code. The master (locust) and
the ants pool are external and do what the worker's code expects of them: the
master acks a `client_ready` once, spawns on a worker that is ready or running,
stops a worker it has spawned on; the pool runs at most its capacity, and has
none if it was made with zero.

`WorkerLifecycle` is the abstract specification of what a worker promises: loads
start, are replaced and halt in order, and a stopped load never comes back.
`SlaveRunner!ImplementsLifecycle` is the refinement; a load is a generation.

`Client` models the same worker from the side of its channels, now bounded: `send`
and `recv` of the gomq client, the link that may fail, the listener, the reporter,
the heartbeat, the lock of the event bus, and the program that quits, either the
package's `Run` or a caller of `Boomer.Quit`. Each of these may have to wait for
each other. What the listener does with a message is a sequence of steps
(`Become`, `Send`, `Clear`, `Publish`), because it can be held up at each. The
reporter reads `r.state` twice (`TakeReport`, `CheckStopped`), as the condition at
runner.go:618 does. The master may say anything at any time: which spawn is
fresh and which ack is expected is left to `SlaveRunner`. `late` is a history
variable.

`LocalRunner` models standalone mode with both spawners, the reporting goroutine
of `run`, the outputs (one goroutine per call), the stats goroutine as far as it
reports, and callers of Stop and Quit. The options, which spawner and whether the
run is limited, are chosen in the initial state. Of a limiter it keeps who waits in
`Acquire` and that the timer may refill until it sees the stop.

`TokenBucket` has what both limiters share: the bucket, `Acquire`, the broadcast channel,
and `NoBurst`. `StableRateLimiter` and `RampUpRateLimiter` add how it is filled. A refill is
three steps (store, close, make), as is `Acquire` (decrement, read the channel,
wait). `RampUpRateLimiter` also splits `getNextThreshold` from the store of its
result, in `Start` (`StartRead`, `StartStore`) and in the updater, and adds with
int64's overflow at `MaxInt`; its step may be negative, as `parseRampUpRate` allows.

`RequestStats` models the recording of requests: the two bounded channels, each
case of the stats goroutine's select, the report. Names and methods are short
sequences, so that `name+method` is concatenation. `logged`, `recorded`,
`cleared` and `reported` are history variables for the properties; an entry is
compared with the positions of `logged` that belong to it.
`ResponseTime` is the rounding of `logResponseTime`, a pure function.

`Outputs` models what the outputs compute and keep: `convertData`, the percentiles
by scanning the sorted times, `buildAllStats` with the errors that it merges map by
map, the rows of the console, the real time file and the total file, the gauges of
the Prometheus output, and the client's sender that serialises the same report
meanwhile. Pointers that the code shares are shared here: `owner[k]` names the
report whose error map the summary holds, and a row of the current data is the row
that `buildAllStats` goes on to change. Reports satisfy `ReportAssumption`: the
types of their fields, one entry for each name and method, no entry without a
request, and totals that balance, which is what `RequestStats!ReportsConsistent`
says of them.

`TaskSets` gives the same tasks to the smooth round robin, to the binary search
of the deprecated `WeighingTaskSet` and to the scan of `runner.getTask`, and
compares what they pick with the weights.

`MCRequestStats` and `MCOutputs` add the requests and the reports of their runs, and
`MCRateLimiter` puts either limiter, chosen in the initial state, into one run; the
other modules run as they are. Operators marked *Mutant* in a comment are the code
with a plausible slip; each property has one that it catches.

## Runs that pass

| run | bounds | what it shows |
|---|---|---|
| `worker` | two spawn or custom messages, with fresh or old timestamps, one user, fair goroutines | types, `AckHandshake`, `OnlyLastStopChanOpen`, `ReadyMeansIdle`, `NoLostMessage`, `StopChanDiscipline`, refinement of `WorkerLifecycle`; stopped loads drain, stops are answered |
| `client` | one place in each channel; any messages of the master; the link may fail | at most one report while stopped and one while idle, the quit message is on its way while Quit waits, heartbeats get room, a quit of either side ends the program, goroutines end |
| `limiter` | either limiter, two callers (one that may have to wait for the ramp-up limiter), two Starts, a threshold of 2, a debt of at most 2; the ramp-up limiter goes up in steps of 1 to 2 = `MaxInt`, so that the addition overflows | no burst, release of who waits, the maximum is reached |
| `local` | two users, two outputs, a report channel of one, two reports; both spawners, with and without a limiter | outputs stay in step, panics only if Stop or Quit overtake the start; users drain or wait in `Acquire`, and the stats goroutine ends |
| `stats` | two recorders, three requests, channels of one | entries and reports say what was recorded, once; callers are served unless the runner stops taking reports |
| `outputs` | three reports out of four kinds: empty, three names, slow requests, a name with two methods; a report interval of three seconds | rows, totals, percentiles and errors of the summary are those of all reports; outputs and files agree; the master gets the errors that were collected unless the sender lags |
| `task_sets` | up to five tasks of weights 0, 1, 3; eight picks; every roll | smoothness, fairness of a cycle, fairness of both random picks |

Two spawn messages are enough to have a load replaced, a load started after a
stop, and the goroutines of two loads at once; a third adds only another pair of
the same kind. Spawn messages without a timestamp are handled like fresh ones; they
are in the violation runs and in the proofs. One user per load fills the pool. With one place in `toMaster` it is
full as often as possible, and every pair of its five writers meets in front of it;
a larger channel only takes longer to fill. Two Starts give every overlap of an old
and a new timer. One report more than the channel holds fills it and blocks the
sender; three requests fill a channel of one while both recorders wait. Three
reports have an error and a name come back twice, and leave the sender up to two
reports behind. Five tasks take the binary search into both halves, and eight picks
are two cycles of the smaller sets. The bounds on debts, reports and requests sit in
the guards of the actions that would exceed them.

Deadlock is not checked: after a shutdown everything has ended, and bounded
drivers run out of messages.

Some properties hold only up to an exception, and say so. Where a comment or a test
of the repository promises the property without the exception, a run below refutes
that promise, or the list at the end names it:

- `UsersDrainOrWait`: who waits in `Acquire` when the limiter's timer ends waits
  for ever, although runner.go:51 and runner.go:54 promise the end of all running
  workers: `workers_wait`;
- `ShutdownEndsGoroutines`: a spawn message handled after the stats goroutine has left
  blocks the listener in `clearStatsChan <- true`, and who writes to `toMaster` after
  the sender has left waits for ever, although runner.go:54 promises the end of all
  goroutines: `reporter_hangs`;
- `QuitReturnsUnlessFull`, `MasterQuitEndsProgram`: `quit_hangs`;
- `StopChanDiscipline`: a spawn message that is discarded leaves `stateSpawning`
  without an open `stopChan`: `discarded_spawn`;
- `WaiterReleased`: a caller denied just before a refill may read the channel that
  this refill installed and sleep through it (ratelimiter.go:97), so it is released
  by the next one and only while the limiter runs;
- `StatsGoroutineEnds`: with `messageToRunnerChan` full and its reader gone the
  stats goroutine stays in its send;
- `EntriesAccurate`: a response time of zero counts as no minimum;
- `CallersServed`: nobody empties the channels once the stats are closed, and with
  the runner waiting for room in `toMaster` (runner.go:623) its reports pile up until
  the stats goroutine waits too; nothing is assumed of the runner here;
- `OutputsAgree`: the rows show a name that has two methods in a report with the
  numbers of both, because entries are merged by name and the row is the summary's;
- `ErrorsSentIntact`: a report that the sender reads late carries the errors of later
  reports too.

## Runs that show a disagreement

Each checks one property that a comment or a test of the repository states, and
TLC refutes it. The findings in `PROJECT.json` quote the lines.

| run | what happens |
|---|---|
| `spawn_never_completes` | the default spawner never reports `spawning_complete`, the worker never gets to `running` |
| `discarded_spawn` | a spawn message that is discarded as stale has already stopped the running load; the next stop then panics |
| `quit_hangs` | `Boomer.Quit` publishes `EVENT_QUIT`, which waits for room in `toMaster`, before it starts its timeout; behind a sender that is stuck it never returns |
| `reporter_hangs` | the reporter waits for room in `toMaster`; the client is closed, its sender leaves, and closing `shutdownChan` ends the reporter no more: `OnStop` is never called |
| `workers_wait` | a user waits in `Acquire`; the limiter's timer sees the stop and leaves without releasing it, and closing `shutdownChan` does not reach the user |

## Fairness

Weak fairness stands for the Go scheduler: a goroutine that can go on goes on,
`time.Sleep` and tickers fire, and `Task.Fn` and the outputs return (the code
relies on it: goroutines "will exit when r.safeRun returns"). A call of Quit that
has begun goes on. Strong fairness is assumed where the Go runtime gives more: a
select picks at random among the ready cases, so a case that is ready again and
again is taken (the stats goroutine in `RequestStats`, the exits of `Client`);
goroutines blocked on a channel or a mutex are served in turn, so one that finds
room again and again gets it (recorders; `Listener`, `SendHeartbeat` and `Main` in
`Client`). `Client!Final` puts the exits and `Main` under one strong fairness, which
is the same because none of its steps happens twice. Nothing is assumed of the master,
of the link, of whoever calls Start, Stop, Quit or Record, of the pool's purging, or,
in `RequestStats`, of the runner that takes the reports.

## Proofs

TLAPS checks these for every value of the constants.

- `SlaveRunnerProofs`: `TypeCorrect`; `HandshakeCorrect` and `AckNeverPanics`;
  `StopChanCorrect`, `AtMostOneLoad` and `WorkerImplementsLifecycle`; `NoMessageLost`
  and `ReadyWorkerIsIdle`, all of them whatever timestamps the spawn messages carry;
  and `StopNeverPanics` under the assumption `FreshTimestamps` (no spawn message
  carries a timestamp that is not larger than all before it; missing ones are
  allowed), which is needed: `discarded_spawn` shows what happens without it.
  - `NoNegativeAck` is not inductive. `Handshake` is, with the types: `AckHandshake`
    (at most one `client_ready` or `ack` is in the queues, it is counted by
    `waitForAck`, and a `stop` in the queue stands behind it), and while the listener
    answers a stop (`Answering`) neither is under way, so that the counter is set again
    only when no ack is left to come.
  - `StopChans` adds to `StopChanDiscipline` and `OnlyLastStopChanOpen` what the state
    is at each step of the listener (`ListenerAt`). An open `stopChan` implies
    `stateSpawning` in any case, because stop() comes before a message is discarded;
    the converse, which the listener relies on when it closes the channel, holds until
    a message is discarded.
  - `TimestampsIncrease`, for `StopNeverPanics`: with fresh timestamps they increase
    from the last one handled through the message in hand and the queue to the master's
    clock, so none is stale when it is handled and none is ever discarded.
  - `MasterKnows`, for `NoMessageLost` and `ReadyWorkerIsIdle`, relates what the master
    believes, what is in the queues and what the worker is: while the master does not
    know the worker, takes it for ready or is about to hear so, the worker is in
    `stateInit` or one assignment before it (`Resting`) and no spawn message is on its
    way; while it takes the worker for active, the worker is so or a spawn message will
    make it so; a stop in the queue stands behind every spawn message and before a
    quit, and an ack before every spawn message. A stale spawn message does not disturb
    it, because the listener gets to an active state before it looks at the timestamp.
  - the refinement follows from `StopChans`, one listener action at a time.
- `ClientProofs`: `TypeCorrect`, in three parts (`ChannelsOK`, `FlagsOK`, `PlacesOK`)
  that the steps disturb one at a time; `LateReports`, which becomes inductive when
  it also says where the reporter is after a late report (`LateInv`): not about to send
  while `r.state` is `stateStopped`, and not between its two looks at it either while it
  is `stateInit`;
  `QuitAnnounced`: the quit message moves from `toMaster` to the sender, and nobody
  else takes messages out.
- `LocalRunnerProofs`: `OutputsStayInStep` from `ReportInv`,
  which adds that no reporter exists before `outputOnStart` is over; `NoLatePanic`
  from `StartInv`: `stopChan` is made and an enabled limiter started before `run`
  waits, and `run` makes no step after a panic; `TypeCorrect`.
- `RateLimiterProofs`, on the stable limiter: `NeverBursts`, which is inductive
  once the last fill is known to be the threshold (the counter and the grants always
  make it up), for any number of callers and timers; `DoubleCloseNeedsRestart` (a limiter
  that is started once never panics) from `OneTimer`: until there is a second Start, the channel is closed exactly while the
  only timer is about to replace it; `TypeCorrect`. On the ramp-up limiter, an
  instance there: `RampUpNeverBursts` from `RampInv`: every threshold that is stored or
  about to be stored, by a Start or by an updater, lies within the maximum, because
  `getNextThreshold` clamps and takes a negative sum for an overflow, also when it comes
  from a negative step (`CallerInv` says which timer a Start stores for);
  `ThresholdNeverFalls`, for a step that is not negative. An instance does not bring the
  assumption of its module along, so `RampUpBounds` states it again as a hypothesis.
- `TaskSetsProofs`: `RoundRobinIsSmooth` and `RoundRobinIsFair` from `RoundRobinInv`:
  the current weights add up to zero, none is a whole turn below, and each is the
  debt at the start of the cycle, plus the calls times the weight, minus the picks
  times the total. The largest of them is not negative because they add up to zero,
  so the pick cannot take it below; after a cycle without debts every current weight
  is a multiple of the total strictly above minus the total, and as they add up to zero
  each is zero. `RunnerPicksFairly`: the rolls that the scan stops at are an interval
  of the partial sums. `WeighingPicksFairly` from `WeighingInv` (the offsets are the
  partial sums of the positive weights and increase strictly): the binary search is a
  recursion on the width of its range, so it is well defined, and it finds the only
  range that holds the roll.
- `RequestStatsProofs`: `RoundingError`, `RoundingOrder` and `RoundingNearest` for every
  natural number, by cases over the three units. `EntriesStayAccurate` is inductive
  with the types: logging a request adds one position to the sets an entry is
  summed over. `ReportsStayConsistent` from `ConsistentInv`: the entries and errors
  being counted always balance with the total, and what the report leaves out, the entries
  without requests, has counted nothing. `RequestsStayConserved` needs that
  the total counts exactly the log and that no report is pending outside the send.
- `OutputsProofs`: `SummaryAlwaysAccurate`, `TotalsAlwaysAgree`,
  `PercentilesAlwaysCorrect`, `OutputsAlwaysAgree` and `ErrorsAlwaysSentIntact`, for any
  reports that satisfy `ReportAssumption`.
  - The loops of `sortOutput` and `buildAllStats` are recursive functions; that they
    have a value after every round is shown first. Each round of the bubble sort
    permutes the rows and puts the largest of the rest in its place
    (`SortOutputSorts`), so a sort loses and changes no row.
  - `Summarizes` says what a row has to know of a set of entries: their sums, their
    extremes, their seconds, and how many of their requests took at most t, for
    every t. Merging one entry more keeps it (`MergeSummarizes`), and the scan over
    the sorted times finds the time at a position (`AtPositionCorrect`), so the
    percentiles of a merged row are right. `RowsFor` says it of all rows, one for each
    name; every round of the loop of `buildAllStats` keeps it for the entries so far,
    in whatever order they come. `SummaryInv` is `RowsFor` of the reports that are
    built in, with both counts of the summary.
  - `ErrorInv` follows each error: the summary holds the map of the first report that
    had it, this map has the occurrences up to the last report merged, and the map of
    every other report is as it was collected. `SentInv` keeps what the sender has
    read of such a map; it may have grown, never beyond the reports handed over.
  - `ShownInv`: a name that occurs once in a report and is new has the item itself as
    its row, through all rounds of the merge and of the sort (`SingleRow`), so the
    row that is shown is that of the report. `GaugeInv`: labels are unique within a
    report. `FileInv`: there are at most as many lines as reports, and with one for
    each they have the total of the reports, which is that of the summary.
- `SumTheorems`: the sums, counts and partial sums that these rest on. The library's
  induction principles take a predicate, which the provers cannot instantiate; here the
  predicate is the set of the numbers, or of the subsets, that satisfy it.

The constants are assumed to be what their declarations say (capacities positive,
thresholds natural numbers, a maximum that `MaxInt` can hold), nothing more.

Every safety property that a run checks is also proved, for all timestamps. Model
checked only: liveness, which needs fairness and ENABLED.

## What else the code does

Reading the code for these modules brought up the following. The first
five disagree with a comment, a document or a test, and no run refutes those: the
violation runs keep to the runners' own goroutines, while a restarted limiter, a program
that ends when `run` returns, a sender that lags behind the outputs, and the data of two
tests are cases beyond them.

- A restart of a limiter may panic: if a refill is delayed for a period, the timers of
  both Starts close the same `broadcastChannel`. `TestStableRateLimiterStartAndStopManyTimes`
  (ratelimiter_test.go:23) restarts one 500 times, and the comment at ratelimiter.go:79
  takes it for safe; `DoubleCloseNeedsRestart` proves that it takes a second Start.
- `localRunner.run` may return before `OnStop` has been called, since `wg.Done` comes
  first (runner.go:343), while output.go:32 and docs/source/custom-output.rst:44 promise
  it before the test ends. A program that then ends never calls it.
- `buildAllStats` writes to the error maps of a report that the sender still has to
  read (output.go:415), although docs/source/custom-output.rst:40 says "Don't write to
  the origin data! Because all outputs share the same reference."; `ErrorsSentIntact`
  says how far what is sent can be off. The Go runtime may also report a concurrent
  access of the map and end the program (`ConcurrentMapFault`).
- `convertData` asserts the type of `data["errors"]` without a test (output.go:525), so a
  report without errors, as in `TestConsoleOutput` (output_test.go:79), panics; the
  reports of `requestStats` always have them.
- `getCurrentRps` leaves out one second when there are more than two (output.go:215), and
  `TestGetCurrentRps` (output_test.go:59) expects a number it does not return.

The others are a matter of a constructor, or nothing in the repository says what should
happen:

- `NewConsoleOutput` leaves `PercentTime` zero, so its "P90" column shows the minimum
  (output.go:101);
- two outputs that keep a summary share `allStats` and count every report twice;
- the counts of failures per second are overwritten rather than added when two
  entries are merged; only their number is used;
- gauges of a name that no longer occurs keep their last value;
- a total file that cannot be created ends the program after the old one was removed.

## Not modelled

- The socket and the msgpack encoding; the czmq client (the channel protocol of the
  gomq client, but for a receive that blocks in a C library); a connect that fails.
- In `Client`: callers of `SendCustomMessage`; `recv` holding a message for a full
  `fromMaster` after the close; a second Quit; the publishes of EVENT_SPAWN and
  EVENT_STOP (runner.go:283, 298), which take the lock of the bus for subscribers of
  the user's program.
- In `LocalRunner`: a second Stop, which closes a closed channel. In `Outputs`: more
  than one output that keeps a summary; errors of `os.Remove` and `WriteString`
  (utils.go:164, 171), after which the total file would be old or incomplete.
- In `RequestStats` and `Outputs`: counts per second beyond their number, content
  lengths, averages, user counts, layout and wording of tables and files, errors of
  `convertData` on data that the runner does not produce, the Pushgateway.
- Parsing of the ramp-up rate, `go.uber.org/ratelimit` in `newSpawnWorkers` (it only
  delays), profiling, CPU usage (it delays `OnEvent` by a second), command line
  flags, the examples. The ack timeout only logs.

## Plan

1. done: `SlaveRunner` with `WorkerLifecycle`, the limiters, `LocalRunner`,
   `RequestStats` with `ResponseTime`, the task sets, `Client`, `Outputs`; proofs of
   every safety invariant that a run checks.
2. Two outputs that share `allStats`, and a second Quit, would be the next things to
   model; both are listed under the hazards. So is the restart of a limiter, which the
   modules already have and no run states as a property.
