------------------------------ MODULE MCOutputs ------------------------------
(* Reports: three names, one of them with two methods, times that a        *)
(* percentile tells apart, an error that comes back, and an empty report.   *)
EXTENDS Outputs

Sum(Op(_), S) == MapThenSumSet(Op, S)

Entry(name, method, times, failures, secs) ==
  [name |-> name, method |-> method, requests |-> BagCardinality(times),
   failures |-> failures, time |-> Sum(LAMBDA t : t * times[t], DOMAIN times),
   min |-> Min(DOMAIN times), max |-> Max(DOMAIN times), times |-> times,
   secs |-> secs, failSecs |-> IF failures = 0 THEN {} ELSE {Min(secs)}]

Report(stats, errors) ==
  [stats |-> stats, errors |-> errors,
   total |-> [requests |-> Sum(LAMBDA e : e.requests, stats),
              failures |-> Sum(LAMBDA e : e.failures, stats)]]

Get1 == Entry(1, "GET", (7 :> 1), 0, {1})
Get1Late == Entry(1, "GET", (3 :> 2) @@ (1100 :> 2), 1, {0, 1, 2, 3})
Post1 == Entry(1, "POST", (40 :> 1), 1, {1, 2})
Get2 == Entry(2, "GET", (7 :> 3) @@ (20 :> 1), 2, {2, 3})
Get3 == Entry(3, "GET", (9 :> 2), 0, {3})

Mixed == {Report({}, << >>),
          Report({Get1, Get2, Get3}, ("e2" :> 2)),
          Report({Get1Late, Get3}, ("e1" :> 1)),
          Report({Get1, Post1, Get2}, ("e1" :> 1) @@ ("e2" :> 2))}
=============================================================================
