------------------------- MODULE RequestStatsProofs -------------------------
(***************************************************************************)
(* What the stats goroutine says about the requests is right, for any      *)
(* recorders, requests and capacities: every entry summarizes what was     *)
(* logged, every report is consistent in itself, and no request is lost or *)
(* counted twice.                                                          *)
(***************************************************************************)
EXTENDS RequestStats, SumTheorems, SequenceTheorems, TLAPS

-----------------------------------------------------------------------------
(* Rounding: accurate and in order for all response times. *)

\* What integer division says of one time and one unit.
LEMMA Division ==
  ASSUME NEW t \in Nat, NEW unit \in {10, 100, 1000}
  PROVE  /\ t \div unit \in Nat /\ t % unit \in 0..(unit - 1)
         /\ t = unit * (t \div unit) + (t % unit)
<1>1. CASE unit = 10
  <2>1. t \div 10 \in Nat /\ t % 10 \in 0..9 /\ t = 10 * (t \div 10) + (t % 10)
    OBVIOUS
  <2>. QED BY <1>1, <2>1
<1>2. CASE unit = 100
  <2>1. t \div 100 \in Nat /\ t % 100 \in 0..99 /\ t = 100 * (t \div 100) + (t % 100)
    OBVIOUS
  <2>. QED BY <1>2, <2>1
<1>3. CASE unit = 1000
  <2>1. t \div 1000 \in Nat /\ t % 1000 \in 0..999 /\ t = 1000 * (t \div 1000) + (t % 1000)
    OBVIOUS
  <2>. QED BY <1>3, <2>1
<1>. QED BY <1>1, <1>2, <1>3

\* Rounding moves a time by at most half a unit.
LEMMA RoundToError ==
  ASSUME NEW t \in Nat, NEW unit \in {10, 100, 1000}
  PROVE  /\ RoundTo(t, unit) \in Nat
         /\ 2 * Distance(RoundTo(t, unit), t) <= unit
<1>1. CASE unit = 10
  BY <1>1, Division DEF RoundTo, Distance
<1>2. CASE unit = 100
  BY <1>2, Division DEF RoundTo, Distance
<1>3. CASE unit = 1000
  BY <1>3, Division DEF RoundTo, Distance
<1>. QED BY <1>1, <1>2, <1>3

\* Every response time is counted under a key within five percent of it, as
\* logResponseTime's choice of the unit intends.
THEOREM RoundingError == \A t \in Nat : WithinFivePercent(t)
<1>. SUFFICES ASSUME NEW t \in Nat PROVE WithinFivePercent(t)
  OBVIOUS
<1>1. CASE t < 100
  BY <1>1 DEF WithinFivePercent, RoundedResponseTime, Distance
<1>2. CASE t >= 100
  <2>1. Unit(t) \in {10, 100, 1000} /\ 10 * Unit(t) <= t
    BY <1>2 DEF Unit
  <2>2. 2 * Distance(RoundTo(t, Unit(t)), t) <= Unit(t) /\ RoundTo(t, Unit(t)) \in Nat
    BY <2>1, RoundToError
  <2>3. RoundedResponseTime(t) = RoundTo(t, Unit(t))
    BY <1>2 DEF RoundedResponseTime
  <2>4. Distance(RoundTo(t, Unit(t)), t) \in Nat
    BY <2>2 DEF Distance
  <2>. QED BY <2>1, <2>2, <2>3, <2>4 DEF WithinFivePercent
<1>. QED BY <1>1, <1>2

\* Rounding to one unit keeps the order.
LEMMA RoundToOrder ==
  ASSUME NEW t \in Nat, NEW unit \in {10, 100, 1000}
  PROVE  RoundTo(t, unit) <= RoundTo(t + 1, unit)
<1>1. CASE unit = 10
  BY <1>1 DEF RoundTo
<1>2. CASE unit = 100
  BY <1>2 DEF RoundTo
<1>3. CASE unit = 1000
  BY <1>3 DEF RoundTo
<1>. QED BY <1>1, <1>2, <1>3

\* A response time is never counted under a smaller key than a shorter one: the
\* units of logResponseTime meet without overlap at 100, 1000 and 10000.
THEOREM RoundingOrder == \A t \in Nat : OrderKept(t)
<1>. SUFFICES ASSUME NEW t \in Nat PROVE OrderKept(t)
  OBVIOUS
<1>1. CASE t < 99
  BY <1>1 DEF OrderKept, RoundedResponseTime
<1>2. CASE t \in {99, 999, 9999}
  BY <1>2 DEF OrderKept, RoundedResponseTime, RoundTo, Unit
<1>3. CASE t >= 100 /\ t \notin {999, 9999}
  <2>1. Unit(t) \in {10, 100, 1000} /\ Unit(t + 1) = Unit(t)
    BY <1>3 DEF Unit
  <2>2. RoundTo(t, Unit(t)) <= RoundTo(t + 1, Unit(t))
    BY <2>1, RoundToOrder
  <2>. QED BY <1>3, <2>1, <2>2 DEF OrderKept, RoundedResponseTime
<1>. QED BY <1>1, <1>2, <1>3

\* Rounding to a unit gives a multiple of it, and the nearest one.
LEMMA RoundToNearest ==
  ASSUME NEW t \in Nat, NEW unit \in {10, 100, 1000},
         NEW m \in {RoundTo(t, unit) - unit, RoundTo(t, unit) + unit}
  PROVE  /\ RoundTo(t, unit) % unit = 0
         /\ Distance(m, t) >= Distance(RoundTo(t, unit), t)
         /\ Distance(m, t) = Distance(RoundTo(t, unit), t) => m < RoundTo(t, unit)
<1>1. CASE unit = 10
  <2>1. RoundTo(t, 10) % 10 = 0
    <3>1. (10 * (t \div 10)) % 10 = 0
      OBVIOUS
    <3>2. (10 * (t \div 10) + 10) % 10 = 0
      OBVIOUS
    <3>. QED BY <3>1, <3>2 DEF RoundTo
  <2>. QED BY <1>1, <2>1, Division DEF RoundTo, Distance
<1>2. CASE unit = 100
  <2>1. RoundTo(t, 100) % 100 = 0
    <3>1. (100 * (t \div 100)) % 100 = 0
      OBVIOUS
    <3>2. (100 * (t \div 100) + 100) % 100 = 0
      OBVIOUS
    <3>. QED BY <3>1, <3>2 DEF RoundTo
  <2>. QED BY <1>2, <2>1, Division DEF RoundTo, Distance
<1>3. CASE unit = 1000
  <2>1. RoundTo(t, 1000) % 1000 = 0
    <3>1. (1000 * (t \div 1000)) % 1000 = 0
      OBVIOUS
    <3>2. (1000 * (t \div 1000) + 1000) % 1000 = 0
      OBVIOUS
    <3>. QED BY <3>1, <3>2 DEF RoundTo
  <2>. QED BY <1>3, <2>1, Division DEF RoundTo, Distance
<1>. QED BY <1>1, <1>2, <1>3

\* The key that logResponseTime chooses is the multiple of the unit that is
\* nearest to the time; of two that are as near it is the larger one.
THEOREM RoundingNearest == \A t \in Nat : IsNearest(t)
<1>. SUFFICES ASSUME NEW t \in Nat PROVE IsNearest(t)
  OBVIOUS
<1>1. CASE t < 100
  <2>1. Unit(t) = 1 /\ RoundedResponseTime(t) = t /\ t % 1 = 0
    BY <1>1 DEF Unit, RoundedResponseTime
  <2>. QED BY <2>1 DEF IsNearest, Distance
<1>2. CASE t >= 100
  <2>1. Unit(t) \in {10, 100, 1000} /\ RoundedResponseTime(t) = RoundTo(t, Unit(t))
    BY <1>2 DEF Unit, RoundedResponseTime
  <2>. QED BY <2>1, RoundToNearest DEF IsNearest
<1>. QED BY <1>1, <1>2

\* Keys are numbers.
LEMMA RoundedType == ASSUME NEW t \in Nat PROVE RoundedResponseTime(t) \in Nat
<1>1. CASE t < 100
  BY <1>1 DEF RoundedResponseTime
<1>2. CASE t >= 100
  <2>1. Unit(t) \in {10, 100, 1000} /\ RoundedResponseTime(t) = RoundTo(t, Unit(t))
    BY <1>2 DEF Unit, RoundedResponseTime
  <2>. QED BY <2>1, RoundToError
<1>. QED BY <1>1, <1>2

-----------------------------------------------------------------------------
(* Entries *)

\* Response times by key.
Counts == UNION {[D -> Nat] : D \in SUBSET Nat}

Entry == [requests : Nat, failures : Nat, time : Nat, min : Nat, max : Nat, times : Counts]

\* What the goroutine does to an entry for one request.
Logged(e, r) == IF IsFailure(r) THEN LogError(Log(e, r.time)) ELSE Log(e, r.time)

\* A new entry counts nothing.
LEMMA NewEntryType ==
  /\ NewEntry \in Entry
  /\ NewEntry.requests = 0 /\ NewEntry.failures = 0 /\ NewEntry.time = 0
  /\ NewEntry.min = 0 /\ NewEntry.max = 0 /\ DOMAIN NewEntry.times = {}
<1>1. << >> \in [{} -> Nat] /\ DOMAIN << >> = {}
  OBVIOUS
<1>2. << >> \in Counts
  BY <1>1 DEF Counts
<1>. QED BY <1>1, <1>2 DEF NewEntry, Entry

\* What Put does to a map.
LEMMA PutMap ==
  ASSUME NEW map, NEW key, NEW value
  PROVE  /\ DOMAIN Put(map, key, value) = DOMAIN map \cup {key}
         /\ Put(map, key, value)[key] = value
         /\ \A k \in DOMAIN map : k # key => Put(map, key, value)[k] = map[k]
BY DEF Put

\* Counting a key once more changes its count only.
LEMMA IncrementType ==
  ASSUME NEW B \in Counts, NEW x \in Nat
  PROVE  /\ Increment(B, x) \in Counts
         /\ DOMAIN Increment(B, x) = DOMAIN B \cup {x}
         /\ Increment(B, x)[x] = (IF x \in DOMAIN B THEN B[x] ELSE 0) + 1
         /\ \A y \in DOMAIN B : y # x => Increment(B, x)[y] = B[y]
<1>. DEFINE v == Get(B, x, 0) + 1
<1>1. PICK D \in SUBSET Nat : B \in [D -> Nat]
  BY DEF Counts
<1>2. v \in Nat /\ v = (IF x \in DOMAIN B THEN B[x] ELSE 0) + 1
  BY <1>1 DEF Get
<1>. HIDE DEF v
<1>3. Increment(B, x) = [k \in D \cup {x} |-> IF k = x THEN v ELSE B[k]]
  BY <1>1 DEF Increment, Put, v
<1>4. Increment(B, x) \in [(D \cup {x}) -> Nat] /\ D \cup {x} \in SUBSET Nat
  BY <1>1, <1>2, <1>3
<1>5. Increment(B, x) \in Counts
  BY <1>4 DEF Counts
<1>. QED BY <1>1, <1>2, <1>3, <1>4, <1>5

\* What log writes into an entry, field by field.
LEMMA LogType ==
  ASSUME NEW e \in Entry, NEW t \in Nat
  PROVE  /\ Log(e, t) \in Entry
         /\ Log(e, t).requests = e.requests + 1 /\ Log(e, t).failures = e.failures
         /\ Log(e, t).time = e.time + t
         /\ Log(e, t).min = IF e.min = 0 THEN t ELSE Smaller(e.min, t)
         /\ Log(e, t).max = Larger(e.max, t)
         /\ Log(e, t).times = Increment(e.times, RoundedResponseTime(t))
<1>. DEFINE mn == IF e.min = 0 THEN t ELSE Smaller(e.min, t)
            mx == Larger(e.max, t)
            bag == Increment(e.times, RoundedResponseTime(t))
            rq == e.requests + 1
            tm == e.time + t
<1>1. e.min \in Nat /\ e.max \in Nat /\ e.times \in Counts /\ e.requests \in Nat /\ e.time \in Nat
  BY DEF Entry
<1>2. bag \in Counts
  BY <1>1, RoundedType, IncrementType
<1>3. mn \in Nat /\ mx \in Nat /\ rq \in Nat /\ tm \in Nat
  BY <1>1 DEF Smaller, Larger
<1>4. Log(e, t) = [e EXCEPT !.requests = rq, !.time = tm, !.min = mn, !.max = mx, !.times = bag]
  BY DEF Log
<1>. HIDE DEF mn, mx, bag, rq, tm
<1>5. /\ Log(e, t) \in Entry
      /\ Log(e, t).requests = rq /\ Log(e, t).failures = e.failures
      /\ Log(e, t).time = tm /\ Log(e, t).min = mn /\ Log(e, t).max = mx /\ Log(e, t).times = bag
  BY <1>2, <1>3, <1>4 DEF Entry
<1>. QED BY <1>5 DEF mn, mx, bag, rq, tm

\* What a request writes into an entry, field by field.
LEMMA LoggedType ==
  ASSUME NEW e \in Entry, NEW r \in Requests
  PROVE  /\ Logged(e, r) \in Entry /\ r.time \in Nat
         /\ Logged(e, r).requests = e.requests + 1
         /\ Logged(e, r).failures = e.failures + (IF IsFailure(r) THEN 1 ELSE 0)
         /\ Logged(e, r).time = e.time + r.time
         /\ Logged(e, r).min = IF e.min = 0 THEN r.time ELSE Smaller(e.min, r.time)
         /\ Logged(e, r).max = Larger(e.max, r.time)
         /\ Logged(e, r).times = Increment(e.times, RoundedResponseTime(r.time))
<1>. DEFINE l == Log(e, r.time)
<1>1. r.time \in Nat
  BY StatsAssumption
<1>2. /\ l \in Entry
      /\ l.requests = e.requests + 1 /\ l.failures = e.failures
      /\ l.time = e.time + r.time
      /\ l.min = IF e.min = 0 THEN r.time ELSE Smaller(e.min, r.time)
      /\ l.max = Larger(e.max, r.time)
      /\ l.times = Increment(e.times, RoundedResponseTime(r.time))
  BY <1>1, LogType
<1>3. e.failures \in Nat
  BY DEF Entry
<1>4. CASE IsFailure(r)
  <2>. DEFINE f == e.failures + 1
  <2>1. f \in Nat /\ Logged(e, r) = [l EXCEPT !.failures = f]
    BY <1>2, <1>3, <1>4 DEF Logged, LogError
  <2>. HIDE DEF l, f
  <2>2. /\ Logged(e, r) \in Entry /\ Logged(e, r).failures = f
        /\ Logged(e, r).requests = l.requests /\ Logged(e, r).time = l.time
        /\ Logged(e, r).min = l.min /\ Logged(e, r).max = l.max /\ Logged(e, r).times = l.times
    BY <1>2, <2>1 DEF Entry
  <2>. QED BY <1>1, <1>2, <1>4, <2>2 DEF f
<1>5. CASE ~IsFailure(r)
  <2>1. Logged(e, r) = l
    BY <1>5 DEF Logged
  <2>. HIDE DEF l
  <2>. QED BY <1>1, <1>2, <1>3, <1>5, <2>1
<1>. QED BY <1>4, <1>5
-----------------------------------------------------------------------------
(* What an entry says about the log *)

\* A set with one element more.
LEMMA CountAdd ==
  ASSUME NEW A, IsFiniteSet(A), NEW x, x \notin A
  PROVE  Cardinality(A \cup {x}) = Cardinality(A) + 1 /\ Cardinality(A) \in Nat
BY FS_AddElement, FS_CardinalityType

\* A part of a finite set.
LEMMA CountSome ==
  ASSUME NEW A, IsFiniteSet(A), NEW B \in SUBSET A
  PROVE  IsFiniteSet(B) /\ Cardinality(B) \in Nat /\ (Cardinality(B) = 0 <=> B = {})
<1>1. IsFiniteSet(B)
  BY FS_Subset
<1>. QED BY <1>1, FS_CardinalityType, FS_EmptySet

\* A new entry says that nothing was logged.
LEMMA NewSummarizes == ASSUME NEW log PROVE Summarizes(NewEntry, log, {})
<1>. DEFINE f == [i \in {} |-> log[i].time]
<1>1. Times(log, {}) = {}
  BY DEF Times
<1>2. Cardinality({}) = 0 /\ {i \in {} : IsFailure(log[i])} = {}
  <2>1. IsFiniteSet({})
    BY FS_EmptySet
  <2>. QED BY <2>1, FS_EmptySet
<1>3. SumFunction(f) = 0
  <2>1. SumFunction(f) = SumFunctionOnSet(f, {})
    BY Zenon DEF SumFunction
  <2>. HIDE DEF f
  <2>. QED BY <2>1, SumEmpty
<1>4. Cardinality({i \in {} : IsFailure(log[i])}) = 0
  BY <1>2
<1>5. {RoundedResponseTime(t) : t \in Times(log, {})} = {}
  BY <1>1
<1>. QED BY <1>1, <1>2, <1>3, <1>4, <1>5, NewEntryType DEF Summarizes

\* An entry only depends on the requests at its positions.
LEMMA SummarizesSame ==
  ASSUME NEW e, NEW log, NEW log2, NEW s, \A i \in s : log2[i] = log[i],
         Summarizes(e, log, s)
  PROVE  Summarizes(e, log2, s)
<1>1. Times(log2, s) = Times(log, s)
  BY DEF Times
<1>2. {i \in s : IsFailure(log2[i])} = {i \in s : IsFailure(log[i])}
  OBVIOUS
<1>3. [i \in s |-> log2[i].time] = [i \in s |-> log[i].time]
  OBVIOUS
<1>4. \A key : {i \in s : RoundedResponseTime(log2[i].time) = key} =
               {i \in s : RoundedResponseTime(log[i].time) = key}
  OBVIOUS
<1>. QED BY <1>1, <1>2, <1>3, <1>4, Zenon DEF Summarizes

\* Logging one request more keeps an entry right.
LEMMA LogSummarizes ==
  ASSUME NEW e \in Entry, NEW r \in Requests, NEW log, NEW log2, NEW s, NEW x,
         IsFiniteSet(s), x \notin s, log2[x] = r,
         \A i \in s : log2[i] = log[i] /\ log[i] \in Requests,
         Summarizes(e, log, s)
  PROVE  Summarizes(Logged(e, r), log2, s \cup {x})
<1>. DEFINE s2 == s \cup {x}
            l == Logged(e, r)
            T == Times(log, s)
            T2 == Times(log2, s2)
            rt == RoundedResponseTime(r.time)
            At(key) == {i \in s : RoundedResponseTime(log[i].time) = key}
            At2(key) == {i \in s2 : RoundedResponseTime(log2[i].time) = key}
<1>1. /\ l \in Entry /\ r.time \in Nat
      /\ l.requests = e.requests + 1
      /\ l.failures = e.failures + (IF IsFailure(r) THEN 1 ELSE 0)
      /\ l.time = e.time + r.time
      /\ l.min = IF e.min = 0 THEN r.time ELSE Smaller(e.min, r.time)
      /\ l.max = Larger(e.max, r.time)
      /\ l.times = Increment(e.times, rt)
  BY LoggedType
<1>2. /\ e.requests = Cardinality(s)
      /\ e.failures = Cardinality({i \in s : IsFailure(log[i])})
      /\ e.time = SumFunction([i \in s |-> log[i].time])
      /\ e.max \in T \cup {0} /\ \A t \in T : t <= e.max
      /\ DOMAIN e.times = {RoundedResponseTime(t) : t \in T}
      /\ \A key \in DOMAIN e.times : e.times[key] = Cardinality(At(key))
      /\ s = {} => e.min = 0
      /\ s # {} /\ 0 \notin T => e.min \in T /\ \A t \in T : e.min <= t
  BY Zenon DEF Summarizes
<1>3. e.min \in Nat /\ e.max \in Nat /\ e.times \in Counts
  BY DEF Entry
<1>4. rt \in Nat
  BY <1>1, RoundedType
<1>5. \A i \in s : log[i].time \in Nat
  BY StatsAssumption
<1>6. T2 = T \cup {r.time} /\ T \in SUBSET Nat /\ (s # {} <=> T # {})
  <2>1. \A t : t \in T2 <=> t \in T \/ t = r.time
    BY DEF Times
  <2>2. T \in SUBSET Nat /\ (s # {} <=> T # {})
    BY <1>5 DEF Times
  <2>. HIDE DEF T, T2
  <2>. QED BY <2>1, <2>2
<1>. HIDE DEF l, rt
<1>7. l.requests = Cardinality(s2)
  <2>1. Cardinality(s2) = Cardinality(s) + 1
    BY CountAdd
  <2>. QED BY <1>1, <1>2, <2>1
<1>8. l.failures = Cardinality({i \in s2 : IsFailure(log2[i])})
  <2>. DEFINE F == {i \in s : IsFailure(log[i])}
              F2 == {i \in s2 : IsFailure(log2[i])}
  <2>1. IsFiniteSet(F) /\ x \notin F
    <3>1. F \in SUBSET s
      OBVIOUS
    <3>. HIDE DEF F
    <3>2. x \notin F
      BY <3>1
    <3>3. IsFiniteSet(F)
      BY <3>1, CountSome, Zenon
    <3>. QED BY <3>2, <3>3
  <2>2. CASE IsFailure(r)
    <3>1. F2 = F \cup {x}
      BY <2>2
    <3>. HIDE DEF F, F2
    <3>2. Cardinality(F2) = Cardinality(F) + 1
      <4>1. Cardinality(F \cup {x}) = Cardinality(F) + 1
        BY <2>1, CountAdd
      <4>. QED BY <3>1, <4>1
    <3>3. e.failures = Cardinality(F) /\ l.failures = e.failures + 1
      BY <1>1, <1>2, <2>2 DEF F
    <3>4. l.failures = Cardinality(F2)
      BY <3>2, <3>3
    <3>. QED BY <3>4 DEF F2
  <2>3. CASE ~IsFailure(r)
    <3>1. F2 = F
      BY <2>3
    <3>. HIDE DEF F, F2
    <3>2. Cardinality(F) \in Nat
      BY <2>1, CountAdd
    <3>3. e.failures = Cardinality(F) /\ l.failures = e.failures + 0
      BY <1>1, <1>2, <2>3 DEF F
    <3>4. l.failures = Cardinality(F2)
      BY <3>1, <3>2, <3>3
    <3>. QED BY <3>4 DEF F2
  <2>. QED BY <2>2, <2>3
<1>9. l.time = SumFunction([i \in s2 |-> log2[i].time])
  <2>. DEFINE f == [i \in s |-> log[i].time]
              g == [i \in s2 |-> log2[i].time]
  <2>1. /\ \A i \in s : f[i] \in Int /\ f[i] = g[i]
        /\ \A i \in s2 : g[i] \in Int
        /\ g[x] = r.time
    BY <1>1, <1>5
  <2>2. SumFunction(f) = SumFunctionOnSet(f, s) /\ SumFunction(g) = SumFunctionOnSet(g, s2)
    <3>1. DOMAIN f = s /\ DOMAIN g = s2
      OBVIOUS
    <3>. QED BY <3>1, Zenon DEF SumFunction
  <2>. HIDE DEF f, g
  <2>3. SumFunctionOnSet(f, s) = SumFunctionOnSet(g, s)
    BY <2>1, SumSame
  <2>4. SumFunctionOnSet(g, s2) = SumFunctionOnSet(g, s) + g[x]
    BY <2>1, SumAdd
  <2>5. SumFunctionOnSet(g, s) \in Int
    BY <2>1, SumType
  <2>6. l.time = SumFunction(f) + r.time
    BY <1>1, <1>2 DEF f
  <2>7. l.time = SumFunction(g)
    BY <2>1, <2>2, <2>3, <2>4, <2>5, <2>6
  <2>. QED BY <2>7 DEF g
<1>10. l.max \in T2 \cup {0} /\ \A t \in T2 : t <= l.max
  <2>. HIDE DEF T, T2
  <2>1. l.max = IF e.max < r.time THEN r.time ELSE e.max
    BY <1>1 DEF Larger
  <2>2. \A t \in T : t \in Nat /\ t <= e.max
    BY <1>2, <1>6
  <2>3. l.max \in T2 \cup {0}
    BY <1>2, <1>6, <2>1
  <2>4. \A t \in T : t <= l.max
    BY <1>1, <1>3, <2>1, <2>2
  <2>5. r.time <= l.max
    BY <1>1, <1>3, <2>1
  <2>. QED BY <1>6, <2>3, <2>4, <2>5
<1>11. DOMAIN l.times = {RoundedResponseTime(t) : t \in T2}
  <2>1. DOMAIN l.times = DOMAIN e.times \cup {rt}
    <3>1. l.times = Increment(e.times, rt)
      BY <1>1
    <3>. QED BY <1>3, <1>4, <3>1, IncrementType, Zenon
  <2>2. {RoundedResponseTime(t) : t \in T2} = {RoundedResponseTime(t) : t \in T} \cup {rt}
    <3>. HIDE DEF T, T2
    <3>. QED BY <1>6 DEF rt
  <2>. QED BY <1>2, <2>1, <2>2
<1>12. \A key \in DOMAIN l.times : l.times[key] = Cardinality(At2(key))
  <2>. SUFFICES ASSUME NEW key \in DOMAIN l.times PROVE l.times[key] = Cardinality(At2(key))
    OBVIOUS
  <2>1. /\ DOMAIN l.times = DOMAIN e.times \cup {rt}
        /\ l.times[rt] = (IF rt \in DOMAIN e.times THEN e.times[rt] ELSE 0) + 1
        /\ \A y \in DOMAIN e.times : y # rt => l.times[y] = e.times[y]
    <3>1. l.times = Increment(e.times, rt)
      BY <1>1
    <3>. DEFINE B == e.times
                B2 == l.times
    <3>2. B \in Counts /\ B2 = Increment(B, rt)
      BY <1>3, <3>1
    <3>. HIDE DEF B, B2
    <3>3. /\ DOMAIN Increment(B, rt) = DOMAIN B \cup {rt}
          /\ Increment(B, rt)[rt] = (IF rt \in DOMAIN B THEN B[rt] ELSE 0) + 1
          /\ \A y \in DOMAIN B : y # rt => Increment(B, rt)[y] = B[y]
      BY <1>4, <3>2, IncrementType
    <3>4. /\ DOMAIN B2 = DOMAIN B \cup {rt}
          /\ B2[rt] = (IF rt \in DOMAIN B THEN B[rt] ELSE 0) + 1
          /\ \A y \in DOMAIN B : y # rt => B2[y] = B[y]
      BY <3>2, <3>3
    <3>. QED BY <3>4 DEF B, B2
  <2>2. CASE key # rt
    <3>1. key \in DOMAIN e.times /\ l.times[key] = e.times[key]
      BY <2>1, <2>2
    <3>2. At2(key) = At(key)
      BY <2>2 DEF rt
    <3>3. Cardinality(At2(key)) = Cardinality(At(key))
      BY <3>2, Zenon
    <3>. QED BY <1>2, <3>1, <3>3
  <2>3. CASE key = rt
    <3>1. At2(rt) = At(rt) \cup {x}
      BY DEF rt
    <3>2. IsFiniteSet(At(rt)) /\ x \notin At(rt)
      <4>1. At(rt) \in SUBSET s
        OBVIOUS
      <4>. HIDE DEF At
      <4>2. IsFiniteSet(At(rt))
        BY <4>1, CountSome, Zenon
      <4>. QED BY <4>1, <4>2
    <3>3. Cardinality(At2(rt)) = Cardinality(At(rt)) + 1
      <4>. HIDE DEF At, At2
      <4>1. Cardinality(At(rt) \cup {x}) = Cardinality(At(rt)) + 1
        BY <3>2, CountAdd, Zenon
      <4>. QED BY <3>1, <4>1
    <3>4. CASE rt \in DOMAIN e.times
      <4>. HIDE DEF At, At2
      <4>. QED BY <1>2, <2>1, <2>3, <3>3, <3>4
    <3>5. CASE rt \notin DOMAIN e.times
      <4>1. At(rt) = {}
        <5>. SUFFICES ASSUME NEW i \in At(rt) PROVE FALSE
          OBVIOUS
        <5>1. log[i].time \in T /\ RoundedResponseTime(log[i].time) = rt
          BY DEF Times
        <5>. HIDE DEF T
        <5>. QED BY <1>2, <3>5, <5>1
      <4>. HIDE DEF At, At2
      <4>2. Cardinality(At(rt)) = 0
        BY <3>2, <4>1, FS_EmptySet, Zenon
      <4>. QED BY <2>1, <2>3, <3>3, <3>5, <4>2
    <3>. QED BY <3>4, <3>5
  <2>. QED BY <2>2, <2>3
<1>13. s2 # {} /\ (0 \notin T2 => l.min \in T2 /\ \A t \in T2 : l.min <= t)
  <2>1. s2 # {}
    OBVIOUS
  <2>. HIDE DEF T, T2
  <2>2. ASSUME 0 \notin T2 PROVE l.min \in T2 /\ \A t \in T2 : l.min <= t
    <3>1. r.time # 0 /\ 0 \notin T
      BY <1>6, <2>2
    <3>2. CASE s = {}
      <4>1. e.min = 0 /\ T = {}
        BY <1>2, <1>6, <3>2
      <4>2. l.min = r.time /\ T2 = {r.time}
        BY <1>1, <1>6, <4>1
      <4>. QED BY <1>1, <4>2
    <3>3. CASE s # {}
      <4>1. e.min \in T /\ \A t \in T : e.min <= t
        BY <1>2, <3>1, <3>3
      <4>2. e.min # 0
        BY <3>1, <4>1
      <4>3. l.min = Smaller(e.min, r.time)
        BY <1>1, <4>2
      <4>. QED BY <1>1, <1>3, <1>6, <4>1, <4>3 DEF Smaller
    <3>. QED BY <3>2, <3>3
  <2>. QED BY <2>1, <2>2
<1>. QED
  <2>. HIDE DEF T, T2, At, At2, s2
  <2>1. /\ l.requests = Cardinality(s2)
        /\ l.failures = Cardinality({i \in s2 : IsFailure(log2[i])})
        /\ l.time = SumFunction([i \in s2 |-> log2[i].time])
        /\ l.max \in T2 \cup {0} /\ \A t \in T2 : t <= l.max
        /\ DOMAIN l.times = {RoundedResponseTime(t) : t \in T2}
        /\ \A key \in DOMAIN l.times : l.times[key] = Cardinality(At2(key))
        /\ s2 = {} => l.min = 0
        /\ s2 # {} /\ 0 \notin T2 => l.min \in T2 /\ \A t \in T2 : l.min <= t
    BY <1>7, <1>8, <1>9, <1>10, <1>11, <1>12, <1>13, Zenon
  <2>2. Summarizes(l, log2, s2)
    BY <2>1, Zenon DEF Summarizes, T2, At2
  <2>. QED BY <2>2 DEF l, s2
-----------------------------------------------------------------------------
(* Types *)

Successes == {r \in Requests : ~IsFailure(r)}
Failed == {r \in Requests : IsFailure(r)}

Entries == UNION {[D -> Entry] : D \in SUBSET {Key(r) : r \in Requests}}
Errors == UNION {[D -> Nat] : D \in SUBSET {ErrorKey(r) : r \in Requests}}
Report == [stats : Entries, total : Entry, errors : Errors]

StatsTypeOK ==
  /\ rec \in [Recorders -> {Idle} \cup {<<r>> : r \in Requests}]
  /\ success \in Seq(Successes) /\ failure \in Seq(Failed)
  /\ pending \in Report /\ toRunner \in Seq(Report)
  /\ entries \in Entries /\ errors \in Errors /\ total \in Entry
  /\ IsFiniteSet(DOMAIN entries) /\ IsFiniteSet(DOMAIN errors)
  /\ logged \in Seq(Requests)
  /\ recorded \in Nat /\ cleared \in Nat /\ reported \in Nat

\* The empty map is a map.
LEMMA EmptyMaps ==
  /\ << >> \in Entries /\ << >> \in Errors /\ EmptyReport \in Report
  /\ DOMAIN << >> = {} /\ IsFiniteSet(DOMAIN << >>)
<1>1. << >> \in [{} -> Entry] /\ << >> \in [{} -> Nat] /\ DOMAIN << >> = {}
  OBVIOUS
<1>2. << >> \in Entries
  BY <1>1 DEF Entries
<1>3. << >> \in Errors
  BY <1>1 DEF Errors
<1>4. IsFiniteSet(DOMAIN << >>)
  BY <1>1, FS_EmptySet
<1>5. EmptyReport \in Report
  BY <1>2, <1>3, NewEntryType DEF EmptyReport, Report
<1>. QED BY <1>1, <1>2, <1>3, <1>4, <1>5

\* The values of a map of entries.
LEMMA EntriesValues ==
  ASSUME NEW m \in Entries
  PROVE  \A k \in DOMAIN m : m[k] \in Entry
BY DEF Entries

\* The values of a map of errors.
LEMMA ErrorsValues ==
  ASSUME NEW m \in Errors
  PROVE  \A k \in DOMAIN m : m[k] \in Nat
BY DEF Errors

\* Storing an entry gives a map of entries.
LEMMA PutEntry ==
  ASSUME NEW m \in Entries, NEW r \in Requests, NEW e \in Entry
  PROVE  Put(m, Key(r), e) \in Entries
<1>. DEFINE K == {Key(q) : q \in Requests}
<1>1. PICK D \in SUBSET K : m \in [D -> Entry]
  BY DEF Entries
<1>2. Key(r) \in K
  OBVIOUS
<1>. HIDE DEF K
<1>3. Put(m, Key(r), e) = [k \in D \cup {Key(r)} |-> IF k = Key(r) THEN e ELSE m[k]]
  BY <1>1 DEF Put
<1>4. Put(m, Key(r), e) \in [(D \cup {Key(r)}) -> Entry] /\ D \cup {Key(r)} \in SUBSET K
  BY <1>1, <1>2, <1>3
<1>. QED BY <1>4 DEF Entries, K

\* Counting an error gives a map of errors.
LEMMA CountError ==
  ASSUME NEW m \in Errors, NEW r \in Requests
  PROVE  Increment(m, ErrorKey(r)) \in Errors
<1>. DEFINE K == {ErrorKey(q) : q \in Requests}
            v == Get(m, ErrorKey(r), 0) + 1
<1>1. PICK D \in SUBSET K : m \in [D -> Nat]
  BY DEF Errors
<1>2. ErrorKey(r) \in K
  OBVIOUS
<1>3. v \in Nat
  BY <1>1 DEF Get
<1>. HIDE DEF K
<1>4. Increment(m, ErrorKey(r)) = [k \in D \cup {ErrorKey(r)} |-> IF k = ErrorKey(r) THEN v ELSE m[k]]
  BY <1>1 DEF Increment, Put
<1>. HIDE DEF v
<1>5. Increment(m, ErrorKey(r)) \in [(D \cup {ErrorKey(r)}) -> Nat] /\ D \cup {ErrorKey(r)} \in SUBSET K
  BY <1>1, <1>2, <1>3, <1>4
<1>. QED BY <1>5 DEF Errors, K

\* What logRequest, and for a failure logError, do with one request.
LogOne(r) ==
  /\ total' = Logged(total, r)
  /\ entries' = Put(entries, Key(r), Logged(Get(entries, Key(r), NewEntry), r))
  /\ errors' = IF IsFailure(r) THEN Increment(errors, ErrorKey(r)) ELSE errors
  /\ logged' = Append(logged, r)
  /\ Len(success) + Len(failure) = Len(success') + Len(failure') + 1
  /\ success' \in Seq(Successes) /\ failure' \in Seq(Failed)
  /\ UNCHANGED <<rec, pending, toRunner, cleared, recorded, reported>>

\* The goroutine logs the first request of one of the channels.
LEMMA LogsOne ==
  ASSUME StatsTypeOK, LogSuccess \/ LogFailure
  PROVE  \E r \in Requests : LogOne(r)
<1>1. CASE LogSuccess
  <2>. DEFINE r == Head(success)
  <2>1. success \in Seq(Successes) /\ failure \in Seq(Failed) /\ success # << >> /\ failure' = failure
    BY <1>1 DEF LogSuccess, StatsTypeOK
  <2>2. r \in Successes /\ success' = Tail(success)
    BY <1>1, <2>1 DEF LogSuccess
  <2>3. r \in Requests /\ ~IsFailure(r)
    BY <2>2 DEF Successes
  <2>4. /\ Len(success) + Len(failure) = Len(success') + Len(failure') + 1
        /\ success' \in Seq(Successes) /\ failure' \in Seq(Failed)
    BY <2>1, <2>2
  <2>5. /\ total' = Log(total, r.time)
        /\ entries' = Put(entries, Key(r), Log(Get(entries, Key(r), NewEntry), r.time))
        /\ logged' = Append(logged, r) /\ errors' = errors
        /\ UNCHANGED <<rec, pending, toRunner, cleared, recorded, reported>>
    BY <1>1 DEF LogSuccess, OnlyStats
  <2>. HIDE DEF r
  <2>6. LogOne(r)
    BY <2>3, <2>4, <2>5 DEF LogOne, Logged
  <2>. QED BY <2>3, <2>6
<1>2. CASE LogFailure
  <2>. DEFINE r == Head(failure)
  <2>1. success \in Seq(Successes) /\ failure \in Seq(Failed) /\ failure # << >> /\ success' = success
    BY <1>2 DEF LogFailure, StatsTypeOK
  <2>2. r \in Failed /\ failure' = Tail(failure)
    BY <1>2, <2>1 DEF LogFailure
  <2>3. r \in Requests /\ IsFailure(r)
    BY <2>2 DEF Failed
  <2>4. /\ Len(success) + Len(failure) = Len(success') + Len(failure') + 1
        /\ success' \in Seq(Successes) /\ failure' \in Seq(Failed)
    BY <2>1, <2>2
  <2>5. /\ total' = LogError(Log(total, r.time))
        /\ entries' = Put(entries, Key(r), LogError(Log(Get(entries, Key(r), NewEntry), r.time)))
        /\ logged' = Append(logged, r) /\ errors' = Increment(errors, ErrorKey(r))
        /\ UNCHANGED <<rec, pending, toRunner, cleared, recorded, reported>>
    BY <1>2 DEF LogFailure, OnlyStats
  <2>. HIDE DEF r
  <2>6. LogOne(r)
    BY <2>3, <2>4, <2>5 DEF LogOne, Logged
  <2>. QED BY <2>3, <2>6
<1>. QED BY <1>1, <1>2

\* The entry that get returns.
LEMMA GetEntry ==
  ASSUME NEW m \in Entries, NEW key
  PROVE  Get(m, key, NewEntry) \in Entry
BY EntriesValues, NewEntryType DEF Get

\* Logging keeps the types.
LEMMA LogKeepsTypes ==
  ASSUME StatsTypeOK, NEW r \in Requests, LogOne(r)
  PROVE  StatsTypeOK'
<1>. DEFINE e == Logged(Get(entries, Key(r), NewEntry), r)
<1>1. total \in Entry /\ entries \in Entries /\ errors \in Errors
  BY DEF StatsTypeOK
<1>2. total' \in Entry /\ e \in Entry
  BY <1>1, GetEntry, LoggedType DEF LogOne
<1>3. entries' = Put(entries, Key(r), e)
  BY DEF LogOne
<1>. HIDE DEF e
<1>4. entries' \in Entries
  BY <1>1, <1>2, <1>3, PutEntry
<1>5. IsFiniteSet(DOMAIN entries')
  <2>1. DOMAIN entries' = DOMAIN entries \cup {Key(r)}
    BY <1>3, PutMap
  <2>2. IsFiniteSet(DOMAIN entries)
    BY DEF StatsTypeOK
  <2>3. IsFiniteSet(DOMAIN entries \cup {Key(r)})
    BY <2>2, FS_AddElement
  <2>. QED BY <2>1, <2>3
<1>6. errors' \in Errors /\ IsFiniteSet(DOMAIN errors')
  <2>1. CASE IsFailure(r)
    <3>1. errors' = Increment(errors, ErrorKey(r))
      BY <2>1 DEF LogOne
    <3>2. DOMAIN errors' = DOMAIN errors \cup {ErrorKey(r)}
      BY <3>1, PutMap DEF Increment
    <3>3. IsFiniteSet(DOMAIN errors')
      <4>1. IsFiniteSet(DOMAIN errors)
        BY DEF StatsTypeOK
      <4>2. IsFiniteSet(DOMAIN errors \cup {ErrorKey(r)})
        BY <4>1, FS_AddElement
      <4>. QED BY <3>2, <4>2
    <3>. QED BY <1>1, <3>1, <3>3, CountError
  <2>2. CASE ~IsFailure(r)
    <3>1. errors' = errors
      BY <2>2 DEF LogOne
    <3>. QED BY <3>1 DEF StatsTypeOK
  <2>. QED BY <2>1, <2>2
<1>7. logged' \in Seq(Requests)
  BY DEF LogOne, StatsTypeOK
<1>. QED BY <1>2, <1>4, <1>5, <1>6, <1>7 DEF LogOne, StatsTypeOK

\* What collectReportData leaves behind.
LEMMA TickKeepsTypes == ASSUME StatsTypeOK, Tick PROVE StatsTypeOK'
<1>. DEFINE hit == {k \in DOMAIN entries : ~(entries[k].requests = 0 /\ entries[k].failures = 0)}
            stats == [k \in hit |-> entries[k]]
            rest == [k \in DOMAIN entries |-> NewEntry]
            K == {Key(r) : r \in Requests}
<1>1. /\ entries \in Entries /\ errors \in Errors /\ total \in Entry
      /\ IsFiniteSet(DOMAIN entries)
  BY DEF StatsTypeOK
<1>2. /\ pending' = [stats |-> stats, total |-> total, errors |-> errors]
      /\ entries' = rest /\ total' = NewEntry /\ errors' = << >> /\ logged' = << >>
      /\ UNCHANGED <<rec, success, failure, toRunner, cleared, recorded, reported>>
  BY DEF Tick
<1>3. DOMAIN entries \in SUBSET K /\ \A k \in DOMAIN entries : entries[k] \in Entry
  BY <1>1 DEF Entries
<1>4. stats \in Entries
  <2>1. hit \in SUBSET K /\ stats \in [hit -> Entry]
    <3>. HIDE DEF K
    <3>. QED BY <1>3
  <2>. HIDE DEF hit, stats
  <2>. QED BY <2>1 DEF Entries
<1>5. rest \in Entries /\ DOMAIN rest = DOMAIN entries
  <2>1. rest \in [DOMAIN entries -> Entry] /\ DOMAIN rest = DOMAIN entries
    BY NewEntryType
  <2>. HIDE DEF rest
  <2>. QED BY <1>3, <2>1 DEF Entries
<1>. HIDE DEF stats, rest
<1>6. pending' \in Report
  BY <1>1, <1>2, <1>4 DEF Report
<1>7. << >> \in Seq(Requests)
  OBVIOUS
<1>. QED BY <1>1, <1>2, <1>5, <1>6, <1>7, EmptyMaps, NewEntryType DEF StatsTypeOK

\* A record call hands its request to the channel of its kind.
LEMMA RecordKeepsTypes ==
  ASSUME StatsTypeOK, NEW g \in Recorders, RecordReturns(g)
  PROVE  /\ StatsTypeOK' /\ recorded' = recorded + 1
         /\ Len(success') + Len(failure') = Len(success) + Len(failure) + 1
         /\ UNCHANGED <<pending, toRunner, statsVars, reported>>
<1>1. PICK r \in Requests : rec[g] = <<r>>
  BY DEF RecordReturns, StatsTypeOK
<1>2. rec[g][1] = r
  BY <1>1
<1>3. success \in Seq(Successes) /\ failure \in Seq(Failed)
  BY DEF StatsTypeOK
<1>4. /\ success' \in Seq(Successes) /\ failure' \in Seq(Failed)
      /\ Len(success') + Len(failure') = Len(success) + Len(failure) + 1
  <2>1. CASE IsFailure(r)
    <3>1. failure' = failure \o <<r>> /\ success' = success
      BY <1>1, <1>2, <2>1 DEF RecordReturns
    <3>2. r \in Failed
      BY <2>1 DEF Failed
    <3>. QED BY <1>3, <3>1, <3>2
  <2>2. CASE ~IsFailure(r)
    <3>1. success' = success \o <<r>> /\ failure' = failure
      BY <1>1, <1>2, <2>2 DEF RecordReturns
    <3>2. r \in Successes
      BY <2>2 DEF Successes
    <3>. QED BY <1>3, <3>1, <3>2
  <2>. QED BY <2>1, <2>2
<1>5. /\ rec' = [rec EXCEPT ![g] = Idle] /\ recorded' = recorded + 1
      /\ UNCHANGED <<pending, toRunner, statsVars, reported>>
  BY DEF RecordReturns
<1>6. rec' \in [Recorders -> {Idle} \cup {<<q>> : q \in Requests}]
  BY <1>5 DEF StatsTypeOK
<1>. QED BY <1>4, <1>5, <1>6 DEF StatsTypeOK, statsVars

\* SendReport hands over a report.
LEMMA SendKeepsTypes ==
  ASSUME StatsTypeOK, SendReport
  PROVE  StatsTypeOK'
<1>1. pending \in Report /\ toRunner \in Seq(Report)
  BY DEF StatsTypeOK
<1>2. toRunner' = Append(toRunner, pending) /\ pending' = EmptyReport
  BY DEF SendReport
<1>3. toRunner' \in Seq(Report)
  BY <1>1, <1>2
<1>4. pending' \in Report
  BY <1>2, EmptyMaps
<1>5. UNCHANGED <<rec, success, failure, entries, errors, total, logged, cleared, recorded, reported>>
  BY DEF SendReport, statsVars
<1>. QED BY <1>3, <1>4, <1>5 DEF StatsTypeOK

\* The runner takes the first report.
LEMMA TakeKeepsTypes ==
  ASSUME StatsTypeOK, TakeReport
  PROVE  /\ StatsTypeOK' /\ toRunner # << >> /\ toRunner' = Tail(toRunner)
         /\ reported' = reported + toRunner[1].total.requests
         /\ UNCHANGED <<success, failure, pending, statsVars, recorded>>
<1>1. toRunner \in Seq(Report) /\ toRunner # << >> /\ reported \in Nat
  BY DEF StatsTypeOK, TakeReport
<1>2. toRunner' = Tail(toRunner) /\ reported' = reported + Head(toRunner).total.requests
  BY DEF TakeReport
<1>3. toRunner' \in Seq(Report) /\ Head(toRunner) = toRunner[1] /\ Head(toRunner) \in Report
  BY <1>1, <1>2
<1>4. Head(toRunner).total.requests \in Nat
  BY <1>3 DEF Report, Entry
<1>5. reported' \in Nat /\ reported' = reported + toRunner[1].total.requests
  BY <1>1, <1>2, <1>3, <1>4
<1>6. UNCHANGED <<rec, success, failure, pending, statsVars, recorded>>
  BY DEF TakeReport
<1>. QED BY <1>1, <1>2, <1>3, <1>5, <1>6 DEF StatsTypeOK, statsVars

\* clearAll starts again.
LEMMA ClearKeepsTypes ==
  ASSUME StatsTypeOK, ClearAll
  PROVE  /\ StatsTypeOK'
         /\ total' = NewEntry /\ entries' = << >> /\ errors' = << >> /\ logged' = << >>
         /\ cleared' = cleared + Len(logged)
         /\ UNCHANGED <<success, failure, pending, toRunner, recorded, reported>>
<1>1. /\ total' = NewEntry /\ entries' = << >> /\ errors' = << >> /\ logged' = << >>
      /\ cleared' = cleared + Len(logged)
      /\ UNCHANGED <<rec, success, failure, pending, toRunner, recorded, reported>>
  BY DEF ClearAll, OnlyStats
<1>2. cleared' \in Nat /\ logged' \in Seq(Requests)
  BY <1>1 DEF StatsTypeOK
<1>. QED BY <1>1, <1>2, EmptyMaps, NewEntryType DEF StatsTypeOK

\* The steps that touch neither the entries nor a report.
LEMMA QuietKeepsTypes ==
  ASSUME StatsTypeOK,
         (\E g \in Recorders : Record(g)) \/ Exit \/ AskToClear \/ Close \/ UNCHANGED vars
  PROVE  /\ StatsTypeOK'
         /\ UNCHANGED <<success, failure, pending, toRunner, statsVars, recorded, reported>>
<1>1. UNCHANGED <<success, failure, pending, toRunner, statsVars, recorded, reported>>
  BY DEF Record, Exit, AskToClear, Close, vars, statsVars
<1>2. rec' \in [Recorders -> {Idle} \cup {<<q>> : q \in Requests}]
  <2>1. ASSUME NEW g \in Recorders, Record(g)
        PROVE  rec' \in [Recorders -> {Idle} \cup {<<q>> : q \in Requests}]
    <3>1. PICK r \in Requests : rec' = [rec EXCEPT ![g] = <<r>>]
      BY <2>1 DEF Record
    <3>. QED BY <3>1 DEF StatsTypeOK
  <2>2. CASE Exit \/ AskToClear \/ Close \/ UNCHANGED vars
    <3>1. rec' = rec
      BY <2>2 DEF Exit, AskToClear, Close, vars
    <3>. QED BY <3>1 DEF StatsTypeOK
  <2>. QED BY <2>1, <2>2
<1>. QED BY <1>1, <1>2 DEF StatsTypeOK, statsVars

\* Every step is one of these.
LEMMA StatsSteps ==
  ASSUME StatsTypeOK, [Next]_vars
  PROVE  \/ \E r \in Requests : LogOne(r)
         \/ Tick \/ SendReport \/ TakeReport \/ ClearAll
         \/ \E g \in Recorders : RecordReturns(g)
         \/ (\E g \in Recorders : Record(g)) \/ Exit \/ AskToClear \/ Close \/ UNCHANGED vars
BY LogsOne, Zenon DEF Next

\* Every step keeps the types.
LEMMA StatsTypeStep == StatsTypeOK /\ [Next]_vars => StatsTypeOK'
BY StatsSteps, LogKeepsTypes, TickKeepsTypes, SendKeepsTypes, TakeKeepsTypes, ClearKeepsTypes,
   RecordKeepsTypes, QuietKeepsTypes, Zenon

\* The program starts with the types.
LEMMA StatsTypeInit == Init => StatsTypeOK
<1>. SUFFICES ASSUME Init PROVE StatsTypeOK
  OBVIOUS
<1>1. << >> \in Seq(Successes) /\ << >> \in Seq(Failed) /\ << >> \in Seq(Report) /\ << >> \in Seq(Requests)
  OBVIOUS
<1>2. rec \in [Recorders -> {Idle} \cup {<<q>> : q \in Requests}]
  BY DEF Init
<1>. QED BY <1>1, <1>2, EmptyMaps, NewEntryType DEF Init, StatsTypeOK
-----------------------------------------------------------------------------
(* The entries are accurate *)

\* Logging a request keeps the total and every entry right.
LEMMA LogKeepsAccurate ==
  ASSUME StatsTypeOK, EntriesAccurate, NEW r \in Requests, LogOne(r)
  PROVE  EntriesAccurate'
<1>. DEFINE n == Len(logged)
            x == n + 1
            log == logged
            log2 == Append(logged, r)
            key == Key(r)
            old == Get(entries, key, NewEntry)
            Mine(k) == {i \in 1..n : Key(log[i]) = k}
            Mine2(k) == {i \in 1..x : Key(log2[i]) = k}
<1>1. /\ n \in Nat /\ DOMAIN log = 1..n /\ DOMAIN log2 = 1..x /\ x \notin 1..n
      /\ 1..x = (1..n) \cup {x}
      /\ \A i \in 1..n : log[i] \in Requests /\ log2[i] = log[i]
      /\ log2[x] = r
  <2>1. logged \in Seq(Requests)
    BY DEF StatsTypeOK
  <2>2. n \in Nat /\ DOMAIN log = 1..n /\ \A i \in 1..n : log[i] \in Requests
    BY <2>1
  <2>3. x \notin 1..n /\ 1..x = (1..n) \cup {x}
    BY <2>2
  <2>4. DOMAIN log2 = 1..x /\ log2[x] = r /\ \A i \in 1..n : log2[i] = log[i]
    BY <2>1, <2>2
  <2>. QED BY <2>2, <2>3, <2>4
<1>2. /\ total' = Logged(total, r) /\ logged' = log2
      /\ entries' = Put(entries, key, Logged(old, r))
  BY DEF LogOne
<1>3. total \in Entry /\ entries \in Entries /\ old \in Entry
  BY GetEntry DEF StatsTypeOK
<1>4. /\ Summarizes(total, log, 1..n)
      /\ \A i \in 1..n : Key(log[i]) \in DOMAIN entries
      /\ \A k \in DOMAIN entries : Summarizes(entries[k], log, Mine(k))
  BY <1>1 DEF EntriesAccurate, Of
<1>5. \A k : Mine(k) \in SUBSET (1..n)
  OBVIOUS
<1>6. Mine2(key) = Mine(key) \cup {x}
  BY <1>1
<1>7. \A k : k # key => Mine2(k) = Mine(k)
  BY <1>1
<1>8. key \notin DOMAIN entries => Mine(key) = {}
  BY <1>4
<1>9. old = IF key \in DOMAIN entries THEN entries[key] ELSE NewEntry
  BY DEF Get
<1>. HIDE DEF log, log2, old, key, Mine, Mine2, n, x
<1>10. Summarizes(total', log2, 1..x)
  <2>1. IsFiniteSet(1..n)
    BY <1>1, FinitePositions
  <2>2. Summarizes(Logged(total, r), log2, (1..n) \cup {x})
    BY <1>1, <1>3, <1>4, <2>1, LogSummarizes
  <2>. QED BY <1>1, <1>2, <2>2
<1>11. Summarizes(Logged(old, r), log2, Mine2(key))
  <2>1. Summarizes(old, log, Mine(key))
    <3>1. CASE key \in DOMAIN entries
      BY <1>4, <1>9, <3>1
    <3>2. CASE key \notin DOMAIN entries
      BY <1>8, <1>9, <3>2, NewSummarizes
    <3>. QED BY <3>1, <3>2
  <2>2. Mine(key) \in SUBSET (1..n) /\ IsFiniteSet(1..n)
    <3>1. IsFiniteSet(1..n)
      BY <1>1, FinitePositions
    <3>. QED BY <1>5, <3>1
  <2>3. IsFiniteSet(Mine(key))
    BY <2>2, FS_Subset
  <2>4. x \notin Mine(key) /\ \A i \in Mine(key) : log2[i] = log[i] /\ log[i] \in Requests
    BY <1>1, <2>2
  <2>5. Summarizes(Logged(old, r), log2, Mine(key) \cup {x})
    BY <1>1, <1>3, <2>1, <2>3, <2>4, LogSummarizes
  <2>. QED BY <1>6, <2>5
<1>12. /\ DOMAIN entries' = DOMAIN entries \cup {key}
       /\ entries'[key] = Logged(old, r)
       /\ \A k \in DOMAIN entries : k # key => entries'[k] = entries[k]
  <2>. DEFINE e == Logged(old, r)
  <2>1. entries' = Put(entries, key, e)
    BY <1>2
  <2>. HIDE DEF e
  <2>2. /\ DOMAIN entries' = DOMAIN entries \cup {key}
        /\ entries'[key] = e
        /\ \A k \in DOMAIN entries : k # key => entries'[k] = entries[k]
    BY <2>1 DEF Put
  <2>. QED BY <2>2 DEF e
<1>13. ASSUME NEW k \in DOMAIN entries' PROVE Summarizes(entries'[k], log2, Mine2(k))
  <2>1. CASE k = key
    BY <1>11, <1>12, <2>1
  <2>2. CASE k # key
    <3>1. k \in DOMAIN entries /\ entries'[k] = entries[k] /\ Mine2(k) = Mine(k)
      BY <1>7, <1>12, <2>2
    <3>2. Summarizes(entries[k], log, Mine(k)) /\ Mine(k) \in SUBSET (1..n)
      BY <1>4, <1>5, <3>1
    <3>3. \A i \in Mine(k) : log2[i] = log[i]
      BY <1>1, <3>2
    <3>4. Summarizes(entries[k], log2, Mine(k))
      BY <3>2, <3>3, SummarizesSame, Zenon
    <3>. QED BY <3>1, <3>4
  <2>. QED BY <2>1, <2>2
<1>14. \A i \in 1..x : Key(log2[i]) \in DOMAIN entries'
  <2>. SUFFICES ASSUME NEW i \in 1..x PROVE Key(log2[i]) \in DOMAIN entries'
    OBVIOUS
  <2>1. CASE i = x
    BY <1>1, <1>12, <2>1 DEF key
  <2>2. CASE i # x
    <3>1. i \in 1..n
      BY <1>1, <2>2
    <3>. QED BY <1>1, <1>4, <1>12, <3>1
  <2>. QED BY <2>1, <2>2
<1>15. \A k : Of(k)' = Mine2(k)
  BY <1>1, <1>2 DEF Of, Mine2
<1>16. DOMAIN logged' = 1..x
  BY <1>1, <1>2
<1>17. Summarizes(total', logged', DOMAIN logged')
  BY <1>2, <1>10, <1>16
<1>18. \A i \in DOMAIN logged' : Key(logged'[i]) \in DOMAIN entries'
  BY <1>2, <1>14, <1>16
<1>19. \A k \in DOMAIN entries' : Summarizes(entries'[k], logged', Of(k)')
  BY <1>2, <1>13, <1>15
<1>. QED BY <1>17, <1>18, <1>19 DEF EntriesAccurate

\* Fresh entries say that nothing was logged.
LEMMA FreshIsAccurate ==
  ASSUME total' = NewEntry, logged' = << >>,
         \A k \in DOMAIN entries' : entries'[k] = NewEntry
  PROVE  EntriesAccurate'
<1>1. DOMAIN logged' = {}
  OBVIOUS
<1>2. \A k : Of(k)' = {}
  BY <1>1 DEF Of
<1>3. Summarizes(NewEntry, logged', {})
  BY NewSummarizes
<1>4. Summarizes(total', logged', DOMAIN logged')
  BY <1>1, <1>3
<1>5. \A k \in DOMAIN entries' : Summarizes(entries'[k], logged', Of(k)')
  BY <1>2, <1>3
<1>. QED BY <1>1, <1>4, <1>5 DEF EntriesAccurate

\* Every step keeps the entries accurate.
LEMMA AccurateStep ==
  ASSUME StatsTypeOK, EntriesAccurate, [Next]_vars
  PROVE  EntriesAccurate'
<1>1. ASSUME NEW r \in Requests, LogOne(r) PROVE EntriesAccurate'
  BY <1>1, LogKeepsAccurate
<1>2. CASE Tick
  <2>1. total' = NewEntry /\ logged' = << >> /\ entries' = [k \in DOMAIN entries |-> NewEntry]
    BY <1>2 DEF Tick
  <2>. QED BY <2>1, FreshIsAccurate
<1>3. CASE ClearAll
  <2>1. total' = NewEntry /\ logged' = << >> /\ entries' = << >>
    BY <1>3, ClearKeepsTypes
  <2>2. DOMAIN entries' = {}
    BY <2>1, EmptyMaps
  <2>. QED BY <2>1, <2>2, FreshIsAccurate
<1>4. ASSUME UNCHANGED statsVars PROVE EntriesAccurate'
  BY <1>4 DEF EntriesAccurate, Of, statsVars
<1>5. CASE SendReport \/ TakeReport \/ \E g \in Recorders : RecordReturns(g)
  <2>1. UNCHANGED statsVars
    BY <1>5 DEF SendReport, TakeReport, RecordReturns
  <2>. QED BY <1>4, <2>1
<1>6. CASE (\E g \in Recorders : Record(g)) \/ Exit \/ AskToClear \/ Close \/ UNCHANGED vars
  <2>1. UNCHANGED statsVars
    BY <1>6 DEF Record, Exit, AskToClear, Close, vars
  <2>. QED BY <1>4, <2>1
<1>. QED BY <1>1, <1>2, <1>3, <1>5, <1>6, StatsSteps, Zenon

\* Nothing is logged at the start.
LEMMA AccurateInit == Init => EntriesAccurate
<1>. SUFFICES ASSUME Init PROVE EntriesAccurate
  OBVIOUS
<1>1. total = NewEntry /\ DOMAIN logged = {} /\ DOMAIN entries = {}
  BY EmptyMaps DEF Init
<1>2. Summarizes(total, logged, DOMAIN logged)
  BY <1>1, NewSummarizes
<1>. QED BY <1>1, <1>2 DEF EntriesAccurate

\* For any recorders, requests and capacities, the total and every entry say
\* exactly what the stats goroutine logged since the last report or clear: the
\* number of requests and of failures, their times, and how many fall under
\* each rounded time.
THEOREM EntriesStayAccurate == Spec => []EntriesAccurate
<1>1. Init => StatsTypeOK /\ EntriesAccurate
  BY StatsTypeInit, AccurateInit
<1>2. StatsTypeOK /\ EntriesAccurate /\ [Next]_vars => (StatsTypeOK /\ EntriesAccurate)'
  BY StatsTypeStep, AccurateStep
<1>. QED BY <1>1, <1>2, PTL DEF Spec
-----------------------------------------------------------------------------
(* Reports are consistent *)

\* What Consistent says, of the parts of a report.
Balanced(stats, tot, errs) ==
  /\ SumFunction(errs) = tot.failures
  /\ SumFunction([k \in DOMAIN stats |-> stats[k].requests]) = tot.requests
  /\ SumFunction([k \in DOMAIN stats |-> stats[k].time]) = tot.time

\* The counts in use balance too: that is what makes the next report consistent.
ConsistentInv == Balanced(entries, total, errors) /\ ReportsConsistent

\* Changing one value of a map, or adding one, changes the sum by as much.
LEMMA SumPut ==
  ASSUME NEW f, NEW g, NEW D, IsFiniteSet(D), NEW key, NEW old \in Int,
         \A k \in D : f[k] \in Int, \A k \in D : k # key => g[k] = f[k],
         g[key] \in Int, old = (IF key \in D THEN f[key] ELSE 0)
  PROVE  SumFunctionOnSet(g, D \cup {key}) = SumFunctionOnSet(f, D) - old + g[key]
<1>1. CASE key \in D
  <2>1. D \cup {key} = D
    BY <1>1
  <2>2. \A k \in D : f[k] \in Int /\ g[k] \in Int /\ (k # key => f[k] = g[k])
    OBVIOUS
  <2>3. SumFunctionOnSet(g, D) = SumFunctionOnSet(f, D) - f[key] + g[key]
    BY <1>1, <2>2, SumUpdate
  <2>4. SumFunctionOnSet(g, D \cup {key}) = SumFunctionOnSet(g, D)
    BY <2>1, Zenon
  <2>5. old = f[key]
    BY <1>1
  <2>. QED BY <2>3, <2>4, <2>5
<1>2. CASE key \notin D
  <2>1. \A k \in D : f[k] \in Int /\ f[k] = g[k]
    BY <1>2
  <2>2. SumFunctionOnSet(f, D) = SumFunctionOnSet(g, D)
    BY <2>1, SumSame
  <2>3. \A k \in D \cup {key} : g[k] \in Int
    BY <2>1
  <2>4. SumFunctionOnSet(g, D \cup {key}) = SumFunctionOnSet(g, D) + g[key]
    BY <1>2, <2>3, SumAdd
  <2>5. SumFunctionOnSet(f, D) \in Int
    BY SumType
  <2>6. old = 0
    BY <1>2
  <2>. QED BY <2>2, <2>4, <2>5, <2>6
<1>. QED BY <1>1, <1>2

\* A fresh map of entries balances.
LEMMA FreshBalances ==
  ASSUME NEW m, IsFiniteSet(DOMAIN m), \A k \in DOMAIN m : m[k] = NewEntry
  PROVE  Balanced(m, NewEntry, << >>)
<1>. DEFINE f == [k \in DOMAIN m |-> m[k].requests]
            g == [k \in DOMAIN m |-> m[k].time]
            D == DOMAIN m
<1>1. \A k \in D : f[k] = 0 /\ g[k] = 0
  BY NewEntryType
<1>2. SumFunction(f) = SumFunctionOnSet(f, D) /\ SumFunction(g) = SumFunctionOnSet(g, D)
  <2>1. DOMAIN f = D /\ DOMAIN g = D
    OBVIOUS
  <2>. QED BY <2>1, Zenon DEF SumFunction
<1>3. SumFunction(<< >>) = 0
  <2>1. SumFunction(<< >>) = SumFunctionOnSet(<< >>, {})
    BY EmptyMaps, Zenon DEF SumFunction
  <2>. QED BY <2>1, SumEmpty
<1>. HIDE DEF f, g, D
<1>4. IsFiniteSet(D)
  BY DEF D
<1>5. SumFunctionOnSet(f, D) = 0 /\ SumFunctionOnSet(g, D) = 0
  BY <1>1, <1>4, SumZero
<1>6. SumFunction(f) = NewEntry.requests /\ SumFunction(g) = NewEntry.time
  BY <1>2, <1>5, NewEntryType
<1>. QED BY <1>3, <1>6, NewEntryType DEF Balanced, f, g

\* Logging a request adds the same to the total and to the sum of the entries.
LEMMA LogKeepsBalance ==
  ASSUME StatsTypeOK, NEW r \in Requests, LogOne(r), Balanced(entries, total, errors)
  PROVE  Balanced(entries', total', errors')
<1>. DEFINE key == Key(r)
            D == DOMAIN entries
            old == Get(entries, key, NewEntry)
            new == Logged(old, r)
            m2 == entries'
            rq == [k \in D |-> entries[k].requests]
            tm == [k \in D |-> entries[k].time]
            rq2 == [k \in DOMAIN m2 |-> m2[k].requests]
            tm2 == [k \in DOMAIN m2 |-> m2[k].time]
<1>1. total \in Entry /\ entries \in Entries /\ IsFiniteSet(D) /\ old \in Entry
  BY GetEntry DEF StatsTypeOK
<1>2. /\ total' = Logged(total, r) /\ m2 = Put(entries, key, new)
      /\ errors' = IF IsFailure(r) THEN Increment(errors, ErrorKey(r)) ELSE errors
  BY DEF LogOne
<1>3. /\ new \in Entry /\ r.time \in Nat
      /\ new.requests = old.requests + 1 /\ new.time = old.time + r.time
  BY <1>1, LoggedType
<1>4. /\ total'.requests = total.requests + 1 /\ total'.time = total.time + r.time
      /\ total'.failures = total.failures + (IF IsFailure(r) THEN 1 ELSE 0)
  BY <1>1, <1>2, LoggedType
<1>5. \A k \in D : /\ rq[k] \in Nat /\ rq[k] = entries[k].requests
                   /\ tm[k] \in Nat /\ tm[k] = entries[k].time
  BY <1>1, EntriesValues DEF Entry
<1>6. old = IF key \in D THEN entries[key] ELSE NewEntry
  BY DEF Get
<1>7. /\ old.requests \in Nat /\ old.time \in Nat
      /\ old.requests = (IF key \in D THEN rq[key] ELSE 0)
      /\ old.time = (IF key \in D THEN tm[key] ELSE 0)
  <2>1. old.requests \in Nat /\ old.time \in Nat
    BY <1>1 DEF Entry
  <2>2. CASE key \in D
    BY <1>5, <1>6, <2>1, <2>2
  <2>3. CASE key \notin D
    BY <1>6, <2>1, <2>3, NewEntryType
  <2>. QED BY <2>2, <2>3
<1>8. SumFunction(rq) = SumFunctionOnSet(rq, D) /\ SumFunction(tm) = SumFunctionOnSet(tm, D)
  <2>1. DOMAIN rq = D /\ DOMAIN tm = D
    OBVIOUS
  <2>. QED BY <2>1, Zenon DEF SumFunction
<1>9. /\ SumFunction(rq) = total.requests /\ SumFunction(tm) = total.time
      /\ SumFunction(errors) = total.failures
  BY DEF Balanced
<1>. HIDE DEF old, new, key, m2
<1>10. DOMAIN m2 = D \cup {key} /\ m2[key] = new /\ \A k \in D : k # key => m2[k] = entries[k]
  BY <1>2 DEF Put
<1>11. SumFunction(rq2) = SumFunctionOnSet(rq2, D \cup {key}) /\ SumFunction(tm2) = SumFunctionOnSet(tm2, D \cup {key})
  <2>1. DOMAIN rq2 = D \cup {key} /\ DOMAIN tm2 = D \cup {key}
    BY <1>10
  <2>. HIDE DEF rq2, tm2
  <2>. QED BY <2>1, Zenon DEF SumFunction
<1>12. /\ rq2[key] = new.requests /\ tm2[key] = new.time
       /\ \A k \in D : k # key => rq2[k] = rq[k] /\ tm2[k] = tm[k]
  BY <1>5, <1>10
<1>. HIDE DEF D, rq, tm, rq2, tm2
<1>13. SumFunctionOnSet(rq2, D \cup {key}) = SumFunctionOnSet(rq, D) - old.requests + rq2[key]
  <2>1. rq2[key] \in Int /\ old.requests \in Int
    BY <1>3, <1>7, <1>12
  <2>2. \A k \in D : rq[k] \in Int
    BY <1>5
  <2>3. \A k \in D : k # key => rq2[k] = rq[k]
    BY <1>12
  <2>. DEFINE o == old.requests
  <2>4. o \in Int /\ o = (IF key \in D THEN rq[key] ELSE 0) /\ IsFiniteSet(D)
    BY <1>1, <1>7
  <2>. HIDE DEF o
  <2>5. SumFunctionOnSet(rq2, D \cup {key}) = SumFunctionOnSet(rq, D) - o + rq2[key]
    BY <2>1, <2>2, <2>3, <2>4, SumPut
  <2>. QED BY <2>5 DEF o
<1>14. SumFunctionOnSet(tm2, D \cup {key}) = SumFunctionOnSet(tm, D) - old.time + tm2[key]
  <2>1. tm2[key] \in Int /\ old.time \in Int
    BY <1>3, <1>7, <1>12
  <2>2. \A k \in D : tm[k] \in Int
    BY <1>5
  <2>3. \A k \in D : k # key => tm2[k] = tm[k]
    BY <1>12
  <2>. DEFINE o == old.time
  <2>4. o \in Int /\ o = (IF key \in D THEN tm[key] ELSE 0) /\ IsFiniteSet(D)
    BY <1>1, <1>7
  <2>. HIDE DEF o
  <2>5. SumFunctionOnSet(tm2, D \cup {key}) = SumFunctionOnSet(tm, D) - o + tm2[key]
    BY <2>1, <2>2, <2>3, <2>4, SumPut
  <2>. QED BY <2>5 DEF o
<1>15. total.requests \in Nat /\ total.time \in Nat /\ total.failures \in Nat
  BY <1>1 DEF Entry
<1>16. SumFunction(rq2) = total'.requests
  BY <1>3, <1>4, <1>7, <1>8, <1>9, <1>11, <1>12, <1>13, <1>15
<1>17. SumFunction(tm2) = total'.time
  BY <1>3, <1>4, <1>7, <1>8, <1>9, <1>11, <1>12, <1>14, <1>15
<1>18. SumFunction(errors') = total'.failures
  <2>1. CASE ~IsFailure(r)
    <3>1. errors' = errors
      BY <1>2, <2>1
    <3>2. total'.failures = total.failures + 0
      BY <1>4, <2>1
    <3>. QED BY <1>9, <1>15, <3>1, <3>2
  <2>2. CASE IsFailure(r)
    <3>. DEFINE e == ErrorKey(r)
                E == DOMAIN errors
                n == IF e \in E THEN errors[e] ELSE 0
                errors2 == errors'
    <3>1. errors \in Errors /\ IsFiniteSet(E)
      BY DEF StatsTypeOK
    <3>2. \A k \in E : errors[k] \in Nat
      BY <3>1, ErrorsValues
    <3>3. n \in Nat
      BY <3>2
    <3>4. errors2 = Put(errors, e, n + 1)
      BY <1>2, <2>2 DEF Increment, Get
    <3>. HIDE DEF e, n, errors2
    <3>5. DOMAIN errors2 = E \cup {e} /\ errors2[e] = n + 1 /\ \A k \in E : k # e => errors2[k] = errors[k]
      BY <3>4 DEF Put
    <3>6. SumFunction(errors) = SumFunctionOnSet(errors, E) /\ SumFunction(errors2) = SumFunctionOnSet(errors2, E \cup {e})
      BY <3>5, Zenon DEF SumFunction
    <3>7. SumFunctionOnSet(errors2, E \cup {e}) = SumFunctionOnSet(errors, E) - n + errors2[e]
      <4>1. n \in Int /\ errors2[e] \in Int /\ n = (IF e \in E THEN errors[e] ELSE 0)
        BY <3>3, <3>5 DEF n
      <4>2. \A k \in E : errors[k] \in Int
        BY <3>2
      <4>. HIDE DEF E
      <4>. QED BY <3>1, <3>5, <4>1, <4>2, SumPut
    <3>8. total'.failures = total.failures + 1
      BY <1>4, <2>2
    <3>9. SumFunction(errors2) = total'.failures
      <4>1. SumFunctionOnSet(errors, E) = total.failures
        BY <1>9, <3>6
      <4>2. SumFunction(errors2) = total.failures - n + (n + 1)
        BY <3>5, <3>6, <3>7, <4>1
      <4>. QED BY <1>15, <3>3, <3>8, <4>2
    <3>. QED BY <3>9 DEF errors2
  <2>. QED BY <2>1, <2>2
<1>. QED BY <1>16, <1>17, <1>18 DEF Balanced, rq2, tm2, m2

\* The entries left out of a report have counted nothing.
LEMMA TickIsConsistent ==
  ASSUME StatsTypeOK, EntriesAccurate, Balanced(entries, total, errors), Tick
  PROVE  Consistent(pending')
<1>. DEFINE D == DOMAIN entries
            hit == {k \in D : ~(entries[k].requests = 0 /\ entries[k].failures = 0)}
            stats == [k \in hit |-> entries[k]]
            rq == [k \in D |-> entries[k].requests]
            tm == [k \in D |-> entries[k].time]
            rq2 == [k \in hit |-> stats[k].requests]
            tm2 == [k \in hit |-> stats[k].time]
<1>1. IsFiniteSet(D) /\ entries \in Entries /\ hit \in SUBSET D
  BY DEF StatsTypeOK
<1>2. \A k \in D : entries[k].requests \in Nat /\ entries[k].time \in Nat
  BY <1>1, EntriesValues DEF Entry
<1>3. \A k \in D : rq[k] \in Nat /\ tm[k] \in Nat /\ rq[k] = entries[k].requests /\ tm[k] = entries[k].time
  BY <1>2
<1>4. \A k \in hit : rq2[k] = rq[k] /\ tm2[k] = tm[k]
  OBVIOUS
<1>5. \A k \in D \ hit : rq[k] = 0 /\ tm[k] = 0
  <2>. SUFFICES ASSUME NEW k \in D \ hit PROVE rq[k] = 0 /\ tm[k] = 0
    OBVIOUS
  <2>1. entries[k].requests = 0 /\ Summarizes(entries[k], logged, Of(k))
    BY DEF EntriesAccurate
  <2>2. Of(k) = {}
    <3>1. Of(k) \in SUBSET (DOMAIN logged)
      BY DEF Of
    <3>2. IsFiniteSet(DOMAIN logged)
      <4>1. Len(logged) \in Nat /\ DOMAIN logged = 1..Len(logged)
        BY DEF StatsTypeOK
      <4>2. IsFiniteSet(1..Len(logged))
        BY <4>1, FinitePositions
      <4>. QED BY <4>1, <4>2
    <3>3. Cardinality(Of(k)) = 0
      BY <2>1 DEF Summarizes
    <3>. QED BY <3>1, <3>2, <3>3, CountSome
  <2>3. entries[k].time = 0
    <3>. DEFINE f == [i \in {} |-> logged[i].time]
    <3>1. entries[k].time = SumFunction([i \in Of(k) |-> logged[i].time])
      BY <2>1, Zenon DEF Summarizes
    <3>2. entries[k].time = SumFunction(f)
      BY <2>2, <3>1, Zenon
    <3>3. SumFunction(f) = SumFunctionOnSet(f, {})
      BY Zenon DEF SumFunction
    <3>. HIDE DEF f
    <3>. QED BY <3>2, <3>3, SumEmpty
  <2>. QED BY <1>3, <2>1, <2>3
<1>6. /\ SumFunction(rq) = SumFunctionOnSet(rq, D) /\ SumFunction(tm) = SumFunctionOnSet(tm, D)
      /\ SumFunction(rq2) = SumFunctionOnSet(rq2, hit) /\ SumFunction(tm2) = SumFunctionOnSet(tm2, hit)
  <2>1. DOMAIN rq = D /\ DOMAIN tm = D /\ DOMAIN rq2 = hit /\ DOMAIN tm2 = hit
    OBVIOUS
  <2>. HIDE DEF rq, tm, rq2, tm2
  <2>. QED BY <2>1, Zenon DEF SumFunction
<1>7. SumFunction(rq) = total.requests /\ SumFunction(tm) = total.time /\ SumFunction(errors) = total.failures
  BY DEF Balanced
<1>8. pending' = [stats |-> stats, total |-> total, errors |-> errors] /\ DOMAIN stats = hit
  BY DEF Tick
<1>. HIDE DEF D, hit, stats
<1>9. SumFunction(rq2) = SumFunction(rq) /\ SumFunction(tm2) = SumFunction(tm)
  <2>. HIDE DEF rq, tm, rq2, tm2
  <2>1. IsFiniteSet(hit)
    BY <1>1, FS_Subset
  <2>2. SumFunctionOnSet(rq, D) = SumFunctionOnSet(rq, hit) /\ SumFunctionOnSet(tm, D) = SumFunctionOnSet(tm, hit)
    <3>1. \A k \in D : rq[k] \in Int /\ tm[k] \in Int
      BY <1>3
    <3>. QED BY <1>1, <1>5, <3>1, SumSupport
  <2>3. \A k \in hit : rq[k] \in Int /\ rq[k] = rq2[k] /\ tm[k] \in Int /\ tm[k] = tm2[k]
    BY <1>1, <1>3, <1>4
  <2>4. SumFunctionOnSet(rq, hit) = SumFunctionOnSet(rq2, hit) /\ SumFunctionOnSet(tm, hit) = SumFunctionOnSet(tm2, hit)
    BY <2>1, <2>3, SumSame
  <2>. QED BY <1>6, <2>2, <2>4
<1>10. pending'.stats = stats /\ pending'.total = total /\ pending'.errors = errors
  BY <1>8
<1>11. /\ [k \in DOMAIN pending'.stats |-> pending'.stats[k].requests] = rq2
       /\ [k \in DOMAIN pending'.stats |-> pending'.stats[k].time] = tm2
  BY <1>8, <1>10
<1>. HIDE DEF rq, tm, rq2, tm2
<1>. QED BY <1>7, <1>9, <1>10, <1>11 DEF Consistent

\* An empty report is consistent.
LEMMA EmptyIsConsistent == Consistent(EmptyReport)
<1>1. DOMAIN << >> = {} /\ IsFiniteSet(DOMAIN << >>)
  BY EmptyMaps
<1>2. Balanced(<< >>, NewEntry, << >>)
  BY <1>1, FreshBalances, Zenon
<1>3. EmptyReport.stats = << >> /\ EmptyReport.total = NewEntry /\ EmptyReport.errors = << >>
  BY DEF EmptyReport
<1>. QED BY <1>2, <1>3, Zenon DEF Balanced, Consistent

\* Every step keeps the counts in balance and the reports consistent.
LEMMA ConsistentStep ==
  ASSUME StatsTypeOK, EntriesAccurate, ConsistentInv, [Next]_vars
  PROVE  ConsistentInv'
<1>. DEFINE B == Balanced(entries, total, errors)
<1>0. B /\ Consistent(pending) /\ \A i \in DOMAIN toRunner : Consistent(toRunner[i])
  BY DEF ConsistentInv, ReportsConsistent
<1>1. ASSUME NEW r \in Requests, LogOne(r) PROVE ConsistentInv'
  <2>1. Balanced(entries', total', errors')
    BY <1>0, <1>1, LogKeepsBalance
  <2>2. UNCHANGED <<pending, toRunner>>
    BY <1>1 DEF LogOne
  <2>. QED BY <1>0, <2>1, <2>2 DEF ConsistentInv, ReportsConsistent
<1>2. CASE Tick
  <2>1. Consistent(pending')
    BY <1>0, <1>2, TickIsConsistent
  <2>2. /\ total' = NewEntry /\ errors' = << >> /\ toRunner' = toRunner
        /\ entries' = [k \in DOMAIN entries |-> NewEntry]
    BY <1>2 DEF Tick
  <2>3. IsFiniteSet(DOMAIN entries') /\ \A k \in DOMAIN entries' : entries'[k] = NewEntry
    BY <2>2 DEF StatsTypeOK
  <2>4. Balanced(entries', total', errors')
    BY <2>2, <2>3, FreshBalances
  <2>. QED BY <1>0, <2>1, <2>2, <2>4 DEF ConsistentInv, ReportsConsistent
<1>3. CASE ClearAll
  <2>1. /\ total' = NewEntry /\ errors' = << >> /\ entries' = << >>
        /\ UNCHANGED <<pending, toRunner>>
    BY <1>3, ClearKeepsTypes
  <2>2. Balanced(entries', total', errors')
    BY <2>1, EmptyMaps, FreshBalances
  <2>. QED BY <1>0, <2>1, <2>2 DEF ConsistentInv, ReportsConsistent
<1>4. CASE SendReport
  <2>1. /\ toRunner' = Append(toRunner, pending) /\ pending' = EmptyReport
        /\ UNCHANGED <<entries, total, errors>>
    BY <1>4 DEF SendReport, statsVars
  <2>2. ASSUME NEW i \in DOMAIN toRunner' PROVE Consistent(toRunner'[i])
    <3>1. toRunner \in Seq(Report)
      BY DEF StatsTypeOK
    <3>2. (i \in DOMAIN toRunner /\ toRunner'[i] = toRunner[i]) \/ toRunner'[i] = pending
      BY <2>1, <3>1
    <3>. QED BY <1>0, <3>2
  <2>3. Consistent(pending')
    BY <2>1, EmptyIsConsistent
  <2>. QED BY <1>0, <2>1, <2>2, <2>3 DEF ConsistentInv, ReportsConsistent
<1>5. CASE TakeReport
  <2>1. toRunner # << >> /\ toRunner' = Tail(toRunner) /\ UNCHANGED <<pending, statsVars>>
    BY <1>5, TakeKeepsTypes
  <2>2. ASSUME NEW i \in DOMAIN toRunner' PROVE Consistent(toRunner'[i])
    <3>1. toRunner \in Seq(Report)
      BY DEF StatsTypeOK
    <3>2. i + 1 \in DOMAIN toRunner /\ toRunner'[i] = toRunner[i + 1]
      BY <2>1, <3>1
    <3>. QED BY <1>0, <3>2
  <2>. QED BY <1>0, <2>1, <2>2 DEF ConsistentInv, ReportsConsistent, statsVars
<1>6. ASSUME UNCHANGED <<pending, toRunner, statsVars>> PROVE ConsistentInv'
  BY <1>0, <1>6 DEF ConsistentInv, ReportsConsistent, statsVars
<1>7. CASE \E g \in Recorders : RecordReturns(g)
  BY <1>6, <1>7, RecordKeepsTypes
<1>8. CASE (\E g \in Recorders : Record(g)) \/ Exit \/ AskToClear \/ Close \/ UNCHANGED vars
  BY <1>6, <1>8, QuietKeepsTypes
<1>. QED BY <1>1, <1>2, <1>3, <1>4, <1>5, <1>7, <1>8, StatsSteps, Zenon

\* The program starts in balance.
LEMMA ConsistentInit == Init => ConsistentInv
<1>. SUFFICES ASSUME Init PROVE ConsistentInv
  OBVIOUS
<1>1. /\ total = NewEntry /\ errors = << >> /\ entries = << >> /\ pending = EmptyReport
      /\ DOMAIN toRunner = {} /\ DOMAIN entries = {} /\ IsFiniteSet(DOMAIN entries)
  BY EmptyMaps DEF Init
<1>2. Balanced(entries, NewEntry, << >>)
  BY <1>1, FreshBalances
<1>. QED BY <1>1, <1>2, EmptyIsConsistent DEF ConsistentInv, ReportsConsistent

\* For any recorders, requests and capacities, every report on its way to the
\* runner is consistent: its errors account for its failures, its entries for
\* its total, also when entries without requests are left out.
THEOREM ReportsStayConsistent == Spec => []ReportsConsistent
<1>. DEFINE I == StatsTypeOK /\ EntriesAccurate /\ ConsistentInv
<1>1. Init => I
  BY StatsTypeInit, AccurateInit, ConsistentInit
<1>2. I /\ [Next]_vars => I'
  BY StatsTypeStep, AccurateStep, ConsistentStep
<1>3. I => ReportsConsistent
  BY DEF ConsistentInv
<1>. HIDE DEF I
<1>. QED BY <1>1, <1>2, <1>3, PTL DEF Spec
-----------------------------------------------------------------------------
(* Requests are conserved *)

\* The requests in the reports of a queue.
InReports(queue) == SumFunction([i \in DOMAIN queue |-> queue[i].total.requests])

\* Of a queue of reports, as a sum over its positions.
LEMMA InReportsIs ==
  ASSUME NEW queue \in Seq(Report)
  PROVE  LET f == [i \in 1..Len(queue) |-> queue[i].total.requests] IN
         /\ Len(queue) \in Nat
         /\ InReports(queue) = SumFunctionOnSet(f, 1..Len(queue))
         /\ \A i \in 1..Len(queue) : f[i] \in Nat /\ f[i] = queue[i].total.requests
         /\ InReports(queue) \in Nat
<1>. DEFINE n == Len(queue)
            f == [i \in 1..n |-> queue[i].total.requests]
<1>1. n \in Nat /\ DOMAIN queue = 1..n /\ \A i \in 1..n : queue[i] \in Report
  OBVIOUS
<1>2. \A i \in 1..n : queue[i].total.requests \in Nat
  BY <1>1 DEF Report, Entry
<1>3. \A i \in 1..n : f[i] \in Nat /\ f[i] = queue[i].total.requests
  BY <1>2
<1>4. InReports(queue) = SumFunction(f)
  BY <1>1 DEF InReports
<1>5. SumFunction(f) = SumFunctionOnSet(f, 1..n)
  <2>1. DOMAIN f = 1..n
    OBVIOUS
  <2>. HIDE DEF f
  <2>. QED BY <2>1, Zenon DEF SumFunction
<1>6. SumFunctionOnSet(f, 1..n) \in Nat
  <2>. HIDE DEF f, n
  <2>1. IsFiniteSet(1..n)
    BY <1>1, FinitePositions
  <2>. QED BY <1>3, <2>1, SumNat
<1>. QED BY <1>1, <1>3, <1>4, <1>5, <1>6

\* A report that is sent adds its requests to the queue.
LEMMA SendAdds ==
  ASSUME NEW queue \in Seq(Report), NEW p \in Report
  PROVE  InReports(Append(queue, p)) = InReports(queue) + p.total.requests
<1>. DEFINE queue2 == Append(queue, p)
            n == Len(queue)
            f == [i \in 1..n |-> queue[i].total.requests]
            g == [i \in 1..(n + 1) |-> queue2[i].total.requests]
<1>1. n \in Nat /\ queue2 \in Seq(Report) /\ Len(queue2) = n + 1
  OBVIOUS
<1>2. /\ InReports(queue) = SumFunctionOnSet(f, 1..n)
      /\ \A i \in 1..n : f[i] \in Nat /\ f[i] = queue[i].total.requests
  BY InReportsIs
<1>3. /\ InReports(queue2) = SumFunctionOnSet(g, 1..(n + 1))
      /\ \A i \in 1..(n + 1) : g[i] \in Nat /\ g[i] = queue2[i].total.requests
  <2>. DEFINE h == [i \in 1..Len(queue2) |-> queue2[i].total.requests]
  <2>1. /\ InReports(queue2) = SumFunctionOnSet(h, 1..Len(queue2))
        /\ \A i \in 1..Len(queue2) : h[i] \in Nat /\ h[i] = queue2[i].total.requests
    <3>. HIDE DEF queue2
    <3>. QED BY <1>1, InReportsIs
  <2>2. h = g /\ 1..Len(queue2) = 1..(n + 1)
    <3>. HIDE DEF queue2
    <3>. QED BY <1>1
  <2>. HIDE DEF h, g
  <2>. QED BY <2>1, <2>2
<1>4. /\ \A i \in 1..n : queue2[i] = queue[i]
      /\ queue2[n + 1] = p
  OBVIOUS
<1>5. /\ \A i \in 1..n : f[i] \in Int /\ g[i] = f[i]
      /\ g[n + 1] \in Int /\ g[n + 1] = p.total.requests
  <2>. HIDE DEF f, g, queue2
  <2>1. \A i \in 1..n : i \in 1..(n + 1)
    BY <1>1
  <2>2. n + 1 \in 1..(n + 1)
    BY <1>1
  <2>. QED BY <1>2, <1>3, <1>4, <2>1, <2>2
<1>. HIDE DEF f, g, queue2, n
<1>6. SumFunctionOnSet(g, 1..(n + 1)) = SumFunctionOnSet(f, 1..n) + g[n + 1]
  BY <1>1, <1>5, SumExtend
<1>7. InReports(queue2) = InReports(queue) + p.total.requests
  BY <1>2, <1>3, <1>5, <1>6
<1>. QED BY <1>7 DEF queue2

\* The report that the runner takes had its requests in the queue.
LEMMA TakeRemoves ==
  ASSUME NEW queue \in Seq(Report), queue # << >>
  PROVE  InReports(queue) = queue[1].total.requests + InReports(Tail(queue))
<1>. DEFINE queue2 == Tail(queue)
            n == Len(queue) - 1
            f == [i \in 1..(n + 1) |-> queue[i].total.requests]
            g == [i \in 1..n |-> queue2[i].total.requests]
<1>1. n \in Nat /\ queue2 \in Seq(Report) /\ Len(queue2) = n /\ Len(queue) = n + 1
  OBVIOUS
<1>2. \A i \in 1..n : queue2[i] = queue[i + 1]
  OBVIOUS
<1>. HIDE DEF queue2, n
<1>3. /\ InReports(queue) = SumFunctionOnSet(f, 1..(n + 1))
      /\ \A i \in 1..(n + 1) : f[i] \in Nat /\ f[i] = queue[i].total.requests
  <2>. DEFINE h == [i \in 1..Len(queue) |-> queue[i].total.requests]
  <2>1. /\ InReports(queue) = SumFunctionOnSet(h, 1..Len(queue))
        /\ \A i \in 1..Len(queue) : h[i] \in Nat /\ h[i] = queue[i].total.requests
    BY InReportsIs
  <2>2. h = f /\ 1..Len(queue) = 1..(n + 1)
    BY <1>1
  <2>. HIDE DEF h, f
  <2>. QED BY <2>1, <2>2
<1>4. /\ InReports(queue2) = SumFunctionOnSet(g, 1..n)
      /\ \A i \in 1..n : g[i] \in Nat /\ g[i] = queue2[i].total.requests
  <2>. DEFINE h == [i \in 1..Len(queue2) |-> queue2[i].total.requests]
  <2>1. /\ InReports(queue2) = SumFunctionOnSet(h, 1..Len(queue2))
        /\ \A i \in 1..Len(queue2) : h[i] \in Nat /\ h[i] = queue2[i].total.requests
    BY <1>1, InReportsIs
  <2>2. h = g /\ 1..Len(queue2) = 1..n
    BY <1>1
  <2>. HIDE DEF h, g
  <2>. QED BY <2>1, <2>2
<1>. HIDE DEF f, g
<1>5. \A i \in 1..n : g[i] = f[i + 1]
  <2>1. \A i \in 1..n : i + 1 \in 1..(n + 1)
    BY <1>1
  <2>. QED BY <1>2, <1>3, <1>4, <2>1
<1>6. SumFunctionOnSet(f, 1..(n + 1)) = f[1] + SumFunctionOnSet(g, 1..n)
  <2>1. \A i \in 1..(n + 1) : f[i] \in Int
    BY <1>3
  <2>. QED BY <1>1, <1>5, <2>1, SumShift
<1>7. f[1] = queue[1].total.requests
  <2>1. 1 \in 1..(n + 1)
    BY <1>1
  <2>. QED BY <1>3, <2>1
<1>. QED BY <1>3, <1>4, <1>6, <1>7 DEF queue2

\* The total counts as many requests as were logged.
LEMMA TotalCountsLog ==
  ASSUME StatsTypeOK, EntriesAccurate
  PROVE  total.requests = Len(logged) /\ Len(logged) \in Nat
<1>1. Len(logged) \in Nat /\ DOMAIN logged = 1..Len(logged)
  BY DEF StatsTypeOK
<1>2. total.requests = Cardinality(DOMAIN logged)
  BY DEF EntriesAccurate, Summarizes
<1>3. Cardinality(1..Len(logged)) = Len(logged)
  <2>. DEFINE n == Len(logged)
  <2>1. 1 \in Int /\ n \in Int
    BY <1>1
  <2>. HIDE DEF n
  <2>2. Cardinality(1..n) = IF 1 > n THEN 0 ELSE n - 1 + 1
    BY <2>1, FS_Interval
  <2>3. n \in Nat
    BY <1>1 DEF n
  <2>4. Cardinality(1..n) = n
    BY <2>2, <2>3
  <2>. QED BY <2>4 DEF n
<1>. QED BY <1>1, <1>2, <1>3

\* Where the requests are, all of them numbers.
LEMMA PlacesType ==
  ASSUME StatsTypeOK
  PROVE  /\ Len(success) \in Nat /\ Len(failure) \in Nat /\ total.requests \in Nat
         /\ pending.total.requests \in Nat /\ InReports(toRunner) \in Nat
         /\ recorded \in Nat /\ cleared \in Nat /\ reported \in Nat
<1>1. success \in Seq(Successes) /\ failure \in Seq(Failed) /\ toRunner \in Seq(Report)
  BY DEF StatsTypeOK
<1>2. Len(success) \in Nat /\ Len(failure) \in Nat
  BY <1>1
<1>3. total.requests \in Nat /\ pending.total.requests \in Nat
  BY DEF StatsTypeOK, Report, Entry
<1>4. InReports(toRunner) \in Nat
  BY <1>1, InReportsIs
<1>. QED BY <1>2, <1>3, <1>4 DEF StatsTypeOK

\* Every step moves requests from one place to another.
LEMMA ConservedStep ==
  ASSUME StatsTypeOK, EntriesAccurate, RequestsConserved, pc # "send" => pending = EmptyReport,
         [Next]_vars
  PROVE  RequestsConserved'
<1>. DEFINE Conserved == recorded = Len(success) + Len(failure) + total.requests + cleared
                           + pending.total.requests + InReports(toRunner) + reported
<1>0. RequestsConserved <=> Conserved
  BY DEF RequestsConserved, InReports
<1>1. Conserved' => RequestsConserved'
  BY DEF RequestsConserved, InReports
<1>2. Conserved
  BY <1>0
<1>3. /\ Len(success) \in Nat /\ Len(failure) \in Nat /\ total.requests \in Nat
      /\ pending.total.requests \in Nat /\ InReports(toRunner) \in Nat
      /\ recorded \in Nat /\ cleared \in Nat /\ reported \in Nat
  BY PlacesType
<1>4. /\ Len(success)' \in Nat /\ Len(failure)' \in Nat
  <2>1. StatsTypeOK'
    BY StatsTypeStep
  <2>2. success' \in Seq(Successes) /\ failure' \in Seq(Failed)
    BY <2>1 DEF StatsTypeOK
  <2>. QED BY <2>2
<1>. SUFFICES Conserved'
  BY <1>1
<1>5. NewEntry.requests = 0 /\ EmptyReport.total.requests = 0
  BY NewEntryType DEF EmptyReport
<1>6. ASSUME NEW r \in Requests, LogOne(r) PROVE Conserved'
  <2>1. total'.requests = total.requests + 1
    <3>1. total \in Entry /\ total' = Logged(total, r)
      BY <1>6 DEF StatsTypeOK, LogOne
    <3>. QED BY <3>1, LoggedType
  <2>2. /\ Len(success) + Len(failure) = Len(success') + Len(failure') + 1
        /\ UNCHANGED <<pending, toRunner, cleared, recorded, reported>>
    BY <1>6 DEF LogOne
  <2>3. InReports(toRunner)' = InReports(toRunner) /\ pending'.total.requests = pending.total.requests
    BY <2>2 DEF InReports
  <2>. QED BY <1>2, <1>3, <1>4, <2>1, <2>2, <2>3
<1>7. CASE Tick
  <2>1. pc = "select"
    BY <1>7 DEF Tick
  <2>2. pending.total.requests = 0
    BY <1>5, <2>1
  <2>3. /\ pending'.total = total /\ total' = NewEntry
        /\ UNCHANGED <<success, failure, toRunner, cleared, recorded, reported>>
    BY <1>7 DEF Tick
  <2>4. InReports(toRunner)' = InReports(toRunner)
    BY <2>3 DEF InReports
  <2>. QED BY <1>2, <1>3, <1>5, <2>2, <2>3, <2>4
<1>8. CASE ClearAll
  <2>1. /\ total' = NewEntry /\ cleared' = cleared + Len(logged)
        /\ UNCHANGED <<success, failure, pending, toRunner, recorded, reported>>
    BY <1>8, ClearKeepsTypes
  <2>2. total.requests = Len(logged)
    BY TotalCountsLog
  <2>3. InReports(toRunner)' = InReports(toRunner)
    BY <2>1 DEF InReports
  <2>. QED BY <1>2, <1>3, <1>5, <2>1, <2>2, <2>3
<1>9. CASE SendReport
  <2>1. /\ toRunner' = Append(toRunner, pending) /\ pending' = EmptyReport
        /\ UNCHANGED <<success, failure, total, cleared, recorded, reported>>
    BY <1>9 DEF SendReport, statsVars
  <2>2. toRunner \in Seq(Report) /\ pending \in Report
    BY DEF StatsTypeOK
  <2>3. InReports(Append(toRunner, pending)) = InReports(toRunner) + pending.total.requests
    BY <2>2, SendAdds
  <2>4. InReports(toRunner)' = InReports(Append(toRunner, pending))
    BY <2>1 DEF InReports
  <2>5. InReports(toRunner)' = InReports(toRunner) + pending.total.requests
    BY <2>3, <2>4
  <2>6. pending'.total.requests = 0 /\ total'.requests = total.requests
    BY <1>5, <2>1
  <2>. QED BY <1>2, <1>3, <2>1, <2>5, <2>6
<1>10. CASE TakeReport
  <2>1. /\ toRunner # << >> /\ toRunner' = Tail(toRunner)
        /\ reported' = reported + toRunner[1].total.requests
        /\ UNCHANGED <<success, failure, pending, statsVars, recorded>>
    BY <1>10, TakeKeepsTypes
  <2>2. toRunner \in Seq(Report)
    BY DEF StatsTypeOK
  <2>3. InReports(toRunner) = toRunner[1].total.requests + InReports(Tail(toRunner))
    BY <2>1, <2>2, TakeRemoves
  <2>4. InReports(toRunner)' = InReports(Tail(toRunner))
    BY <2>1 DEF InReports
  <2>5. InReports(Tail(toRunner)) \in Nat /\ toRunner[1].total.requests \in Nat
    <3>1. Tail(toRunner) \in Seq(Report) /\ toRunner[1] \in Report
      BY <2>1, <2>2
    <3>. QED BY <3>1, InReportsIs DEF Report, Entry
  <2>6. /\ total'.requests = total.requests /\ cleared' = cleared
        /\ pending'.total.requests = pending.total.requests
    BY <2>1 DEF statsVars
  <2>7. /\ Len(success)' = Len(success) /\ Len(failure)' = Len(failure)
        /\ recorded' = recorded /\ reported' = reported + toRunner[1].total.requests
    BY <2>1
  <2>. DEFINE first == toRunner[1].total.requests
              rest == InReports(Tail(toRunner))
  <2>8. Conserved' <=> recorded = Len(success) + Len(failure) + total.requests + cleared
                         + pending.total.requests + rest + (reported + first)
    BY <2>4, <2>6, <2>7
  <2>9. first \in Nat /\ rest \in Nat /\ InReports(toRunner) = first + rest
    BY <2>3, <2>5
  <2>. HIDE DEF first, rest
  <2>10. recorded = Len(success) + Len(failure) + total.requests + cleared
                      + pending.total.requests + rest + (reported + first)
    BY <1>2, <1>3, <2>9
  <2>. QED BY <2>8, <2>10
<1>11. ASSUME NEW g \in Recorders, RecordReturns(g) PROVE Conserved'
  <2>1. /\ recorded' = recorded + 1
        /\ Len(success') + Len(failure') = Len(success) + Len(failure) + 1
        /\ UNCHANGED <<pending, toRunner, statsVars, reported>>
    BY <1>11, RecordKeepsTypes
  <2>2. /\ total'.requests = total.requests /\ cleared' = cleared
        /\ pending'.total.requests = pending.total.requests
        /\ InReports(toRunner)' = InReports(toRunner)
    BY <2>1 DEF statsVars, InReports
  <2>3. /\ Len(success)' + Len(failure)' = Len(success) + Len(failure) + 1
        /\ recorded' = recorded + 1 /\ reported' = reported
    BY <2>1
  <2>. DEFINE a == Len(success)'
              b == Len(failure)'
  <2>4. Conserved' <=> recorded + 1 = a + b + total.requests + cleared
                         + pending.total.requests + InReports(toRunner) + reported
    BY <2>2, <2>3
  <2>5. a \in Nat /\ b \in Nat /\ a + b = Len(success) + Len(failure) + 1
    BY <1>4, <2>3
  <2>. HIDE DEF a, b
  <2>6. recorded + 1 = a + b + total.requests + cleared
                         + pending.total.requests + InReports(toRunner) + reported
    <3>. DEFINE n == Len(success) + Len(failure)
                n2 == a + b
                t == total.requests
                p == pending.total.requests
                q == InReports(toRunner)
    <3>1. recorded = n + t + cleared + p + q + reported
      BY <1>2
    <3>2. n \in Nat /\ n2 = n + 1
      BY <1>3, <2>5
    <3>3. t \in Nat /\ p \in Nat /\ q \in Nat /\ cleared \in Nat /\ reported \in Nat
      BY <1>3
    <3>. HIDE DEF n, n2, t, p, q
    <3>4. recorded + 1 = n2 + t + cleared + p + q + reported
      BY <3>1, <3>2, <3>3
    <3>. QED BY <3>4 DEF n2, t, p, q
  <2>. QED BY <2>4, <2>6
<1>12. CASE (\E g \in Recorders : Record(g)) \/ Exit \/ AskToClear \/ Close \/ UNCHANGED vars
  <2>1. UNCHANGED <<success, failure, pending, toRunner, statsVars, recorded, reported>>
    BY <1>12, QuietKeepsTypes
  <2>2. /\ total'.requests = total.requests /\ cleared' = cleared
        /\ pending'.total.requests = pending.total.requests
        /\ InReports(toRunner)' = InReports(toRunner)
    BY <2>1 DEF statsVars, InReports
  <2>. QED BY <1>2, <2>1, <2>2
<1>. HIDE DEF Conserved
<1>. QED BY <1>6, <1>7, <1>8, <1>9, <1>10, <1>11, <1>12, StatsSteps, Zenon

\* Outside the send of a report there is none pending.
LEMMA NonePending ==
  ASSUME pc # "send" => pending = EmptyReport, [Next]_vars
  PROVE  pc' # "send" => pending' = EmptyReport
BY DEF Next, Record, RecordReturns, LogSuccess, LogFailure, ClearAll, Tick, SendReport, Exit,
       AskToClear, TakeReport, Close, OnlyStats, vars

\* Nothing has been recorded at the start.
LEMMA ConservedInit == Init => RequestsConserved
<1>. SUFFICES ASSUME Init PROVE RequestsConserved
  OBVIOUS
<1>1. /\ success = << >> /\ failure = << >> /\ total.requests = 0 /\ pending.total.requests = 0
      /\ recorded = 0 /\ cleared = 0 /\ reported = 0 /\ toRunner = << >>
  BY NewEntryType DEF Init, EmptyReport
<1>2. Len(success) = 0 /\ Len(failure) = 0
  BY <1>1
<1>3. InReports(toRunner) = 0
  <2>. DEFINE f == [i \in DOMAIN toRunner |-> toRunner[i].total.requests]
  <2>1. DOMAIN f = {}
    BY <1>1
  <2>2. InReports(toRunner) = SumFunctionOnSet(f, {})
    BY <2>1, Zenon DEF InReports, SumFunction
  <2>. HIDE DEF f
  <2>. QED BY <2>2, SumEmpty
<1>. QED BY <1>1, <1>2, <1>3 DEF RequestsConserved, InReports

\* For any recorders, requests and capacities, no request recorded is lost or
\* counted twice: it waits in a channel, is counted in the current total, was
\* forgotten by clearAll, or is in exactly one report.
THEOREM RequestsStayConserved == Spec => []RequestsConserved
<1>. DEFINE I == /\ StatsTypeOK /\ EntriesAccurate /\ RequestsConserved
                 /\ pc # "send" => pending = EmptyReport
<1>1. Init => I
  <2>1. Init => (pc # "send" => pending = EmptyReport)
    BY DEF Init
  <2>. QED BY <2>1, StatsTypeInit, AccurateInit, ConservedInit
<1>2. I /\ [Next]_vars => I'
  BY StatsTypeStep, AccurateStep, ConservedStep, NonePending
<1>3. I => RequestsConserved
  OBVIOUS
<1>. HIDE DEF I
<1>. QED BY <1>1, <1>2, <1>3, PTL DEF Spec
=============================================================================
